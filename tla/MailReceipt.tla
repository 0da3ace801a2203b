---------------------------- MODULE MailReceipt -----------------------------
(***************************************************************************)
(* sendMicrosoft (lib/m365/send.ts): the receipt protocol that submits one *)
(* outreach message to Microsoft Graph.  One MailReceipt row, the one of a *)
(* single message key, is shared by every worker that tries that key.      *)
(* Each database statement and each answer of Graph is a step of its own,  *)
(* so calls interleave, crash and outlive their timeouts.                  *)
(***************************************************************************)
EXTENDS Naturals

CONSTANTS Caller,    \* worker processes that may call sendMicrosoft
          Input,     \* distinct mail inputs; each stands for its request hash
          MaxDraft,  \* bound: drafts Graph hands out in one behaviour
          Serial,    \* TRUE: a call starts only when no other is running
          None

ASSUME MailReceiptAssumption ==
    /\ MaxDraft \in Nat
    /\ Serial \in BOOLEAN
    /\ None \notin 1..MaxDraft
    /\ None \notin Input

Draft == 1..MaxDraft

ReceiptStatus == {"NEW", "CREATING", "DRAFT", "SUBMITTING", "AMBIGUOUS", "ACCEPTED"}

Point == {"idle", "recover", "claim", "creating", "submit", "submitting",
          "reconcile", "confirmed"}

VARIABLES
    status, draftId, requestHash,  \* the MailReceipt row
    pc,                            \* where each running call is
    input,                         \* the mail input of the running call
    held,                          \* the draft id the running call has read
    created,                       \* drafts Graph has handed out
    content,                       \* draft -> the input it was created from
    inflight,                      \* drafts with a send request on the wire
    sent,                          \* drafts Graph has sent to the recipient
    returned,                      \* message ids reported as accepted
    recovered                      \* history: a receipt was reset to NEW

row    == <<status, draftId, requestHash>>
call   == <<pc, input, held>>
graph  == <<created, content, inflight, sent>>
vars   == <<row, call, graph, returned, recovered>>

TypeOK ==
    /\ status \in ReceiptStatus
    /\ draftId \in Draft \cup {None}
    /\ requestHash \in Input \cup {None}
    /\ pc \in [Caller -> Point]
    /\ input \in [Caller -> Input \cup {None}]
    /\ held \in [Caller -> Draft \cup {None}]
    /\ created \in 0..MaxDraft
    /\ content \in [Draft -> Input \cup {None}]
    /\ inflight \subseteq Draft
    /\ sent \subseteq Draft
    /\ returned \subseteq Draft
    /\ recovered \in BOOLEAN

Init ==
    /\ status = "NEW" /\ draftId = None /\ requestHash = None
    /\ pc = [c \in Caller |-> "idle"]
    /\ input = [c \in Caller |-> None]
    /\ held = [c \in Caller |-> None]
    /\ created = 0 /\ content = [d \in Draft |-> None]
    /\ inflight = {} /\ sent = {}
    /\ returned = {}
    /\ recovered = FALSE

-----------------------------------------------------------------------------
(* Moving a call along, and ending it by a return or a throw. *)
GoTo(c, p) == pc' = [pc EXCEPT ![c] = p]

Finish(c) == /\ GoTo(c, "idle")
             /\ input' = [input EXCEPT ![c] = None]
             /\ held' = [held EXCEPT ![c] = None]

(* Mutant: an uncertain receipt is reset although its draft may have been sent. *)
Branch_ResetsDrafts(s, d) ==
    CASE s \in {"SUBMITTING", "AMBIGUOUS"} -> "recover"
      [] s = "NEW"                         -> "claim"
      [] s = "DRAFT"                       -> "submit"

(* The branch taken on the row that the upsert returned. *)
Branch(s, d) ==
    CASE s \in {"SUBMITTING", "AMBIGUOUS"} /\ d # None -> "reconcile"
      [] s \in {"SUBMITTING", "AMBIGUOUS"} /\ d = None -> "recover"
      [] s = "NEW"                                     -> "claim"
      [] s = "DRAFT"                                   -> "submit"

(* Mutant: the request hash is not compared. *)
Begin_AnyInput(c, i) ==
    /\ pc[c] = "idle"
    /\ Serial => \A o \in Caller : pc[o] = "idle"
    /\ status \notin {"ACCEPTED", "CREATING"}
    /\ requestHash' = IF requestHash = None THEN i ELSE requestHash
    /\ GoTo(c, Branch(status, draftId))
    /\ input' = [input EXCEPT ![c] = i]
    /\ held' = [held EXCEPT ![c] = draftId]
    /\ UNCHANGED <<status, draftId, graph, returned, recovered>>

(* The upsert creates the row with this call's hash, or reads it.  The call
   throws, and changes nothing, when the row was written for another input
   (m365_idempotency_conflict) and when it is CREATING, that is owned by a
   call that is still running or has died (m365_send_ambiguous). *)
Begin(c, i) ==
    /\ pc[c] = "idle"
    /\ Serial => \A o \in Caller : pc[o] = "idle"
    /\ requestHash \in {None, i}
    /\ status \notin {"ACCEPTED", "CREATING"}
    /\ requestHash' = IF requestHash = None THEN i ELSE requestHash
    /\ GoTo(c, Branch(status, draftId))
    /\ input' = [input EXCEPT ![c] = i]
    /\ held' = [held EXCEPT ![c] = draftId]
    /\ UNCHANGED <<status, draftId, graph, returned, recovered>>

(* Mutant: a receipt claimed by another call is taken for a sent one. *)
BeginAccepted_Claimed(c, i) ==
    /\ pc[c] = "idle"
    /\ Serial => \A o \in Caller : pc[o] = "idle"
    /\ status \in {"ACCEPTED", "CREATING"}
    /\ requestHash = i
    /\ returned' = returned \cup {draftId}
    /\ UNCHANGED <<row, call, graph, recovered>>

(* The early return: the message was accepted before. *)
BeginAccepted(c, i) ==
    /\ pc[c] = "idle"
    /\ Serial => \A o \in Caller : pc[o] = "idle"
    /\ status = "ACCEPTED"
    /\ requestHash = i
    /\ returned' = returned \cup {draftId}
    /\ UNCHANGED <<row, call, graph, recovered>>

(* An uncertain receipt without a draft is put back to NEW: an update on the
   key alone, with no condition on the status it replaces.  It returns the row. *)
Recover(c) ==
    /\ pc[c] = "recover"
    /\ status' = "NEW"
    /\ held' = [held EXCEPT ![c] = draftId]
    /\ GoTo(c, "claim")
    /\ recovered' = TRUE
    /\ UNCHANGED <<draftId, requestHash, input, graph, returned>>

(* Mutant: an update on the key alone. *)
ClaimCreate_Unconditional(c) ==
    /\ pc[c] = "claim"
    /\ status' = "CREATING"
    /\ GoTo(c, "creating")
    /\ UNCHANGED <<draftId, requestHash, input, held, graph, returned, recovered>>

(* NEW -> CREATING by compare-and-set, committed before the draft request. *)
ClaimCreate(c) ==
    /\ pc[c] = "claim"
    /\ status = "NEW"
    /\ status' = "CREATING"
    /\ GoTo(c, "creating")
    /\ UNCHANGED <<draftId, requestHash, input, held, graph, returned, recovered>>

ClaimCreateLost(c) ==
    /\ pc[c] = "claim"
    /\ status # "NEW"
    /\ Finish(c)
    /\ UNCHANGED <<row, graph, returned, recovered>>

(* Graph answered with a draft id and the row was updated with it. *)
DraftCreated(c) ==
    /\ pc[c] = "creating"
    /\ created < MaxDraft
    /\ created' = created + 1
    /\ content' = [content EXCEPT ![created + 1] = input[c]]
    /\ status' = "DRAFT"
    /\ draftId' = created + 1
    /\ held' = [held EXCEPT ![c] = created + 1]
    /\ GoTo(c, "submit")
    /\ UNCHANGED <<requestHash, input, inflight, sent, returned, recovered>>

(* Graph refused the draft with an HTTP status other than 408: back to NEW. *)
DraftRejected(c) ==
    /\ pc[c] = "creating"
    /\ status' = "NEW"
    /\ Finish(c)
    /\ UNCHANGED <<draftId, requestHash, graph, returned, recovered>>

(* A timeout, a dropped connection, a 408 or an unreadable answer.  A draft
   Graph may have made is an orphan: its id is known to nobody. *)
DraftUncertain(c) ==
    /\ pc[c] = "creating"
    /\ status' = "AMBIGUOUS"
    /\ Finish(c)
    /\ UNCHANGED <<draftId, requestHash, graph, returned, recovered>>

(* DRAFT -> SUBMITTING by compare-and-set; the request that follows sends the
   draft this call read, whatever the row holds by then. *)
ClaimSubmit(c) ==
    /\ pc[c] = "submit"
    /\ status = "DRAFT"
    /\ status' = "SUBMITTING"
    /\ inflight' = inflight \cup {held[c]}
    /\ GoTo(c, "submitting")
    /\ UNCHANGED <<draftId, requestHash, input, held, created, content, sent,
                   returned, recovered>>

ClaimSubmitLost(c) ==
    /\ pc[c] = "submit"
    /\ status # "DRAFT"
    /\ Finish(c)
    /\ UNCHANGED <<row, graph, returned, recovered>>

(* 202: Graph sent the draft and the receipt is marked. *)
SubmitAccepted(c) ==
    /\ pc[c] = "submitting"
    /\ held[c] \in sent
    /\ status' = "ACCEPTED"
    /\ returned' = returned \cup {held[c]}
    /\ Finish(c)
    /\ UNCHANGED <<draftId, requestHash, graph, recovered>>

(* Any error, a refusal included, leaves the acceptance uncertain; the request
   may still be on the wire. *)
SubmitUncertain(c) ==
    /\ pc[c] = "submitting"
    /\ status' = "AMBIGUOUS"
    /\ Finish(c)
    /\ UNCHANGED <<draftId, requestHash, graph, returned, recovered>>

(* Mutant: a draft that can be read counts as sent. *)
ReconcileSent_AnyDraft(c) ==
    /\ pc[c] = "reconcile"
    /\ GoTo(c, "confirmed")
    /\ UNCHANGED <<row, input, held, graph, returned, recovered>>

(* Reading the draft back: no longer a draft and sent, or still uncertain. *)
ReconcileSent(c) ==
    /\ pc[c] = "reconcile"
    /\ held[c] \in sent
    /\ GoTo(c, "confirmed")
    /\ UNCHANGED <<row, input, held, graph, returned, recovered>>

ReconcileUncertain(c) ==
    /\ pc[c] = "reconcile"
    /\ Finish(c)
    /\ UNCHANGED <<row, graph, returned, recovered>>

(* The update that follows a positive read, again on the key alone. *)
ReconcileWrite(c) ==
    /\ pc[c] = "confirmed"
    /\ status' = "ACCEPTED"
    /\ returned' = returned \cup {held[c]}
    /\ Finish(c)
    /\ UNCHANGED <<draftId, requestHash, graph, recovered>>

(* A worker dies between two statements; requests it made live on. *)
Crash(c) ==
    /\ pc[c] # "idle"
    /\ Finish(c)
    /\ UNCHANGED <<row, graph, returned, recovered>>

-----------------------------------------------------------------------------
(* Microsoft Graph: a send request arrives, possibly after its caller gave up,
   or is lost. *)
GraphSends(d) ==
    /\ d \in inflight
    /\ inflight' = inflight \ {d}
    /\ sent' = sent \cup {d}
    /\ UNCHANGED <<row, call, created, content, returned, recovered>>

GraphLoses(d) ==
    /\ d \in inflight
    /\ inflight' = inflight \ {d}
    /\ UNCHANGED <<row, call, created, content, sent, returned, recovered>>

CallStep(c) ==
    \/ \E i \in Input : Begin(c, i) \/ BeginAccepted(c, i)
    \/ Recover(c)
    \/ ClaimCreate(c) \/ ClaimCreateLost(c)
    \/ DraftCreated(c) \/ DraftRejected(c) \/ DraftUncertain(c)
    \/ ClaimSubmit(c) \/ ClaimSubmitLost(c)
    \/ SubmitAccepted(c) \/ SubmitUncertain(c)
    \/ ReconcileSent(c) \/ ReconcileUncertain(c) \/ ReconcileWrite(c)
    \/ Crash(c)

GraphStep == \E d \in Draft : GraphSends(d) \/ GraphLoses(d)

Next == (\E c \in Caller : CallStep(c)) \/ GraphStep

Spec == Init /\ [][Next]_vars

-----------------------------------------------------------------------------
(* The recipient receives at most one message, whatever fails, is retried or
   arrives late (send.ts:9-10). *)
AtMostOneDelivery == \A d, e \in sent : d = e

(* A message id is reported as accepted only after Graph sent that message,
   so the caller never marks SENT what nobody received. *)
ReportedWasSent == returned \subseteq sent

(* The delivered text is the one the receipt was bound to when the key was
   first used, whichever retry delivered it. *)
DeliveredAsBound == \A d \in sent : content[d] = requestHash

(* Two messages can only reach the recipient through the reset of an uncertain
   receipt to NEW: every other race of two calls is settled by a
   compare-and-set. *)
SecondDeliveryNeedsReset == recovered \/ AtMostOneDelivery

(* The receipt of a message whose submission has begun never returns to a
   status from which a draft is created or submitted. *)
SubmissionBegun(s, d) == s \in {"SUBMITTING", "ACCEPTED"} \/ (s = "AMBIGUOUS" /\ d # None)

NeverResubmitted ==
    [][SubmissionBegun(status, draftId) => SubmissionBegun(status', draftId')]_vars

(* The same while no receipt has been reset: what calls that overlap keep. *)
NeverResubmittedWithoutReset ==
    [][SubmissionBegun(status, draftId) /\ ~recovered'
          => SubmissionBegun(status', draftId')]_vars

(* The protocol implements at-most-once sending: what the recipient has is what
   Graph sent, and what is acknowledged is what sendMicrosoft returned. *)
AMO == INSTANCE AtMostOnceSend WITH delivered <- sent, acknowledged <- returned

ImplementsAtMostOnce == AMO!ASpec

-----------------------------------------------------------------------------
(* The inductive invariants behind these properties. *)

(* A draft id, once known, is never forgotten by the row. *)
Named ==
    /\ status \in {"DRAFT", "ACCEPTED"} => draftId # None
    /\ \A c \in Caller : held[c] # None => draftId # None
    /\ \A c \in Caller :
          pc[c] \in {"submit", "submitting", "reconcile", "confirmed"} => held[c] # None

TypeInv == TypeOK /\ Named

(* Every draft was made from the input the receipt is bound to. *)
Bound ==
    /\ requestHash = None => created = 0
    /\ \A c \in Caller : pc[c] # "idle" => requestHash # None /\ input[c] = requestHash
    /\ draftId # None => draftId \in 1..created
    /\ \A c \in Caller : held[c] # None => held[c] \in 1..created
    /\ inflight \cup sent \subseteq 1..created
    /\ \A d \in 1..created : content[d] = requestHash

(* While calls are safe: a single creator; *)
OneCreator ==
    \A c \in Caller : pc[c] = "creating" =>
        /\ status = "CREATING"
        /\ \A o \in Caller : pc[o] = "creating" => o = c

(* a single draft, the one the row names, submitted only from DRAFT; *)
OneDraft ==
    /\ status \in {"NEW", "CREATING"} => draftId = None
    /\ \A c \in Caller : held[c] # None => held[c] = draftId
    /\ \A d \in inflight \cup sent : d = draftId
    /\ status = "DRAFT" => inflight \cup sent = {}
    /\ \A c \in Caller : pc[c] = "submitting" =>
          status \in {"SUBMITTING", "AMBIGUOUS", "ACCEPTED"}

(* acceptance reported only for what Graph sent; *)
AcceptedIsSent ==
    /\ \A c \in Caller : pc[c] = "confirmed" => held[c] \in sent
    /\ status = "ACCEPTED" => draftId \in sent
    /\ returned \subseteq sent

(* and, of serial calls, one at a time, none of which can reset a draft. *)
OneCall ==
    Serial =>
      /\ \A c, o \in Caller : pc[c] # "idle" /\ pc[o] # "idle" => c = o
      /\ \A c \in Caller : pc[c] = "recover" => draftId = None

(* Calls that do not overlap, or overlap without any reset. *)
Safe == Serial \/ ~recovered

SafeInv == Safe => OneCreator /\ OneDraft /\ AcceptedIsSent /\ OneCall
=============================================================================
