------------------------------ MODULE Delivery ------------------------------
(***************************************************************************)
(* processOutreachRow and sendMicrosoft together: the outreach queue calls *)
(* the receipt protocol for its first message.  A worker is a caller       *)
(* between its recheck and its completion, and calls for one key overlap   *)
(* exactly when a lease ends before the call it covers.                    *)
(***************************************************************************)
EXTENDS Naturals, FiniteSets

CONSTANTS Worker, Contact,  \* one contact, one sequence step
          MaxSendAttempts,
          Input, MaxDraft,  \* as in MailReceipt
          None, NoOne

VARIABLES status, draftId, requestHash, pc, input, held, created, content, inflight, sent,
          returned, recovered                              \* MailReceipt
VARIABLES rowStatus, attempts, token, leased, due, reserved, approved, outdated, reviewed,
          present, stopped, suppressed, booked, met, gateOpen, sendPc, batch, cur, seen,
          accepted, calls                                  \* OutreachSend

M == INSTANCE MailReceipt WITH Caller <- Worker, Serial <- FALSE

O == INSTANCE OutreachSend WITH
       LastStep <- 1, DailyCap <- 1, Review <- FALSE, Unreadable <- {}, Event <- {"suppress"},
       status <- rowStatus, pc <- sendPc

receipt == <<status, draftId, requestHash, pc, input, held, created, content, inflight, sent,
             returned, recovered>>
outreach == <<rowStatus, attempts, token, leased, due, reserved, approved, outdated, reviewed,
              present, stopped, suppressed, booked, met, gateOpen, sendPc, batch, cur, seen,
              accepted, calls>>
vars == <<receipt, outreach>>

(* The key of the receipt: the only message the queue has. *)
Message == CHOOSE r \in O!Row : r[2] = 1

Init == M!Init /\ O!Init

-----------------------------------------------------------------------------
(* The call goes on: the queue sees nothing of it. *)
Continues(w) ==
    /\ sendPc[w] = "cleared"
    /\ \/ \E i \in Input : M!Begin(w, i)
       \/ M!Recover(w) \/ M!ClaimCreate(w) \/ M!DraftCreated(w) \/ M!ClaimSubmit(w)
       \/ M!ReconcileSent(w)
    /\ UNCHANGED outreach

(* It returns a message id, *)
Returns(w) ==
    /\ \/ \E i \in Input : M!BeginAccepted(w, i)
       \/ M!SubmitAccepted(w) \/ M!ReconcileWrite(w)
    /\ O!ProviderCall(w)
    /\ sendPc'[w] = "answered"

(* or throws: the receipt is another text's or being created, a race was lost, Graph
   refused, or nothing is certain. *)
Refused(w) ==
    /\ pc[w] = "idle"
    /\ status = "CREATING" \/ \E i \in Input : requestHash \notin {None, i}
    /\ UNCHANGED receipt

Throws(w) ==
    /\ \/ Refused(w)
       \/ M!ClaimCreateLost(w) \/ M!DraftRejected(w) \/ M!DraftUncertain(w)
       \/ M!ClaimSubmitLost(w) \/ M!SubmitUncertain(w) \/ M!ReconcileUncertain(w)
    /\ O!ProviderCall(w)
    /\ sendPc'[w] = "failed"
    /\ accepted' = IF sent = {} THEN accepted ELSE accepted \cup {cur[w]}

(* Everything the queue does around its calls. *)
Queue(w) ==
    /\ \/ O!StartPass(w) \/ O!EndPass(w)
       \/ \E r \in O!Row : O!Prepare(w, r)
       \/ O!Recheck(w) \/ O!Record(w) \/ O!FailRow(w)
    /\ UNCHANGED receipt

(* A worker dies with the call it is in. *)
Crash(w) == O!Crash(w) /\ (IF pc[w] = "idle" THEN UNCHANGED receipt ELSE M!Crash(w))

Around == (O!Sweep \/ O!Clock \/ O!Outside) /\ UNCHANGED receipt

Graph == M!GraphStep /\ UNCHANGED outreach

Next == \/ \E w \in Worker : Continues(w) \/ Returns(w) \/ Throws(w) \/ Queue(w) \/ Crash(w)
        \/ Around
        \/ Graph

Spec == Init /\ [][Next]_vars

-----------------------------------------------------------------------------
(* A message recorded SENT was sent, whichever of the calls that overlap recorded it and
   whatever stopped the contact meanwhile (worker.ts:325). *)
RecordedWasSent == rowStatus[Message] = "SENT" => sent # {}

(* The contact gets a message twice only from its third attempt on: one attempt leaves
   the receipt without a draft, and two more, whose calls overlap, both reset it
   (worker.ts:303, m365/send.ts:65). *)
DuplicateTakesThree == Cardinality(sent) > 1 => attempts[Message] >= 3
=============================================================================
