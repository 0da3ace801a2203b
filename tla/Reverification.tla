--------------------------- MODULE Reverification ---------------------------
(***************************************************************************)
(* Re-verification of one contact before a follow-up (lib/reverification,  *)
(* with the part of lib/worker that asks for it).  Workers look, claim by  *)
(* the number of attempts, call the gateway under the key of the request   *)
(* and write by id: nothing ties an answer to its claim.  The gateway      *)
(* stores a definite answer with the time the vendor gave it; the worker   *)
(* takes it only if that is before the time it started itself.             *)
(***************************************************************************)
EXTENDS Naturals

CONSTANTS Worker,
          MaxRequest, \* bound: requests for the contact
          MaxCrash,   \* bound
          None

MaxAttempts == 3

VARIABLES
    contact, \* Contact: request (its number), pending, attempts, lease ("free",
             \* "held" or "over"), due (verificationNextAt has come), fresh
    row,     \* its queued message: "due", "parked", "sent" or "canceled"
    answer,  \* what the gateway has stored for each request, or None
    alerted, \* requests with a verification_exhausted alert
    at, got, \* each worker: point, and what it read when it looked
    calls,   \* history: attempts made for each request
    heard,   \* history: requests for which a worker was told "valid", within the hour
    crashes

vars == <<contact, row, answer, alerted, at, got, calls, heard, crashes>>

Request == 1..MaxRequest

TypeOK ==
    /\ contact \in [request : 0..MaxRequest, pending : BOOLEAN, attempts : 0..MaxAttempts,
                    lease : {"free", "held", "over"}, due : BOOLEAN, fresh : BOOLEAN]
    /\ row \in {"due", "parked", "sent", "canceled"}
    /\ \A r \in Request : answer[r] = None \/ answer[r] \in [valid : BOOLEAN, old : BOOLEAN]
    /\ alerted \subseteq Request /\ calls \in [Request -> Nat] /\ heard \subseteq Request
    /\ at \in [Worker -> {"idle", "claim", "call", "settle", "fail"}]
    /\ \A w \in Worker : got[w] = None \/
          got[w] \in [request : Request, attempts : 0..MaxAttempts, known : BOOLEAN]
    /\ crashes \in 0..MaxCrash

Init ==
    /\ contact = [request |-> 0, pending |-> FALSE, attempts |-> 0, lease |-> "free",
                  due |-> TRUE, fresh |-> FALSE]
    /\ row = "due" /\ answer = [r \in Request |-> None] /\ alerted = {}
    /\ at = [w \in Worker |-> "idle"] /\ got = [w \in Worker |-> None]
    /\ calls = [r \in Request |-> 0] /\ heard = {} /\ crashes = 0

-----------------------------------------------------------------------------
(* The send worker: the message of a contact that is not fresh waits, and asks for a
   verification unless one is pending. *)
Park ==
    /\ row = "due" /\ ~contact.fresh /\ row' = "parked"
    /\ IF contact.pending THEN UNCHANGED contact
       ELSE /\ contact.request < MaxRequest
            /\ contact' = [contact EXCEPT !.request = @ + 1, !.pending = TRUE,
                                          !.attempts = 0, !.due = TRUE]
    /\ UNCHANGED <<answer, alerted, at, got, calls, heard, crashes>>

Send == /\ row = "due" /\ contact.fresh /\ row' = "sent"
        /\ UNCHANGED <<contact, answer, alerted, at, got, calls, heard, crashes>>

Unpark == /\ row = "parked" /\ row' = "due"
          /\ UNCHANGED <<contact, answer, alerted, at, got, calls, heard, crashes>>

-----------------------------------------------------------------------------
Ends(w) == at' = [at EXCEPT ![w] = "idle"] /\ got' = [got EXCEPT ![w] = None]

(* Mutant: a lease is for ever. *)
Free_NotOver == contact.lease = "free"

Free == contact.lease # "held"

Find(w) ==
    /\ at[w] = "idle" /\ Free
    /\ contact.pending /\ contact.attempts < MaxAttempts /\ contact.due
    /\ row \in {"due", "parked"}
    /\ got' = [got EXCEPT ![w] = [request |-> contact.request, attempts |-> contact.attempts,
                                  known |-> answer[contact.request] # None]]
    /\ at' = [at EXCEPT ![w] = "claim"]
    /\ UNCHANGED <<contact, row, answer, alerted, calls, heard, crashes>>

(* Mutant: the claim does not compare the attempts it read. *)
Unclaimed_LeaseOnly(w) == Free

Unclaimed(w) == Free /\ contact.attempts = got[w].attempts

Claim(w) ==
    /\ at[w] = "claim"
    /\ IF Unclaimed(w)
         THEN /\ contact' = [contact EXCEPT !.attempts = @ + 1, !.lease = "held"]
              /\ calls' = [calls EXCEPT ![got[w].request] = @ + 1]
              /\ at' = [at EXCEPT ![w] = "call"]
              /\ UNCHANGED got
         ELSE Ends(w) /\ UNCHANGED <<contact, calls>>
    /\ UNCHANGED <<row, answer, alerted, heard, crashes>>

(* No answer, or "unknown".  The vendor may have answered the gateway all the same,
   which stores what is definite. *)
Lost(w) ==
    LET r == got[w].request
    IN /\ at[w] = "call" /\ at' = [at EXCEPT ![w] = "fail"]
       /\ \/ UNCHANGED answer
          \/ /\ answer[r] = None
             /\ \E v \in BOOLEAN : answer' = [answer EXCEPT ![r] = [valid |-> v, old |-> FALSE]]
       /\ UNCHANGED <<contact, row, alerted, got, calls, heard, crashes>>

(* A definite answer: the one stored, or the vendor's.  One of more than an hour is no
   evidence, and neither is one given after this worker looked (checked > now). *)
Answered(w) ==
    LET r == got[w].request
    IN /\ at[w] = "call"
       /\ \/ answer[r] # None /\ UNCHANGED answer
          \/ /\ answer[r] = None
             /\ \E v \in BOOLEAN : answer' = [answer EXCEPT ![r] = [valid |-> v, old |-> FALSE]]
       /\ heard' = IF answer'[r].valid /\ ~answer'[r].old THEN heard \cup {r} ELSE heard
       /\ at' = [at EXCEPT ![w] = IF got[w].known /\ ~answer'[r].old THEN "settle" ELSE "fail"]
       /\ UNCHANGED <<contact, row, alerted, got, calls, crashes>>

Settle(w) ==
    /\ at[w] = "settle" /\ Ends(w)
    /\ contact' = [contact EXCEPT !.pending = FALSE, !.attempts = 0, !.lease = "free",
                                  !.fresh = answer[got[w].request].valid]
    /\ row' = IF ~answer[got[w].request].valid /\ row # "sent" THEN "canceled"
              ELSE IF row = "parked" THEN "due" ELSE row
    /\ UNCHANGED <<answer, alerted, calls, heard, crashes>>

Fail(w) ==
    /\ at[w] = "fail" /\ Ends(w)
    /\ contact' = [contact EXCEPT !.lease = "free", !.due = FALSE]
    /\ UNCHANGED <<row, answer, alerted, calls, heard, crashes>>

(* collectAlerts. *)
Collect ==
    /\ contact.pending /\ contact.attempts >= MaxAttempts /\ contact.request \notin alerted
    /\ alerted' = alerted \cup {contact.request}
    /\ UNCHANGED <<contact, row, answer, at, got, calls, heard, crashes>>

-----------------------------------------------------------------------------
(* Time: two minutes, one to four, an hour, seven days.  No worker stalls for days. *)
LeaseEnds == /\ contact.lease = "held" /\ contact' = [contact EXCEPT !.lease = "over"]
             /\ UNCHANGED <<row, answer, alerted, at, got, calls, heard, crashes>>

BackoffEnds == /\ ~contact.due /\ contact' = [contact EXCEPT !.due = TRUE]
               /\ UNCHANGED <<row, answer, alerted, at, got, calls, heard, crashes>>

HourPasses(r) == /\ answer[r] # None /\ \A w \in Worker : at[w] = "idle"
                 /\ answer' = [answer EXCEPT ![r].old = TRUE]
                 /\ UNCHANGED <<contact, row, alerted, at, got, calls, heard, crashes>>

DaysPass == /\ contact.fresh /\ \A w \in Worker : at[w] = "idle"
            /\ contact' = [contact EXCEPT !.fresh = FALSE]
            /\ UNCHANGED <<row, answer, alerted, at, got, calls, heard, crashes>>

Crash(w) ==
    /\ at[w] # "idle" /\ crashes < MaxCrash
    /\ Ends(w) /\ crashes' = crashes + 1
    /\ UNCHANGED <<contact, row, answer, alerted, calls, heard>>

Works(w) == Claim(w) \/ Lost(w) \/ Answered(w) \/ Settle(w) \/ Fail(w)

Next ==
    \/ Park \/ Send \/ Unpark \/ Collect \/ LeaseEnds \/ BackoffEnds \/ DaysPass
    \/ \E r \in Request : HourPasses(r)
    \/ \E w \in Worker : Find(w) \/ Works(w) \/ Crash(w)

Spec == Init /\ [][Next]_vars

(* Ticks go on, time passes, and a call returns or times out. *)
Fairness ==
    /\ WF_vars(Collect) /\ WF_vars(LeaseEnds) /\ WF_vars(BackoffEnds)
    /\ \A w \in Worker : WF_vars(Find(w)) /\ WF_vars(Works(w))

-----------------------------------------------------------------------------
(* At most three attempts are made for a pending request, also when workers look at
   once, stall or fail after their lease (reverification.ts:13, :29). *)
ThreeAttempts ==
    \A r \in Request : contact.pending /\ contact.request = r => calls[r] <= MaxAttempts

(* A request is settled or ends as an alert, whatever crashes (alerts.ts:37). *)
RequestEnds ==
    \A r \in Request : contact.pending /\ contact.request = r
                          ~> ~contact.pending \/ r \in alerted \/ row \in {"sent", "canceled"}

(* docs/OPERATIONS.md:24: valid fresh evidence releases deferred messages: a request
   whose answer came, valid and fresh, does not run out of attempts. *)
FreshEvidenceReleases ==
    contact.pending /\ contact.attempts >= MaxAttempts /\ (\A w \in Worker : at[w] = "idle")
        => contact.request \notin heard \/ crashes > 0
=============================================================================
