---------------------------- MODULE OutreachSend ----------------------------
(***************************************************************************)
(* The outreach queue of one campaign and the workers that send from it:   *)
(* processOutreach, processOutreachRow and recheckOutreachBeforeSend of    *)
(* lib/worker.ts, the sweepers of tick, and every operation that changes a *)
(* queued row under a worker's feet (replies, suppressions, bookings,      *)
(* approvals, campaign edits, erasure).  Each database transaction is one  *)
(* step; the provider call lies between two of them.                       *)
(*                                                                         *)
(* Time is abstracted.  A lease that may be taken over, a row that is due  *)
(* and a reservation of the last 24 hours are members of sets, which       *)
(* LeaseExpires, BecomesDue and DayPasses move when the clock would.       *)
(***************************************************************************)
EXTENDS Naturals, FiniteSets

CONSTANTS Worker,           \* worker processes
          Contact,          \* the enrolled prospects
          LastStep,         \* the sequence has the steps 1..LastStep
          MaxSendAttempts,  \* MAX_SEND_ATTEMPTS
          DailyCap,         \* the tenant's, sender's and campaign's daily cap
          Review,           \* automationMode = REVIEW_BEFORE_SEND
          Unreadable,       \* rows whose copy is blank or whose step is gone
          Event,            \* bound: the outside events an instance explores
          NoOne

Invite == 0                 \* stepOrder of a BOOKING_INVITATION (null)

Row == Contact \X (0..LastStep)

ASSUME OutreachSendAssumption ==
    /\ LastStep \in Nat \ {0}
    /\ MaxSendAttempts \in Nat \ {0}
    /\ DailyCap \in Nat
    /\ Review \in BOOLEAN
    /\ Unreadable \subseteq Row
    /\ NoOne \notin Worker /\ NoOne \notin Row

VARIABLES
    status,      \* OutreachEvent.status; "none" before the row exists
    attempts,    \* OutreachEvent.attempts
    token,       \* OutreachEvent.leaseToken, as the worker that wrote it
    leased,      \* rows whose leaseUntil is in the future
    due,         \* rows whose scheduledAt has passed
    reserved,    \* rows whose reservedAt lies in the last 24 hours
    approved,    \* rows with an approvedAt
    outdated,    \* history: approvals given before the last material edit
    reviewed,    \* history: rows an operator approved
    present,     \* contacts that exist; erasure deletes contact and enrollment
    stopped,     \* contacts whose enrollment has a stoppedAt
    suppressed,  \* contacts on the suppression list
    booked,      \* contacts with a BOOKED appointment
    met,         \* contacts with an appointment of any status
    gateOpen,    \* every other condition of outreachWaitReason holds
    pc, batch, cur, seen,  \* each worker: point, candidates, row, e.attempts
    accepted,    \* rows the provider has accepted (sent to the recipient)
    calls        \* history: provider calls made for the row

queue    == <<status, attempts, token, leased, due, reserved>>
approval == <<approved, outdated, reviewed>>
person   == <<present, stopped, suppressed, booked, met>>
worker   == <<pc, batch, cur, seen>>
provider == <<accepted, calls>>
vars     == <<queue, approval, person, gateOpen, worker, provider>>

RowStatus == {"none", "QUEUED", "SENDING", "SENT", "FAILED", "CANCELED"}

Point == {"idle", "pass", "leased", "cleared", "answered", "failed"}

TypeOK ==
    /\ status \in [Row -> RowStatus]
    /\ attempts \in [Row -> 0..MaxSendAttempts]
    /\ token \in [Row -> Worker \cup {NoOne}]
    /\ leased \subseteq Row /\ due \subseteq Row /\ reserved \subseteq Row
    /\ approved \subseteq Row /\ outdated \subseteq Row /\ reviewed \subseteq Row
    /\ present \subseteq Contact /\ stopped \subseteq Contact
    /\ suppressed \subseteq Contact /\ booked \subseteq Contact /\ met \subseteq Contact
    /\ gateOpen \in BOOLEAN
    /\ pc \in [Worker -> Point]
    /\ batch \in [Worker -> SUBSET Row]
    /\ cur \in [Worker -> Row \cup {NoOne}]
    /\ seen \in [Worker -> 0..MaxSendAttempts]
    /\ accepted \subseteq Row
    /\ calls \in [Row -> Nat]

(* Discovery has enrolled every contact and queued its first step. *)
Init ==
    /\ status = [r \in Row |-> IF r[2] = 1 THEN "QUEUED" ELSE "none"]
    /\ attempts = [r \in Row |-> 0]
    /\ token = [r \in Row |-> NoOne]
    /\ leased = {} /\ due = {r \in Row : r[2] = 1} /\ reserved = {}
    /\ approved = {} /\ outdated = {} /\ reviewed = {}
    /\ present = Contact /\ stopped = {} /\ suppressed = {} /\ booked = {} /\ met = {}
    /\ gateOpen = TRUE
    /\ pc = [w \in Worker |-> "idle"]
    /\ batch = [w \in Worker |-> {}]
    /\ cur = [w \in Worker |-> NoOne]
    /\ seen = [w \in Worker |-> 0]
    /\ accepted = {} /\ calls = [r \in Row |-> 0]

-----------------------------------------------------------------------------
Sequence(r) == r[2] # Invite

Pending(r) == status[r] \in {"QUEUED", "SENDING"}

(* What closes a row for good: no contact or enrollment, a suppression, or,
   for a sequence step, a stopped enrollment. *)
Closed(r) == \/ r[1] \notin present
             \/ r[1] \in suppressed
             \/ Sequence(r) /\ r[1] \in stopped

(* Mutant: the approval is not part of the gate. *)
Waits_NoApproval(r) == ~gateOpen

(* outreachWaitReason: what makes a row wait without spending an attempt. *)
Waits(r) == ~gateOpen \/ (Review /\ r \notin approved)

(* Mutant: only messages already sent count. *)
CapReached_SentOnly(r) == Cardinality({x \in reserved \ {r} : status[x] = "SENT"}) >= DailyCap

(* Reservations of other rows count against the caps. *)
CapReached(r) == Cardinality(reserved \ {r}) >= DailyCap

(* Row r leaves its lease in status s. *)
Release(r, s) == /\ status' = [status EXCEPT ![r] = s]
                 /\ token' = [token EXCEPT ![r] = NoOne]
                 /\ leased' = leased \ {r}

GoTo(w, p) == pc' = [pc EXCEPT ![w] = p]

(* Back to the pass, done with the current row. *)
NextCandidate(w) == /\ GoTo(w, "pass")
                    /\ cur' = [cur EXCEPT ![w] = NoOne]
                    /\ seen' = [seen EXCEPT ![w] = 0]
                    /\ UNCHANGED batch

-----------------------------------------------------------------------------
(* processOutreach: one query finds the candidates of the pass. *)
Candidates == {r \in due : /\ Pending(r)
                           /\ attempts[r] < MaxSendAttempts
                           /\ status[r] = "SENDING" => r \notin leased}

StartPass(w) ==
    /\ pc[w] = "idle"
    /\ Candidates # {}
    /\ batch' = [batch EXCEPT ![w] = Candidates]
    /\ GoTo(w, "pass")
    /\ UNCHANGED <<queue, approval, person, gateOpen, cur, seen, provider>>

EndPass(w) ==
    /\ pc[w] = "pass"
    /\ batch[w] = {}
    /\ GoTo(w, "idle")
    /\ UNCHANGED <<queue, approval, person, gateOpen, batch, cur, seen, provider>>

(* The preparing transaction reads the row again under the sender and tenant
   locks, but not its scheduledAt. *)
Takes(w, r) == /\ pc[w] = "pass"
               /\ r \in batch[w]
               /\ batch' = [batch EXCEPT ![w] = @ \ {r}]
               /\ UNCHANGED <<approval, person, gateOpen, provider>>

(* Mutant: the status is only read by the due query. *)
Claimable_StaleStatus(r) == r \notin leased /\ attempts[r] < MaxSendAttempts

Claimable(r) == /\ Pending(r)
                /\ r \notin leased
                /\ attempts[r] < MaxSendAttempts

(* 'wait': not claimable by now, or the transaction failed and was undone. *)
SkipRow(w, r) ==
    /\ Takes(w, r)
    /\ UNCHANGED <<queue, pc, cur, seen>>

CloseRow(w, r) ==
    /\ Takes(w, r)
    /\ Claimable(r) /\ Closed(r)
    /\ Release(r, "CANCELED")
    /\ UNCHANGED <<attempts, due, reserved, pc, cur, seen>>

(* A gate or a cap: only scheduledAt moves, the status stays as it was. *)
DeferRow(w, r) ==
    /\ Takes(w, r)
    /\ Claimable(r) /\ ~Closed(r)
    /\ Waits(r) \/ CapReached(r)
    /\ due' = due \ {r}
    /\ UNCHANGED <<status, attempts, token, leased, reserved, pc, cur, seen>>

(* A missing step or unreadable copy: the row can never be sent. *)
DropRow(w, r) ==
    /\ Takes(w, r)
    /\ Claimable(r) /\ ~Closed(r) /\ ~Waits(r) /\ ~CapReached(r)
    /\ r \in Unreadable
    /\ Release(r, "FAILED")
    /\ UNCHANGED <<attempts, due, reserved, pc, cur, seen>>

(* The claim: SENDING, one attempt spent, a cap reservation and a lease.  The
   lease counts from the start of the pass, so a late row's lease may be over
   as soon as it is granted. *)
ClaimRow(w, r) ==
    /\ Takes(w, r)
    /\ Claimable(r) /\ ~Closed(r) /\ ~Waits(r) /\ ~CapReached(r)
    /\ r \notin Unreadable
    /\ status' = [status EXCEPT ![r] = "SENDING"]
    /\ attempts' = [attempts EXCEPT ![r] = @ + 1]
    /\ token' = [token EXCEPT ![r] = w]
    /\ leased' = leased \cup {r}
    /\ reserved' = reserved \cup {r}
    /\ GoTo(w, "leased")
    /\ cur' = [cur EXCEPT ![w] = r]
    /\ seen' = [seen EXCEPT ![w] = attempts[r]]
    /\ UNCHANGED due

-----------------------------------------------------------------------------
(* Mutant: the token alone, though a canceled row keeps it. *)
Holds_TokenOnly(w) == token[cur[w]] = w

(* recheckOutreachBeforeSend, under the tenant lock, and only while the row is
   still SENDING under this worker's token. *)
Holds(w) == status[cur[w]] = "SENDING" /\ token[cur[w]] = w

RecheckLost(w) ==
    /\ pc[w] = "leased"
    /\ ~Holds(w)
    /\ NextCandidate(w)
    /\ UNCHANGED <<queue, approval, person, gateOpen, provider>>

ClosedNow(r) == Closed(r) \/ (~Sequence(r) /\ r[1] \in booked)

RecheckClosed(w) ==
    /\ pc[w] = "leased"
    /\ Holds(w)
    /\ ClosedNow(cur[w])
    /\ Release(cur[w], "CANCELED")
    /\ NextCandidate(w)
    /\ UNCHANGED <<attempts, due, reserved, approval, person, gateOpen, provider>>

(* Mutant: the attempt count starts over. *)
GivenBack_Reset(n) == 0

GivenBack(n) == IF n = 0 THEN 0 ELSE n - 1

(* A gate closed meanwhile: back to the queue and the attempt is given back. *)
RecheckWaits(w) ==
    /\ pc[w] = "leased"
    /\ Holds(w)
    /\ ~ClosedNow(cur[w])
    /\ Waits(cur[w])
    /\ Release(cur[w], "QUEUED")
    /\ attempts' = [attempts EXCEPT ![cur[w]] = GivenBack(@)]
    /\ due' = due \ {cur[w]}
    /\ NextCandidate(w)
    /\ UNCHANGED <<reserved, approval, person, gateOpen, provider>>

RecheckClear(w) ==
    /\ pc[w] = "leased"
    /\ Holds(w)
    /\ ~ClosedNow(cur[w])
    /\ ~Waits(cur[w])
    /\ GoTo(w, "cleared")
    /\ UNCHANGED <<queue, approval, person, gateOpen, batch, cur, seen, provider>>

(* The recheck itself fails: handled like a failed send. *)
RecheckFails(w) ==
    /\ pc[w] = "leased"
    /\ GoTo(w, "failed")
    /\ UNCHANGED <<queue, approval, person, gateOpen, batch, cur, seen, provider>>

(* The provider call, idempotent on the row's key.  An answer may be lost. *)
ProviderCall(w) ==
    /\ pc[w] = "cleared"
    /\ calls' = [calls EXCEPT ![cur[w]] = @ + 1]
    /\ \/ GoTo(w, "answered") /\ accepted' = accepted \cup {cur[w]}
       \/ GoTo(w, "failed") /\ accepted' \in {accepted, accepted \cup {cur[w]}}
    /\ UNCHANGED <<queue, approval, person, gateOpen, batch, cur, seen>>

(* Completion: the token decides, not the status, so a row CANCELED during the
   call is recorded SENT ('accepted_during_stop').  A sequence step that is not
   the last queues its successor once, with its own approval; the last one ends
   the enrollment. *)
Successor(r) == <<r[1], r[2] + 1>>

QueueSuccessor(r) ==
    /\ status' = [status EXCEPT ![r] = "SENT", ![Successor(r)] = "QUEUED"]
    /\ approved' = IF r \in approved THEN approved \cup {Successor(r)} ELSE approved
    /\ outdated' = IF r \in outdated THEN outdated \cup {Successor(r)} ELSE outdated
    /\ UNCHANGED stopped

(* Mutant: the stop is not read again at completion. *)
NeedsSuccessor_Unstopped(r) == /\ Sequence(r) /\ r[2] < LastStep
                               /\ status[Successor(r)] = "none"

NeedsSuccessor(r) == /\ Sequence(r) /\ r[1] \notin stopped
                     /\ r[2] < LastStep
                     /\ status[Successor(r)] = "none"

EndsSequence(r) == Sequence(r) /\ r[1] \notin stopped /\ r[2] = LastStep

RecordSent(w) ==
    LET r == cur[w] IN
    /\ pc[w] = "answered"
    /\ token[r] = w
    /\ r[1] \in present
    /\ leased' = leased \ {r}
    /\ IF NeedsSuccessor(r)
       THEN QueueSuccessor(r)
       ELSE /\ status' = [status EXCEPT ![r] = "SENT"]
            /\ stopped' = IF EndsSequence(r) THEN stopped \cup {r[1]} ELSE stopped
            /\ UNCHANGED <<approved, outdated>>
    /\ NextCandidate(w)
    /\ UNCHANGED <<attempts, token, due, reserved, reviewed, present, suppressed,
                   booked, met, gateOpen, provider>>

RecordLost(w) ==
    /\ pc[w] = "answered"
    /\ token[cur[w]] # w
    /\ NextCandidate(w)
    /\ UNCHANGED <<queue, approval, person, gateOpen, provider>>

(* The enrollment is gone, or the transaction fails: everything is undone. *)
RecordFails(w) ==
    /\ pc[w] = "answered"
    /\ GoTo(w, "failed")
    /\ UNCHANGED <<queue, approval, person, gateOpen, batch, cur, seen, provider>>

(* Mutant: off by one, as if e.attempts counted this send. *)
Terminal_OffByOne(w) == seen[w] >= MaxSendAttempts

(* e.attempts was read before the claim counted this attempt. *)
Terminal(w) == seen[w] + 1 >= MaxSendAttempts

(* The catch block: retry with a backoff or fail for good, only while the row
   is still SENDING under this token. *)
FailRow(w) ==
    /\ pc[w] = "failed"
    /\ IF Holds(w)
       THEN /\ Release(cur[w], IF Terminal(w) THEN "FAILED" ELSE "QUEUED")
            /\ due' = due \ {cur[w]}
       ELSE UNCHANGED <<status, token, leased, due>>
    /\ NextCandidate(w)
    /\ UNCHANGED <<attempts, reserved, approval, person, gateOpen, provider>>

Crash(w) ==
    /\ pc[w] # "idle"
    /\ pc' = [pc EXCEPT ![w] = "idle"]
    /\ batch' = [batch EXCEPT ![w] = {}]
    /\ cur' = [cur EXCEPT ![w] = NoOne]
    /\ seen' = [seen EXCEPT ![w] = 0]
    /\ UNCHANGED <<queue, approval, person, gateOpen, provider>>

-----------------------------------------------------------------------------
(* Mutant: only the QUEUED sweeper. *)
Exhausted_QueuedOnly == {r \in Row : attempts[r] >= MaxSendAttempts /\ status[r] = "QUEUED"}

(* tick's sweepers: attempts are exhausted and nobody can claim the row. *)
Exhausted == {r \in Row : /\ attempts[r] >= MaxSendAttempts
                          /\ \/ status[r] = "SENDING" /\ r \notin leased
                             \/ status[r] = "QUEUED"}

Sweep ==
    /\ Exhausted # {}
    /\ status' = [r \in Row |-> IF r \in Exhausted THEN "FAILED" ELSE status[r]]
    /\ token' = [r \in Row |-> IF r \in Exhausted THEN NoOne ELSE token[r]]
    /\ leased' = leased \ Exhausted
    /\ UNCHANGED <<attempts, due, reserved, approval, person, gateOpen, worker, provider>>

(* The clock.  A lease may end while its holder still runs: nothing renews it. *)
LeaseExpires(r) ==
    /\ r \in leased
    /\ leased' = leased \ {r}
    /\ UNCHANGED <<status, attempts, token, due, reserved, approval, person, gateOpen,
                   worker, provider>>

BecomesDue(r) ==
    /\ Pending(r)
    /\ r \notin due
    /\ due' = due \cup {r}
    /\ UNCHANGED <<status, attempts, token, leased, reserved, approval, person, gateOpen,
                   worker, provider>>

DayPasses(r) ==
    /\ r \in reserved
    /\ reserved' = reserved \ {r}
    /\ UNCHANGED <<status, attempts, token, leased, due, approval, person, gateOpen,
                   worker, provider>>

-----------------------------------------------------------------------------
(* What web requests and provider events do to the queue.  Rows are canceled
   with their token and lease left in place. *)
CancelRows(S) == status' = [r \in Row |-> IF r \in S /\ Pending(r) THEN "CANCELED" ELSE status[r]]

Of(c) == {r \in Row : r[1] = c}

Steps(c) == {r \in Of(c) : Sequence(r)}

(* suppress: an opt-out, a bounce, a complaint, a failed reverification. *)
Suppress(c) ==
    /\ suppressed' = suppressed \cup {c}
    /\ stopped' = IF c \in present THEN stopped \cup {c} ELSE stopped
    /\ CancelRows(IF c \in present THEN Of(c) ELSE {})
    /\ UNCHANGED <<attempts, token, leased, due, reserved, approval, present, booked, met,
                   gateOpen, worker, provider>>

(* A reply stops the sequence.  A positive one leaves a pending invitation and
   queues the invitation once; a negative one suppresses. *)
ReplyPositive(c) ==
    LET r == <<c, Invite>>
        invite == c \notin suppressed /\ c \notin met /\ status[r] = "none" IN
    /\ c \in present
    /\ stopped' = stopped \cup {c}
    /\ status' = [x \in Row |-> IF x \in Steps(c) /\ Pending(x) THEN "CANCELED"
                                ELSE IF x = r /\ invite THEN "QUEUED" ELSE status[x]]
    /\ due' = IF invite THEN due \cup {r} ELSE due
    /\ approved' = IF invite /\ ~Review THEN approved \cup {r} ELSE approved
    /\ UNCHANGED <<attempts, token, leased, reserved, outdated, reviewed, present, suppressed,
                   booked, met, gateOpen, worker, provider>>

ReplyOther(c, negative) ==
    /\ c \in present
    /\ stopped' = stopped \cup {c}
    /\ CancelRows(Of(c))
    /\ suppressed' = IF negative THEN suppressed \cup {c} ELSE suppressed
    /\ UNCHANGED <<attempts, token, leased, due, reserved, approval, present, booked, met,
                   gateOpen, worker, provider>>

(* booking.created and booking.canceled stop and cancel like any other event.
   Events may be late or concern several bookings, so either status can result. *)
BookingEvent(c) ==
    /\ c \in present
    /\ stopped' = stopped \cup {c}
    /\ CancelRows(Of(c))
    /\ met' = met \cup {c}
    /\ booked' \in {booked \cup {c}, booked \ {c}}
    /\ UNCHANGED <<attempts, token, leased, due, reserved, approval, present, suppressed,
                   gateOpen, worker, provider>>

(* POST /api/appointments records a booking and stops nothing. *)
ManualBooking(c) ==
    /\ c \in present
    /\ booked' = booked \cup {c}
    /\ met' = met \cup {c}
    /\ UNCHANGED <<queue, approval, present, stopped, suppressed, gateOpen, worker, provider>>

(* Another campaign rediscovers the contact as a dummy prospect: the enrollment
   here is stopped, its rows stay. *)
StoppedElsewhere(c) ==
    /\ c \in present
    /\ stopped' = stopped \cup {c}
    /\ UNCHANGED <<queue, approval, present, suppressed, booked, met, gateOpen, worker, provider>>

(* PATCH /api/outreach: the operator approves the content as it is now. *)
Approve(r) ==
    /\ status[r] = "QUEUED"
    /\ r[1] \in present
    /\ r \notin Unreadable
    /\ approved' = approved \cup {r}
    /\ outdated' = outdated \ {r}
    /\ reviewed' = reviewed \cup {r}
    /\ due' = due \cup {r}
    /\ UNCHANGED <<status, attempts, token, leased, reserved, person, gateOpen, worker, provider>>

(* updateCampaign, material: queued sequence steps lose their approval. *)
MaterialEdit ==
    LET revoked == {r \in Row : status[r] = "QUEUED" /\ Sequence(r)} IN
    /\ approved' = approved \ revoked
    /\ outdated' = {r \in approved \ revoked : Sequence(r)}
    /\ UNCHANGED <<queue, reviewed, person, gateOpen, worker, provider>>

(* eraseSubject: suppress, then delete the contact and its enrollment. *)
Erase(c) ==
    /\ c \in present
    /\ present' = present \ {c}
    /\ suppressed' = suppressed \cup {c}
    /\ CancelRows(Of(c))
    /\ stopped' = stopped \ {c}
    /\ booked' = booked \ {c}
    /\ met' = met \ {c}
    /\ UNCHANGED <<attempts, token, leased, due, reserved, approval, gateOpen, worker,
                   provider>>

(* A pause, a closed send window, an unhealthy sender or mailbox, and back. *)
ToggleGate ==
    /\ gateOpen' = ~gateOpen
    /\ UNCHANGED <<queue, approval, person, worker, provider>>

-----------------------------------------------------------------------------
Prepare(w, r) == \/ SkipRow(w, r) \/ CloseRow(w, r) \/ DeferRow(w, r)
                 \/ DropRow(w, r) \/ ClaimRow(w, r)

Recheck(w) == \/ RecheckLost(w) \/ RecheckClosed(w) \/ RecheckWaits(w)
              \/ RecheckClear(w) \/ RecheckFails(w)

Record(w) == RecordSent(w) \/ RecordLost(w) \/ RecordFails(w)

WorkerStep(w) == \/ StartPass(w) \/ EndPass(w)
                 \/ \E r \in Row : Prepare(w, r)
                 \/ Recheck(w) \/ ProviderCall(w) \/ Record(w) \/ FailRow(w)

Clock == \E r \in Row : \/ LeaseExpires(r) \/ BecomesDue(r)
                        \/ "day" \in Event /\ DayPasses(r)

Outside ==
    \/ \E c \in Contact :
          \/ "suppress" \in Event /\ Suppress(c)
          \/ "reply" \in Event /\ (ReplyPositive(c) \/ \E n \in BOOLEAN : ReplyOther(c, n))
          \/ "booking" \in Event /\ (BookingEvent(c) \/ ManualBooking(c))
          \/ "elsewhere" \in Event /\ StoppedElsewhere(c)
          \/ "erase" \in Event /\ Erase(c)
    \/ "approve" \in Event /\ \E r \in Row : Approve(r)
    \/ "edit" \in Event /\ MaterialEdit
    \/ "gate" \in Event /\ ToggleGate

Next == \/ \E w \in Worker : WorkerStep(w) \/ Crash(w)
        \/ Sweep
        \/ Clock
        \/ Outside

Spec == Init /\ [][Next]_vars

(* A running worker keeps stepping and the clock keeps moving.  Nothing is assumed of
   crashes or of the outside.  The queue is ordered by scheduledAt, so a row that keeps
   becoming claimable is claimed in the end. *)
Fairness ==
    /\ \A w \in Worker : WF_vars(WorkerStep(w))
    /\ \A r \in Row : /\ SF_vars(\E w \in Worker : ClaimRow(w, r))
                      /\ WF_vars(LeaseExpires(r))
                      /\ WF_vars(BecomesDue(r))
                      /\ WF_vars(DayPasses(r))
    /\ WF_vars(Sweep)

-----------------------------------------------------------------------------
(* The rolling cap: at no time are more messages reserved in 24 hours than the
   daily cap, with any number of workers claiming at once (the advisory lock and
   the count of processOutreachRow). *)
QuotaHolds == Cardinality(reserved) <= DailyCap

(* Retries are bounded: crashes, lost answers, lapsed leases and attempts given
   back by the recheck never add up to more than MAX_SEND_ATTEMPTS provider calls
   for one message. *)
BudgetHolds == \A r \in Row : calls[r] <= MaxSendAttempts

(* A row is never left QUEUED with its attempts used up, where no due query would
   find it: the catch block decides by the count it read before the claim, and the
   recheck gives the attempt back. *)
QueuedIsClaimable ==
    \A r \in Row : status[r] = "QUEUED" => attempts[r] < MaxSendAttempts

(* A follow-up exists only once the step before it was accepted by the provider and
   recorded SENT: no interleaving of workers, cancellations and crashes skips a step. *)
SequenceInOrder ==
    \A r \in Row : r[2] > 1 /\ status[r] # "none" =>
        LET before == <<r[1], r[2] - 1>> IN status[before] = "SENT" /\ before \in accepted

(* Nobody on the suppression list, and nobody erased, has a message waiting: no
   release, retry, follow-up or invitation puts one back after suppress or
   eraseSubject emptied the queue. *)
SuppressedQueueEmpty ==
    \A r \in Row : Pending(r) => r[1] \in present /\ r[1] \notin suppressed

(* A prospect who said yes is not chased: once the booking invitation exists, no
   sequence step waits beside it, not even one a slow worker gives back. *)
NoChasingAfterYes ==
    \A r \in Row : Sequence(r) /\ Pending(r) => status[<<r[1], Invite>>] = "none"

(* REVIEW_BEFORE_SEND: whatever reaches a recipient was approved by an operator,
   or follows a first message that was (approval is inherited on completion). *)
ReviewGate ==
    Review => \A r \in accepted : \/ r \in reviewed
                                  \/ r[2] > 1 /\ <<r[1], 1>> \in reviewed

(* Once an enrollment is stopped by a reply, a booking, a suppression or another
   campaign, no further step is queued, even by a worker whose call was under way. *)
StoppedSequenceDoesNotGrow ==
    [][\A r \in Row : Sequence(r) /\ status[r] = "none" /\ r[1] \in stopped
                      => status'[r] = "none"]_vars

(* Terminal rows stay: SENT and FAILED for good, CANCELED except for a message
   the provider had accepted by then ('accepted_during_stop'). *)
TerminalStays ==
    [][\A r \in Row : /\ status[r] \in {"SENT", "FAILED"} => status'[r] = status[r]
                      /\ status[r] = "CANCELED" =>
                            \/ status'[r] = "CANCELED"
                            \/ status'[r] = "SENT" /\ r \in accepted]_vars

(* No message is stuck: when the gates stay open, every queued or leased row is
   sent, canceled or failed in the end, whatever crashes (due query, lease
   take-over, backoff, sweepers). *)
EveryRowResolved ==
    <>[]gateOpen => \A r \in Row : Pending(r) ~> ~Pending(r)

(* lib/campaignVersions.ts:60, "Prior approvals covered the old content; queued sends
   must be approved again": not so for a row that was SENDING during the edit,
   nor for the follow-up its completion queues. *)
QueuedApprovalsAreCurrent ==
    \A r \in Row : status[r] = "QUEUED" => r \notin outdated
=============================================================================
