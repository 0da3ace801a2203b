------------------------ MODULE OutreachSend_proofs ------------------------
(***************************************************************************)
(* Proofs about OutreachSend, for every set of workers and contacts, every *)
(* length of the sequence, every attempt bound and every daily cap.        *)
(***************************************************************************)
EXTENDS OutreachSend, FiniteSetTheorems, TLAPS

(* A worker past its claim has a row. *)
AtWork == \A w \in Worker : pc[w] \in {"leased", "cleared", "answered", "failed"} => cur[w] \in Row

TypeInv == TypeOK /\ AtWork

LEMMA SuccessorIsRow ==
  ASSUME NEW r \in Row, r[2] < LastStep
  PROVE  Successor(r) \in Row
BY OutreachSendAssumption DEF Row, Successor

LEMMA Typed == Spec => []TypeInv
<1>1. ASSUME Init PROVE TypeInv
  BY <1>1, OutreachSendAssumption
     DEF Init, TypeInv, TypeOK, AtWork, RowStatus, Point, Row
<1>2. TypeInv /\ [Next]_vars => TypeInv'
  <2> SUFFICES ASSUME TypeInv, [Next]_vars PROVE TypeInv'
    OBVIOUS
  <2> USE OutreachSendAssumption DEF TypeInv, TypeOK, AtWork, RowStatus, Point,
          queue, approval, person, worker, provider
  <2>1. ASSUME NEW w \in Worker, StartPass(w) \/ EndPass(w) PROVE TypeInv'
    BY <2>1 DEF StartPass, EndPass, GoTo, Candidates
  <2>2. ASSUME NEW w \in Worker, NEW r \in Row, Prepare(w, r) PROVE TypeInv'
    BY <2>2, SMTT(30) DEF Prepare, SkipRow, CloseRow, DeferRow, DropRow, ClaimRow, Takes, Release,
                Claimable, GoTo
  <2>3. ASSUME NEW w \in Worker, Recheck(w) PROVE TypeInv'
    BY <2>3, SMTT(30) DEF Recheck, RecheckLost, RecheckClosed, RecheckWaits, RecheckClear, RecheckFails,
                NextCandidate, Release, GivenBack, GoTo
  <2>4. ASSUME NEW w \in Worker, ProviderCall(w) PROVE TypeInv'
    BY <2>4 DEF ProviderCall, GoTo
  <2>5. ASSUME NEW w \in Worker, Record(w) PROVE TypeInv'
    <3>1. CASE RecordSent(w)
      BY <3>1, SuccessorIsRow
         DEF RecordSent, QueueSuccessor, NeedsSuccessor, NextCandidate, GoTo, Row
    <3>2. CASE RecordLost(w) \/ RecordFails(w)
      BY <3>2 DEF RecordLost, RecordFails, NextCandidate, GoTo
    <3>3. QED
      BY <2>5, <3>1, <3>2 DEF Record
  <2>6. ASSUME NEW w \in Worker, FailRow(w) \/ Crash(w) PROVE TypeInv'
    BY <2>6 DEF FailRow, Crash, NextCandidate, Release, GoTo
  <2>7. ASSUME Sweep PROVE TypeInv'
    BY <2>7 DEF Sweep, Exhausted
  <2>8. ASSUME Clock PROVE TypeInv'
    BY <2>8 DEF Clock, LeaseExpires, BecomesDue, DayPasses
  <2>9. ASSUME Outside PROVE TypeInv'
    <3>1. ASSUME NEW c \in Contact, Suppress(c) PROVE TypeInv'
      BY <3>1 DEF Suppress, CancelRows
    <3>2. ASSUME NEW c \in Contact, ReplyPositive(c) PROVE TypeInv'
      BY <3>2 DEF ReplyPositive, Row, Invite
    <3>3. ASSUME NEW c \in Contact, NEW n \in BOOLEAN, ReplyOther(c, n) PROVE TypeInv'
      BY <3>3 DEF ReplyOther, CancelRows
    <3>4. ASSUME NEW c \in Contact, BookingEvent(c) \/ ManualBooking(c) PROVE TypeInv'
      BY <3>4 DEF BookingEvent, ManualBooking, CancelRows
    <3>5. ASSUME NEW c \in Contact, StoppedElsewhere(c) \/ Erase(c) PROVE TypeInv'
      BY <3>5 DEF StoppedElsewhere, Erase, CancelRows
    <3>6. ASSUME NEW r \in Row, Approve(r) PROVE TypeInv'
      BY <3>6 DEF Approve
    <3>7. CASE MaterialEdit \/ ToggleGate
      BY <3>7 DEF MaterialEdit, ToggleGate
    <3>8. QED
      BY <2>9, <3>1, <3>2, <3>3, <3>4, <3>5, <3>6, <3>7 DEF Outside
  <2>10. CASE UNCHANGED vars
    BY <2>10 DEF vars
  <2>11. QED
    BY <2>1, <2>2, <2>3, <2>4, <2>5, <2>6, <2>7, <2>8, <2>9, <2>10 DEF Next, WorkerStep
<1>3. QED
  BY <1>1, <1>2, PTL DEF Spec

(* Every reachable state is well typed; in particular no row is ever claimed more
   often than the attempt bound allows. *)
THEOREM Typing == Spec => []TypeOK
<1>1. TypeInv => TypeOK
  BY DEF TypeInv
<1>2. QED
  BY <1>1, Typed, PTL

-----------------------------------------------------------------------------
(* Only a claim takes a reservation; nothing else adds one. *)
LEMMA Reservations ==
  ASSUME [Next]_vars
  PROVE  \/ reserved' \subseteq reserved
         \/ \E r \in Row : ~CapReached(r) /\ reserved' = reserved \cup {r}
<1> USE DEF queue, approval, person, worker, provider
<1>1. CASE \E w \in Worker, r \in Row : ClaimRow(w, r)
  BY <1>1 DEF ClaimRow
<1>2. ASSUME NEW w \in Worker, NEW r \in Row, Prepare(w, r), ~ClaimRow(w, r) PROVE reserved' = reserved
  BY <1>2 DEF Prepare, SkipRow, CloseRow, DeferRow, DropRow
<1>3. ASSUME NEW w \in Worker, StartPass(w) \/ EndPass(w) \/ ProviderCall(w) \/ FailRow(w) \/ Crash(w)
      PROVE  reserved' = reserved
  BY <1>3 DEF StartPass, EndPass, ProviderCall, FailRow, Crash
<1>4. ASSUME NEW w \in Worker, Recheck(w) \/ Record(w) PROVE reserved' = reserved
  BY <1>4 DEF Recheck, RecheckLost, RecheckClosed, RecheckWaits, RecheckClear, RecheckFails,
              Record, RecordSent, RecordLost, RecordFails
<1>5. CASE Sweep \/ Clock
  BY <1>5 DEF Sweep, Clock, LeaseExpires, BecomesDue, DayPasses
<1>6. CASE Outside
  BY <1>6 DEF Outside, Suppress, ReplyPositive, ReplyOther, BookingEvent, ManualBooking,
              StoppedElsewhere, Erase, Approve, MaterialEdit, ToggleGate
<1>7. CASE UNCHANGED vars
  BY <1>7 DEF vars
<1>8. QED
  BY <1>1, <1>2, <1>3, <1>4, <1>5, <1>6, <1>7 DEF Next, WorkerStep

(* The daily cap is never exceeded, however many workers claim at once: the claim
   counts the other rows' reservations under the sender's and the tenant's lock. *)
THEOREM Quota == Spec => []QuotaHolds
<1> DEFINE Inv == IsFiniteSet(reserved) /\ Cardinality(reserved) <= DailyCap
<1>1. Init => Inv
  BY FS_EmptySet, OutreachSendAssumption DEF Init
<1>2. Inv /\ [Next]_vars => Inv'
  <2> SUFFICES ASSUME Inv, [Next]_vars PROVE Inv'
    OBVIOUS
  <2>1. CASE reserved' \subseteq reserved
    <3>1. IsFiniteSet(reserved') /\ Cardinality(reserved') <= Cardinality(reserved)
      BY <2>1, FS_Subset
    <3>2. Cardinality(reserved') \in Nat /\ Cardinality(reserved) \in Nat
      BY <3>1, FS_CardinalityType
    <3>3. QED
      BY <3>1, <3>2, OutreachSendAssumption
  <2>2. ASSUME NEW r \in Row, ~CapReached(r), reserved' = reserved \cup {r} PROVE Inv'
    <3> DEFINE others == reserved \ {r}
    <3>1. IsFiniteSet(others) /\ Cardinality(others) \in Nat
      BY FS_Subset, FS_CardinalityType
    <3>2. Cardinality(others) < DailyCap
      BY <2>2, <3>1, OutreachSendAssumption DEF CapReached
    <3>3. reserved' = others \cup {r} /\ r \notin others
      BY <2>2
    <3>4. IsFiniteSet(reserved') /\ Cardinality(reserved') = Cardinality(others) + 1
      BY <3>1, <3>3, FS_AddElement
    <3>5. QED
      BY <3>1, <3>2, <3>4, OutreachSendAssumption
  <2>3. QED
    BY <2>1, <2>2, Reservations
<1>3. Inv => QuotaHolds
  BY DEF QuotaHolds
<1>4. QED
  BY <1>1, <1>2, <1>3, PTL DEF Spec

-----------------------------------------------------------------------------
(* The workers that hold an attempt on row r they have not called out yet. *)
Engaged(r) == {w \in Worker : pc[w] \in {"leased", "cleared"} /\ cur[w] = r}

(* Every call is paid for by an attempt, and so is every call still to come. *)
Paid(r) == IsFiniteSet(Engaged(r)) /\ calls[r] + Cardinality(Engaged(r)) <= attempts[r]

(* A worker that leaves the set takes exactly one off its size. *)
LEMMA EngagedLeaves ==
  ASSUME NEW r \in Row, NEW w \in Engaged(r), IsFiniteSet(Engaged(r)), Engaged(r)' = Engaged(r) \ {w}
  PROVE  /\ IsFiniteSet(Engaged(r)')
         /\ Cardinality(Engaged(r)) \in Nat
         /\ Cardinality(Engaged(r)') = Cardinality(Engaged(r)) - 1
         /\ Cardinality(Engaged(r)') \in Nat
BY FS_RemoveElement, FS_CardinalityType

LEMMA EngagedJoins ==
  ASSUME NEW r \in Row, NEW w, w \notin Engaged(r), IsFiniteSet(Engaged(r)), Engaged(r)' = Engaged(r) \cup {w}
  PROVE  /\ IsFiniteSet(Engaged(r)')
         /\ Cardinality(Engaged(r)) \in Nat
         /\ Cardinality(Engaged(r)') = Cardinality(Engaged(r)) + 1
BY FS_AddElement, FS_CardinalityType

(* What the clock, the sweepers and the outside world leave alone. *)
LEMMA WorkersUntouched ==
  ASSUME Sweep \/ Clock \/ Outside
  PROVE  UNCHANGED <<attempts, worker, provider>>
<1> USE DEF queue, approval, person, worker, provider
<1>1. CASE Sweep \/ Clock
  BY <1>1 DEF Sweep, Clock, LeaseExpires, BecomesDue, DayPasses
<1>2. CASE Outside
  BY <1>2 DEF Outside, Suppress, ReplyPositive, ReplyOther, BookingEvent, ManualBooking,
              StoppedElsewhere, Erase, Approve, MaterialEdit, ToggleGate
<1>3. QED
  BY <1>1, <1>2

(* One message is offered to the provider at most MAX_SEND_ATTEMPTS times, with any
   number of workers, crashes, lost answers and attempts given back. *)
THEOREM Budget == Spec => []BudgetHolds
<1> DEFINE Inv == \A r \in Row : Paid(r)
<1>1. Init => Inv
  <2> SUFFICES ASSUME Init, NEW r \in Row PROVE Paid(r)
    OBVIOUS
  <2>1. Engaged(r) = {} /\ calls[r] = 0 /\ attempts[r] = 0
    BY DEF Init, Engaged
  <2>2. QED
    BY <2>1, FS_EmptySet DEF Paid
<1>2. TypeInv /\ Inv /\ [Next]_vars => Inv'
  <2> SUFFICES ASSUME TypeInv, [Next]_vars, NEW r \in Row, Paid(r) PROVE Paid(r)'
    OBVIOUS
  <2> USE DEF queue, approval, person, worker, provider
  <2>0. /\ attempts[r] \in Nat /\ calls[r] \in Nat /\ Cardinality(Engaged(r)) \in Nat
        /\ pc \in [Worker -> Point] /\ cur \in [Worker -> Row \cup {NoOne}]
        /\ attempts \in [Row -> 0..MaxSendAttempts] /\ calls \in [Row -> Nat]
        /\ \A w \in Worker : pc[w] \in {"leased", "cleared"} => cur[w] \in Row
    BY FS_CardinalityType, OutreachSendAssumption DEF TypeInv, TypeOK, AtWork, Paid
  <2>1. ASSUME Engaged(r)' = Engaged(r), attempts' = attempts, calls' = calls PROVE Paid(r)'
    BY <2>1 DEF Paid
  <2>2. ASSUME NEW w \in Engaged(r), Engaged(r)' = Engaged(r) \ {w},
               \/ calls'[r] = calls[r] + 1 /\ attempts' = attempts
               \/ calls' = calls /\ attempts'[r] \in {attempts[r], GivenBack(attempts[r])}
        PROVE  Paid(r)'
    BY <2>0, <2>2, EngagedLeaves DEF Paid, GivenBack
  <2>3. ASSUME NEW w \in Worker, NEW x \in Row, Prepare(w, x) PROVE Paid(r)'
    <3>1. CASE ~ClaimRow(w, x) \/ x # r
      <4>1. Engaged(r)' = Engaged(r) /\ calls' = calls /\ attempts'[r] = attempts[r]
        BY <2>0, <2>3, <3>1 DEF Prepare, SkipRow, CloseRow, DeferRow, DropRow, ClaimRow, Takes, GoTo, Engaged
      <4>2. QED
        BY <4>1 DEF Paid
    <3>2. CASE ClaimRow(w, x) /\ x = r
      <4>1. /\ w \notin Engaged(r) /\ Engaged(r)' = Engaged(r) \cup {w}
            /\ calls' = calls /\ attempts'[r] = attempts[r] + 1
        BY <2>0, <3>2 DEF ClaimRow, Takes, GoTo, Engaged
      <4>2. QED
        BY <2>0, <4>1, EngagedJoins, SMTT(30) DEF Paid
    <3>3. QED
      BY <3>1, <3>2
  <2>4. ASSUME NEW w \in Worker, Recheck(w) \/ ProviderCall(w) PROVE Paid(r)'
    <3>1. CASE cur[w] # r
      <4>1. Engaged(r)' = Engaged(r) /\ calls'[r] = calls[r] /\ attempts'[r] = attempts[r]
        BY <2>0, <2>4, <3>1, OutreachSendAssumption
           DEF Recheck, RecheckLost, RecheckClosed, RecheckWaits, RecheckClear,
               RecheckFails, ProviderCall, NextCandidate, GoTo, Engaged
      <4>2. QED
        BY <4>1 DEF Paid
    <3>2. CASE cur[w] = r /\ RecheckClear(w)
      BY <2>0, <2>1, <3>2 DEF RecheckClear, GoTo, Engaged
    <3>3. CASE cur[w] = r /\ ~RecheckClear(w)
      <4>1. w \in Engaged(r) /\ Engaged(r)' = Engaged(r) \ {w}
        BY <2>0, <2>4, <3>3, OutreachSendAssumption
           DEF Recheck, RecheckLost, RecheckClosed, RecheckWaits, RecheckFails, ProviderCall,
               NextCandidate, GoTo, Engaged
      <4>2. \/ calls'[r] = calls[r] + 1 /\ attempts' = attempts
            \/ calls' = calls /\ attempts'[r] \in {attempts[r], GivenBack(attempts[r])}
        BY <2>0, <2>4, <3>3
           DEF Recheck, RecheckLost, RecheckClosed, RecheckWaits, RecheckFails, ProviderCall
      <4>3. QED
        BY <2>2, <4>1, <4>2
    <3>4. QED
      BY <3>1, <3>2, <3>3
  <2>5. ASSUME NEW w \in Worker, Record(w) \/ FailRow(w) \/ StartPass(w) \/ EndPass(w) PROVE Paid(r)'
    BY <2>0, <2>1, <2>5
       DEF Record, RecordSent, RecordLost, RecordFails, FailRow, StartPass, EndPass,
           NextCandidate, GoTo, Engaged
  <2>6. ASSUME NEW w \in Worker, Crash(w) PROVE Paid(r)'
    <3>1. calls' = calls /\ attempts' = attempts
      BY <2>6 DEF Crash
    <3>2. CASE w \in Engaged(r)
      <4>1. Engaged(r)' = Engaged(r) \ {w}
        BY <2>0, <2>6, <3>2 DEF Crash, Engaged
      <4>2. QED
        BY <2>2, <3>1, <3>2, <4>1
    <3>3. CASE w \notin Engaged(r)
      <4>1. Engaged(r)' = Engaged(r)
        BY <2>0, <2>6, <3>3 DEF Crash, Engaged
      <4>2. QED
        BY <2>1, <3>1, <4>1
    <3>4. QED
      BY <3>2, <3>3
  <2>7. CASE Sweep \/ Clock \/ Outside
    BY <2>1, <2>7, WorkersUntouched DEF Engaged
  <2>8. CASE UNCHANGED vars
    BY <2>1, <2>8 DEF vars, Engaged
  <2>9. QED
    BY <2>3, <2>4, <2>5, <2>6, <2>7, <2>8 DEF Next, WorkerStep
<1>3. TypeInv /\ Inv => BudgetHolds
  <2> SUFFICES ASSUME TypeInv, NEW r \in Row, Paid(r) PROVE calls[r] <= MaxSendAttempts
    BY DEF BudgetHolds
  <2>1. attempts[r] \in 0..MaxSendAttempts /\ calls[r] \in Nat /\ Cardinality(Engaged(r)) \in Nat
    BY FS_CardinalityType DEF TypeInv, TypeOK, Paid
  <2>2. QED
    BY <2>1, OutreachSendAssumption DEF Paid
<1>4. QED
  BY <1>1, <1>2, <1>3, Typed, PTL DEF Spec

-----------------------------------------------------------------------------
(* A row that does not exist has no attempt and no holder. *)
Fresh == \A r \in Row : status[r] = "none" => attempts[r] = 0 /\ token[r] = NoOne

(* FAILED takes the holder away: no completion can reach the row any more. *)
FailedIsFree == \A r \in Row : status[r] = "FAILED" => token[r] = NoOne

(* A worker that has an answer has one the provider really gave. *)
AnsweredIsAccepted == \A w \in Worker : pc[w] = "answered" => cur[w] \in accepted

(* While a worker holds a row, nobody else counts on it: the attempts are those it
   read before its claim, and its own. *)
Counted == \A w \in Worker :
    pc[w] \in {"leased", "cleared", "answered", "failed"} /\ Holds(w)
        => attempts[cur[w]] = seen[w] + 1

RowInv == Fresh /\ FailedIsFree /\ AnsweredIsAccepted /\ Counted /\ QueuedIsClaimable

LEMMA Rows == Spec => []RowInv
<1>1. ASSUME Init PROVE RowInv
  BY <1>1, OutreachSendAssumption
     DEF Init, RowInv, Fresh, FailedIsFree, AnsweredIsAccepted, Counted, QueuedIsClaimable
<1>2. TypeInv /\ RowInv /\ [Next]_vars => RowInv'
  <2> SUFFICES ASSUME TypeInv, RowInv, [Next]_vars PROVE RowInv'
    OBVIOUS
  <2> USE OutreachSendAssumption DEF TypeInv, TypeOK, AtWork, RowInv, Fresh, FailedIsFree,
          AnsweredIsAccepted, Counted, QueuedIsClaimable, Holds, RowStatus, Point, Pending,
          queue, approval, person, worker, provider
  <2>1. ASSUME NEW w \in Worker, StartPass(w) \/ EndPass(w) \/ Crash(w) PROVE RowInv'
    BY <2>1 DEF StartPass, EndPass, Crash, GoTo
  <2>2. ASSUME NEW w \in Worker, NEW r \in Row, Prepare(w, r) PROVE RowInv'
    <3>1. CASE SkipRow(w, r) \/ DeferRow(w, r)
      BY <3>1 DEF SkipRow, DeferRow, Takes
    <3>2. CASE CloseRow(w, r) \/ DropRow(w, r)
      BY <3>2 DEF CloseRow, DropRow, Takes, Release, Claimable
    <3>3. CASE ClaimRow(w, r)
      BY <3>3 DEF ClaimRow, Takes, Claimable, GoTo
    <3>4. QED
      BY <2>2, <3>1, <3>2, <3>3 DEF Prepare
  <2>3. ASSUME NEW w \in Worker, Recheck(w) PROVE RowInv'
    <3>1. CASE RecheckLost(w) \/ RecheckClear(w) \/ RecheckFails(w)
      BY <3>1 DEF RecheckLost, RecheckClear, RecheckFails, NextCandidate, GoTo
    <3>2. CASE RecheckClosed(w)
      BY <3>2 DEF RecheckClosed, NextCandidate, Release, GoTo
    <3>3. CASE RecheckWaits(w)
      BY <3>3 DEF RecheckWaits, NextCandidate, Release, GivenBack, GoTo
    <3>4. QED
      BY <2>3, <3>1, <3>2, <3>3 DEF Recheck
  <2>4. ASSUME NEW w \in Worker, ProviderCall(w) PROVE RowInv'
    BY <2>4 DEF ProviderCall, GoTo
  <2>5. ASSUME NEW w \in Worker, Record(w) PROVE RowInv'
    <3>1. CASE RecordSent(w)
      BY <3>1, SuccessorIsRow
         DEF RecordSent, QueueSuccessor, NeedsSuccessor, NextCandidate, GoTo
    <3>2. CASE RecordLost(w) \/ RecordFails(w)
      BY <3>2 DEF RecordLost, RecordFails, NextCandidate, GoTo
    <3>3. QED
      BY <2>5, <3>1, <3>2 DEF Record
  <2>6. ASSUME NEW w \in Worker, FailRow(w) PROVE RowInv'
    BY <2>6 DEF FailRow, NextCandidate, Release, Terminal, GoTo
  <2>7. CASE Sweep
    BY <2>7 DEF Sweep, Exhausted
  <2>8. CASE Clock
    BY <2>8 DEF Clock, LeaseExpires, BecomesDue, DayPasses
  <2>9. CASE Outside
    <3>1. ASSUME NEW c \in Contact, Suppress(c) \/ BookingEvent(c) \/ Erase(c) PROVE RowInv'
      BY <3>1 DEF Suppress, BookingEvent, Erase, CancelRows
    <3>2. ASSUME NEW c \in Contact, ReplyPositive(c) PROVE RowInv'
      BY <3>2 DEF ReplyPositive
    <3>3. ASSUME NEW c \in Contact, NEW n \in BOOLEAN, ReplyOther(c, n) PROVE RowInv'
      BY <3>3 DEF ReplyOther, CancelRows
    <3>4. ASSUME NEW c \in Contact, ManualBooking(c) \/ StoppedElsewhere(c) PROVE RowInv'
      BY <3>4 DEF ManualBooking, StoppedElsewhere
    <3>5. ASSUME NEW r \in Row, Approve(r) PROVE RowInv'
      BY <3>5 DEF Approve
    <3>6. CASE MaterialEdit \/ ToggleGate
      BY <3>6 DEF MaterialEdit, ToggleGate
    <3>7. QED
      BY <2>9, <3>1, <3>2, <3>3, <3>4, <3>5, <3>6 DEF Outside
  <2>10. CASE UNCHANGED vars
    BY <2>10 DEF vars
  <2>11. QED
    BY <2>1, <2>2, <2>3, <2>4, <2>5, <2>6, <2>7, <2>8, <2>9, <2>10 DEF Next, WorkerStep
<1>3. QED
  BY <1>1, <1>2, Typed, PTL DEF Spec

(* No row is stranded in the queue with its attempts used up. *)
THEOREM Claimability == Spec => []QueuedIsClaimable
<1>1. RowInv => QueuedIsClaimable
  BY DEF RowInv
<1>2. QED
  BY <1>1, Rows, PTL

-----------------------------------------------------------------------------
(* The only ways a row comes into being and the only ways it changes. *)
Invited(r) == r[2] = Invite /\ status'[r] = "QUEUED"

Followed(r) ==
    \E p \in Row : /\ r = Successor(p) /\ Sequence(p) /\ p[2] < LastStep
                   /\ p[1] \in present \ stopped
                   /\ status'[p] = "SENT" /\ p \in accepted
                   /\ status'[r] = "QUEUED"

Completed(r) == token[r] # NoOne /\ r \in accepted /\ status'[r] = "SENT"

LEMMA Lifecycle ==
  ASSUME TypeInv, RowInv, [Next]_vars, NEW r \in Row
  PROVE  \/ status'[r] = status[r]
         \/ Pending(r) /\ status'[r] \in {"QUEUED", "SENDING", "FAILED", "CANCELED"}
         \/ Completed(r)
         \/ status[r] = "none" /\ (Invited(r) \/ Followed(r))
<1> DEFINE Allowed == \/ status'[r] = status[r]
                      \/ Pending(r) /\ status'[r] \in {"QUEUED", "SENDING", "FAILED", "CANCELED"}
                      \/ Completed(r)
                      \/ status[r] = "none" /\ (Invited(r) \/ Followed(r))
<1> SUFFICES Allowed
  OBVIOUS
<1> USE OutreachSendAssumption DEF TypeInv, TypeOK, AtWork, Holds, Pending, queue, approval,
        person, worker, provider
<1>1. ASSUME NEW w \in Worker, StartPass(w) \/ EndPass(w) \/ ProviderCall(w) \/ Crash(w) PROVE Allowed
  BY <1>1 DEF StartPass, EndPass, ProviderCall, Crash
<1>2. ASSUME NEW w \in Worker, NEW x \in Row, Prepare(w, x) PROVE Allowed
  BY <1>2 DEF Prepare, SkipRow, CloseRow, DeferRow, DropRow, ClaimRow, Release, Claimable
<1>3. ASSUME NEW w \in Worker, Recheck(w) \/ FailRow(w) PROVE Allowed
  BY <1>3 DEF Recheck, RecheckLost, RecheckClosed, RecheckWaits, RecheckClear, RecheckFails,
              FailRow, Release
<1>4. ASSUME NEW w \in Worker, RecordSent(w) PROVE Allowed
  <2> DEFINE p == cur[w]
  <2>1. p \in Row /\ p \in accepted /\ token[p] = w /\ w # NoOne /\ p[1] \in present
    BY <1>4 DEF RecordSent, RowInv, AnsweredIsAccepted
  <2>2. CASE r = p /\ ~NeedsSuccessor(p)
    BY <1>4, <2>1, <2>2 DEF RecordSent, Completed
  <2>3. CASE r # p /\ ~NeedsSuccessor(p)
    BY <1>4, <2>3 DEF RecordSent
  <2>4. CASE NeedsSuccessor(p)
    <3>1. /\ Successor(p) \in Row /\ Successor(p) # p
          /\ status' = [status EXCEPT ![p] = "SENT", ![Successor(p)] = "QUEUED"]
      BY <1>4, <2>1, <2>4, SuccessorIsRow DEF RecordSent, QueueSuccessor, NeedsSuccessor, Successor, Row
    <3>2. CASE r = Successor(p)
      BY <2>1, <2>4, <3>1, <3>2 DEF NeedsSuccessor, Followed
    <3>3. CASE r = p
      BY <2>1, <3>1, <3>3 DEF Completed
    <3>4. CASE r # p /\ r # Successor(p)
      BY <3>1, <3>4
    <3>5. QED
      BY <3>2, <3>3, <3>4
  <2>5. QED
    BY <2>2, <2>3, <2>4
<1>5. ASSUME NEW w \in Worker, RecordLost(w) \/ RecordFails(w) PROVE Allowed
  BY <1>5 DEF RecordLost, RecordFails
<1>6. CASE Sweep \/ Clock
  BY <1>6 DEF Sweep, Exhausted, Clock, LeaseExpires, BecomesDue, DayPasses
<1>7. CASE Outside
  <2>1. ASSUME NEW c \in Contact, ReplyPositive(c) PROVE Allowed
    BY <2>1, SMTT(30) DEF ReplyPositive, Invited
  <2>2. ASSUME NEW c \in Contact,
               \/ Suppress(c) \/ BookingEvent(c) \/ ManualBooking(c) \/ StoppedElsewhere(c)
               \/ Erase(c) \/ \E n \in BOOLEAN : ReplyOther(c, n)
        PROVE  Allowed
    BY <2>2 DEF Suppress, BookingEvent, ManualBooking, StoppedElsewhere, Erase, ReplyOther, CancelRows
  <2>3. ASSUME NEW x \in Row, Approve(x) PROVE Allowed
    BY <2>3 DEF Approve
  <2>4. CASE MaterialEdit \/ ToggleGate
    BY <2>4 DEF MaterialEdit, ToggleGate
  <2>5. QED
    BY <1>7, <2>1, <2>2, <2>3, <2>4 DEF Outside
<1>8. CASE UNCHANGED vars
  BY <1>8 DEF vars
<1>9. QED
  BY <1>1, <1>2, <1>3, <1>4, <1>5, <1>6, <1>7, <1>8 DEF Next, WorkerStep, Record

(* What was sent stays sent, and only the provider call sends. *)
LEMMA AcceptedGrows ==
  ASSUME [Next]_vars
  PROVE  \/ accepted' = accepted
         \/ \E w \in Worker : ProviderCall(w) /\ accepted' \in {accepted, accepted \cup {cur[w]}}
<1> USE DEF queue, approval, person, worker, provider
<1>1. ASSUME NEW w \in Worker, ProviderCall(w)
      PROVE  accepted' \in {accepted, accepted \cup {cur[w]}}
  BY <1>1 DEF ProviderCall
<1>2. ASSUME NEW w \in Worker, NEW r \in Row, Prepare(w, r) PROVE accepted' = accepted
  BY <1>2 DEF Prepare, SkipRow, CloseRow, DeferRow, DropRow, ClaimRow, Takes
<1>3. ASSUME NEW w \in Worker, StartPass(w) \/ EndPass(w) \/ FailRow(w) \/ Crash(w)
      PROVE  accepted' = accepted
  BY <1>3 DEF StartPass, EndPass, FailRow, Crash
<1>4. ASSUME NEW w \in Worker, Recheck(w) \/ Record(w) PROVE accepted' = accepted
  BY <1>4 DEF Recheck, RecheckLost, RecheckClosed, RecheckWaits, RecheckClear, RecheckFails,
              Record, RecordSent, RecordLost, RecordFails
<1>5. CASE Sweep \/ Clock \/ Outside
  BY <1>5, WorkersUntouched
<1>6. CASE UNCHANGED vars
  BY <1>6 DEF vars
<1>7. QED
  BY <1>1, <1>2, <1>3, <1>4, <1>5, <1>6 DEF Next, WorkerStep

(* SENT and FAILED are final and CANCELED gives way only to an accepted message:
   no late completion, retry or sweep reopens a finished row. *)
THEOREM Terminality == Spec => TerminalStays
<1>1. TypeInv /\ RowInv /\ [Next]_vars =>
        [\A r \in Row : /\ status[r] \in {"SENT", "FAILED"} => status'[r] = status[r]
                        /\ status[r] = "CANCELED" =>
                              \/ status'[r] = "CANCELED"
                              \/ status'[r] = "SENT" /\ r \in accepted]_vars
  BY Lifecycle DEF Pending, Completed, RowInv, FailedIsFree
<1>2. QED
  BY <1>1, Typed, Rows, PTL DEF Spec, TerminalStays

(* A stopped sequence gets no further step, even from a call under way. *)
THEOREM NoGrowth == Spec => StoppedSequenceDoesNotGrow
<1>1. TypeInv /\ RowInv /\ [Next]_vars =>
        [\A r \in Row : Sequence(r) /\ status[r] = "none" /\ r[1] \in stopped
                        => status'[r] = "none"]_vars
  BY Lifecycle DEF Pending, Completed, Invited, Followed, Sequence, Successor, RowInv, Fresh
<1>2. QED
  BY <1>1, Typed, Rows, PTL DEF Spec, StoppedSequenceDoesNotGrow

(* A follow-up exists only after the step before it was accepted and recorded. *)
THEOREM Ordering == Spec => []SequenceInOrder
<1>1. Init => SequenceInOrder
  BY DEF Init, SequenceInOrder
<1>2. TypeInv /\ RowInv /\ SequenceInOrder /\ [Next]_vars => SequenceInOrder'
  <2> DEFINE before(r) == <<r[1], r[2] - 1>>
  <2> SUFFICES ASSUME TypeInv, RowInv, SequenceInOrder, [Next]_vars,
                      NEW r \in Row, r[2] > 1, status'[r] # "none"
               PROVE  status'[before(r)] = "SENT" /\ before(r) \in accepted'
    BY DEF SequenceInOrder
  <2>0. before(r) \in Row /\ accepted \subseteq accepted'
    <3>1. before(r) \in Row
      BY OutreachSendAssumption DEF Row
    <3>2. accepted \subseteq accepted'
      BY AcceptedGrows
    <3>3. QED
      BY <3>1, <3>2
  <2>1. CASE status[r] # "none"
    <3>1. status[before(r)] = "SENT" /\ before(r) \in accepted
      BY <2>1 DEF SequenceInOrder
    <3>2. status'[before(r)] = "SENT"
      BY <2>0, <3>1, Lifecycle DEF Pending, Completed
    <3>3. QED
      BY <2>0, <3>1, <3>2
  <2>2. CASE status[r] = "none"
    <3>1. Followed(r)
      BY <2>2, Lifecycle DEF Pending, Completed, Invited, Invite, RowInv, Fresh
    <3>2. PICK p \in Row : r = Successor(p) /\ status'[p] = "SENT" /\ p \in accepted
      BY <3>1 DEF Followed
    <3>3. before(r) = p
      BY <3>2, OutreachSendAssumption DEF Successor, Row
    <3>4. QED
      BY <2>0, <3>2, <3>3
  <2>3. QED
    BY <2>1, <2>2
<1>3. QED
  BY <1>1, <1>2, Typed, Rows, PTL DEF Spec

-----------------------------------------------------------------------------
(* Suppression and the invitation both stop the enrollment first, which is what
   keeps a completion from queueing the next step. *)
SuppressedIsStopped == suppressed \cap present \subseteq stopped

InvitedIsStopped ==
    \A c \in Contact : status[<<c, Invite>>] # "none" /\ c \in present => c \in stopped

PersonInv == SuppressedIsStopped /\ InvitedIsStopped /\ SuppressedQueueEmpty /\ NoChasingAfterYes

LEMMA InviteIsRow ==
  ASSUME NEW c \in Contact
  PROVE  <<c, Invite>> \in Row
BY OutreachSendAssumption DEF Row, Invite

(* No row starts to wait, no invitation comes up and the person's state stays. *)
LEMMA PersonKept ==
  ASSUME TypeInv, PersonInv, UNCHANGED <<present, suppressed>>, stopped \subseteq stopped',
         \A r \in Row : Pending(r)' => Pending(r),
         \A r \in Row : status'[r] # "none" => status[r] # "none"
  PROVE  PersonInv'
BY InviteIsRow DEF PersonInv, SuppressedIsStopped, InvitedIsStopped, SuppressedQueueEmpty,
                   NoChasingAfterYes, TypeInv, TypeOK, Row

LEMMA Persons == Spec => []PersonInv
<1>1. ASSUME Init PROVE PersonInv
  BY <1>1, InviteIsRow DEF Init, PersonInv, SuppressedIsStopped, InvitedIsStopped,
     SuppressedQueueEmpty, NoChasingAfterYes, Invite, Row
<1>2. TypeInv /\ RowInv /\ PersonInv /\ [Next]_vars => PersonInv'
  <2> SUFFICES ASSUME TypeInv, RowInv, PersonInv, [Next]_vars PROVE PersonInv'
    OBVIOUS
  <2>A. /\ \A c \in Contact : c \in suppressed /\ c \in present => c \in stopped
        /\ \A c \in Contact : status[<<c, Invite>>] # "none" /\ c \in present => c \in stopped
        /\ \A r \in Row : Pending(r) => r[1] \in present /\ r[1] \notin suppressed
        /\ \A r \in Row : Sequence(r) /\ Pending(r) => status[<<r[1], Invite>>] = "none"
        /\ \A r \in Row : r[1] \in Contact
    BY DEF PersonInv, SuppressedIsStopped, InvitedIsStopped, SuppressedQueueEmpty,
           NoChasingAfterYes, Row
  <2>B. ASSUME /\ \A c \in Contact : c \in suppressed' /\ c \in present' => c \in stopped'
               /\ \A c \in Contact : status'[<<c, Invite>>] # "none" /\ c \in present' => c \in stopped'
               /\ \A r \in Row : Pending(r)' => r[1] \in present' /\ r[1] \notin suppressed'
               /\ \A r \in Row : Sequence(r) /\ Pending(r)' => status'[<<r[1], Invite>>] = "none",
               suppressed' \subseteq Contact
        PROVE  PersonInv'
    BY <2>B DEF PersonInv, SuppressedIsStopped, InvitedIsStopped, SuppressedQueueEmpty,
                NoChasingAfterYes, Sequence
  <2> DEFINE Quiet == /\ UNCHANGED <<present, suppressed>> /\ stopped \subseteq stopped'
                      /\ \A r \in Row : Pending(r)' => Pending(r)
                      /\ \A r \in Row : status'[r] # "none" => status[r] # "none"
  <2> USE OutreachSendAssumption DEF TypeInv, TypeOK, AtWork, Holds, Pending, queue, approval,
          person, worker, provider
  <2>0. ASSUME Quiet PROVE PersonInv'
    BY <2>0, PersonKept
  <2>1. ASSUME NEW w \in Worker, StartPass(w) \/ EndPass(w) \/ ProviderCall(w) \/ Crash(w) PROVE Quiet
    BY <2>1 DEF StartPass, EndPass, ProviderCall, Crash
  <2>2. ASSUME NEW w \in Worker, NEW r \in Row, Prepare(w, r) PROVE Quiet
    BY <2>2 DEF Prepare, SkipRow, CloseRow, DeferRow, DropRow, ClaimRow, Takes, Release, Claimable
  <2>3. ASSUME NEW w \in Worker, Recheck(w) \/ FailRow(w) PROVE Quiet
    BY <2>3 DEF Recheck, RecheckLost, RecheckClosed, RecheckWaits, RecheckClear, RecheckFails,
                FailRow, Release
  <2>4. ASSUME NEW w \in Worker, RecordSent(w) PROVE PersonInv'
    <3> DEFINE p == cur[w]
    <3>1. p \in Row /\ p[1] \in present /\ UNCHANGED <<present, suppressed>> /\ stopped \subseteq stopped'
      BY <2>4 DEF RecordSent, QueueSuccessor
    <3>2. CASE ~NeedsSuccessor(p)
      <4>1. Quiet
        BY <2>4, <3>1, <3>2 DEF RecordSent, RowInv, Fresh
      <4>2. QED
        BY <2>0, <4>1
    <3>3. CASE NeedsSuccessor(p)
      <4> DEFINE s == Successor(p)
      <4>1. /\ s \in Row /\ s[1] = p[1] /\ s[2] # Invite /\ Sequence(p)
            /\ status' = [status EXCEPT ![p] = "SENT", ![s] = "QUEUED"]
            /\ stopped' = stopped /\ p[1] \notin stopped
        BY <2>4, <3>1, <3>3, SuccessorIsRow
           DEF RecordSent, QueueSuccessor, NeedsSuccessor, Successor, Row, Invite
      <4>2. p[1] \notin suppressed
        BY <3>1, <4>1 DEF PersonInv, SuppressedIsStopped
      <4>3. status[<<p[1], Invite>>] = "none"
        BY <3>1, <4>1 DEF PersonInv, InvitedIsStopped, Row
      <4>4. \A c \in Contact : status'[<<c, Invite>>] = status[<<c, Invite>>]
        <5> SUFFICES ASSUME NEW c \in Contact PROVE status'[<<c, Invite>>] = status[<<c, Invite>>]
          OBVIOUS
        <5>1. <<c, Invite>> \in Row /\ <<c, Invite>> # p /\ <<c, Invite>> # s
          BY <4>1, InviteIsRow DEF Sequence
        <5>2. QED
          BY <4>1, <5>1
      <4>5. \A r \in Row : Pending(r)' => Pending(r) \/ r = s
        BY <4>1
      <4>6. QED
        BY <2>A, <2>B, <3>1, <4>1, <4>2, <4>3, <4>4, <4>5
    <3>4. QED
      BY <3>2, <3>3
  <2>5. ASSUME NEW w \in Worker, RecordLost(w) \/ RecordFails(w) PROVE Quiet
    BY <2>5 DEF RecordLost, RecordFails
  <2>6. ASSUME Sweep \/ Clock PROVE Quiet
    BY <2>6 DEF Sweep, Exhausted, Clock, LeaseExpires, BecomesDue, DayPasses
  <2>7. CASE Outside
    <3>1. ASSUME NEW c \in Contact, Suppress(c) \/ Erase(c) \/ \E n \in BOOLEAN : ReplyOther(c, n)
          PROVE  PersonInv'
      <4>1. \A r \in Row : Pending(r)' => Pending(r) /\ (r[1] = c => c \notin present)
        BY <3>1 DEF Suppress, Erase, ReplyOther, CancelRows, Of
      <4>2. \A r \in Row : status'[r] # "none" => status[r] # "none"
        BY <3>1 DEF Suppress, Erase, ReplyOther, CancelRows
      <4>3. /\ \A d \in Contact \ {c} : /\ d \in present' <=> d \in present
                                        /\ d \in suppressed' <=> d \in suppressed
                                        /\ d \in stopped' <=> d \in stopped
            /\ c \in present' => c \in present /\ c \in stopped'
        BY <3>1 DEF Suppress, Erase, ReplyOther
      <4>4. QED
        <5>1. \A d \in Contact : d \in suppressed' /\ d \in present' => d \in stopped'
          BY <2>A, <4>3
        <5>2. \A d \in Contact : status'[<<d, Invite>>] # "none" /\ d \in present' => d \in stopped'
          BY <2>A, <4>2, <4>3, InviteIsRow
        <5>3. \A r \in Row : Pending(r)' => Pending(r) /\ r[1] # c
          BY <2>A, <4>1
        <5>4. \A r \in Row : Pending(r)' => r[1] \in present' /\ r[1] \notin suppressed'
          BY <2>A, <4>3, <5>3
        <5>5. \A r \in Row : Sequence(r) /\ Pending(r)' => status'[<<r[1], Invite>>] = "none"
          BY <2>A, <4>2, <5>3, InviteIsRow
        <5>6. suppressed' \subseteq Contact
          BY <3>1 DEF Suppress, Erase, ReplyOther
        <5>7. QED
          BY <2>B, <5>1, <5>2, <5>4, <5>5, <5>6
    <3>2. ASSUME NEW c \in Contact, ReplyPositive(c) PROVE PersonInv'
      <4> DEFINE i == <<c, Invite>>
      <4>1. /\ c \in present /\ stopped' = stopped \cup {c} /\ UNCHANGED <<present, suppressed>>
            /\ \A r \in Row : Pending(r)' => ~(Sequence(r) /\ r[1] = c) /\ (Pending(r) \/ r = i)
            /\ \A r \in Row : status'[r] # "none" => status[r] # "none" \/ r = i
            /\ c \in suppressed => (Pending(i)' => Pending(i))
        <5>1. /\ c \in present /\ stopped' = stopped \cup {c} /\ UNCHANGED <<present, suppressed>>
              /\ \A r \in Row : r \in Steps(c) /\ Pending(r) => status'[r] = "CANCELED"
              /\ \A r \in Row : ~(r \in Steps(c) /\ Pending(r)) /\ r # i => status'[r] = status[r]
              /\ c \in suppressed => status'[i] \in {status[i], "CANCELED"}
          BY <3>2, InviteIsRow DEF ReplyPositive
        <5>2. \A r \in Row : r \in Steps(c) <=> Sequence(r) /\ r[1] = c
          BY DEF Steps, Of
        <5>3. ~Sequence(i) /\ i \in Row
          BY InviteIsRow DEF Sequence
        <5>4. QED
          BY <5>1, <5>2, <5>3
      <4>2. \A d \in Contact : d # c => <<d, Invite>> # i
        OBVIOUS
      <4>3. QED
        <5>1. \A d \in Contact : status'[<<d, Invite>>] # "none" /\ d \in present' => d \in stopped'
          BY <2>A, <4>1, <4>2, InviteIsRow
        <5>2. \A r \in Row : Pending(r)' => r[1] \in present' /\ r[1] \notin suppressed'
          <6>1. ASSUME NEW r \in Row, Pending(r)', r # i PROVE r[1] \in present' /\ r[1] \notin suppressed'
            BY <2>A, <4>1, <6>1
          <6>2. ASSUME Pending(i)' PROVE i[1] \in present' /\ i[1] \notin suppressed'
            BY <2>A, <4>1, <6>2, InviteIsRow
          <6>3. QED
            BY <6>1, <6>2
        <5>3. \A r \in Row : Sequence(r) /\ Pending(r)' => status'[<<r[1], Invite>>] = "none"
          <6> SUFFICES ASSUME NEW r \in Row, Sequence(r), Pending(r)' PROVE status'[<<r[1], Invite>>] = "none"
            OBVIOUS
          <6>1. r # i /\ r[1] # c
            BY <4>1 DEF Sequence
          <6>2. status[<<r[1], Invite>>] = "none" /\ r[1] \in Contact
            BY <2>A, <4>1, <6>1
          <6>3. QED
            BY <4>1, <4>2, <6>1, <6>2, InviteIsRow
        <5>4. QED
          BY <2>A, <2>B, <4>1, <5>1, <5>2, <5>3
    <3>3. ASSUME NEW c \in Contact, BookingEvent(c) \/ ManualBooking(c) \/ StoppedElsewhere(c) PROVE Quiet
      BY <3>3 DEF BookingEvent, ManualBooking, StoppedElsewhere, CancelRows
    <3>4. ASSUME NEW r \in Row, Approve(r) PROVE Quiet
      BY <3>4 DEF Approve
    <3>5. ASSUME MaterialEdit \/ ToggleGate PROVE Quiet
      BY <3>5 DEF MaterialEdit, ToggleGate
    <3>6. QED
      BY <2>0, <2>7, <3>1, <3>2, <3>3, <3>4, <3>5 DEF Outside
  <2>8. ASSUME UNCHANGED vars PROVE Quiet
    BY <2>8 DEF vars
  <2>9. QED
    BY <2>0, <2>1, <2>2, <2>3, <2>4, <2>5, <2>6, <2>7, <2>8 DEF Next, WorkerStep, Record
<1>3. QED
  BY <1>1, <1>2, Typed, Rows, PTL DEF Spec

(* After a suppression or an erasure nothing is waiting for that person, whatever
   a worker was doing at the time. *)
THEOREM Suppression == Spec => []SuppressedQueueEmpty
<1>1. PersonInv => SuppressedQueueEmpty
  BY DEF PersonInv
<1>2. QED
  BY <1>1, Persons, PTL

(* Once a prospect said yes, no step of the sequence waits beside the invitation. *)
THEOREM NoChasing == Spec => []NoChasingAfterYes
<1>1. PersonInv => NoChasingAfterYes
  BY DEF PersonInv
<1>2. QED
  BY <1>1, Persons, PTL

-----------------------------------------------------------------------------
(* An operator approved the row or the first message of its sequence. *)
Vetted(r) == r \in reviewed \/ (r[2] > 1 /\ <<r[1], 1>> \in reviewed)

(* Approvals, rows cleared for the provider, accepted rows and follow-ups all go
   back to an operator. *)
ReviewInv ==
    /\ \A r \in approved : Vetted(r)
    /\ \A w \in Worker : pc[w] = "cleared" => Vetted(cur[w])
    /\ \A r \in accepted : Vetted(r)
    /\ \A r \in Row : r[2] > 1 /\ status[r] # "none" => <<r[1], 1>> \in reviewed

LEMMA Reviewed == Spec => [](Review => ReviewInv)
<1>1. Init => ReviewInv
  BY DEF Init, ReviewInv
<1>2. TypeInv /\ RowInv /\ (Review => ReviewInv) /\ [Next]_vars => (Review => ReviewInv)'
  <2> SUFFICES ASSUME TypeInv, RowInv, Review, ReviewInv, [Next]_vars PROVE ReviewInv'
    OBVIOUS
  <2> USE DEF queue, approval, person, worker, provider
  <2>1. \A r \in Row : r[2] > 1 /\ status'[r] # "none" => <<r[1], 1>> \in reviewed
    <3> SUFFICES ASSUME NEW r \in Row, r[2] > 1, status'[r] # "none", status[r] = "none"
                 PROVE  <<r[1], 1>> \in reviewed
      BY DEF ReviewInv
    <3>1. Followed(r)
      BY Lifecycle DEF Pending, Completed, Invited, Invite, RowInv, Fresh
    <3>2. PICK p \in Row : r = Successor(p) /\ p \in accepted /\ status'[p] = "SENT"
      BY <3>1 DEF Followed
    <3>3. r[1] = p[1] /\ p[2] \in Nat /\ r[2] = p[2] + 1 /\ p = <<p[1], p[2]>>
      BY <3>2, OutreachSendAssumption DEF Successor, Row
    <3>4. Vetted(p)
      BY <3>2 DEF ReviewInv
    <3>5. CASE p[2] > 1
      <4>1. status[p] # "none"
        BY <3>2, Lifecycle DEF RowInv, Fresh, Completed, Pending, Followed, Invited
      <4>2. QED
        BY <3>3, <3>5, <4>1 DEF ReviewInv
    <3>6. CASE p[2] = 1
      BY <3>3, <3>4, <3>6 DEF Vetted
    <3>7. QED
      BY <3>3, <3>5, <3>6
  <2>2. reviewed \subseteq reviewed' /\ \A r \in approved' : r \in approved \/ Vetted(r)'
    <3>1. ASSUME NEW w \in Worker, RecordSent(w) PROVE reviewed' = reviewed /\ \A r \in approved' : r \in approved \/ Vetted(r)'
      <4>1. reviewed' = reviewed
        BY <3>1 DEF RecordSent
      <4>2. CASE ~NeedsSuccessor(cur[w])
        BY <3>1, <4>1, <4>2 DEF RecordSent
      <4>3. CASE NeedsSuccessor(cur[w])
        <5>1. PICK s \in Row : s = Successor(cur[w]) /\ s[2] > 1
          BY <3>1, <4>3, SuccessorIsRow, OutreachSendAssumption
             DEF RecordSent, NeedsSuccessor, Sequence, Successor, Row, Invite, TypeInv, AtWork
        <5>2. approved' \subseteq approved \cup {s} /\ status'[s] = "QUEUED"
          BY <3>1, <4>3, <5>1 DEF RecordSent, QueueSuccessor, TypeInv, TypeOK
        <5>3. Vetted(s)'
          BY <2>1, <4>1, <5>1, <5>2 DEF Vetted
        <5>4. QED
          BY <4>1, <5>2, <5>3
      <4>4. QED
        BY <4>2, <4>3
    <3>2. ASSUME NEW w \in Worker, RecordLost(w) \/ RecordFails(w) \/ StartPass(w) \/ EndPass(w)
                                   \/ ProviderCall(w) \/ FailRow(w) \/ Crash(w) \/ Recheck(w)
          PROVE  approved' = approved /\ reviewed' = reviewed
      BY <3>2 DEF RecordLost, RecordFails, StartPass, EndPass, ProviderCall, FailRow, Crash,
                  Recheck, RecheckLost, RecheckClosed, RecheckWaits, RecheckClear, RecheckFails
    <3>3. ASSUME NEW w \in Worker, NEW r \in Row, Prepare(w, r) PROVE approved' = approved /\ reviewed' = reviewed
      BY <3>3 DEF Prepare, SkipRow, CloseRow, DeferRow, DropRow, ClaimRow, Takes
    <3>4. CASE Sweep \/ Clock
      BY <3>4 DEF Sweep, Clock, LeaseExpires, BecomesDue, DayPasses
    <3>5. CASE Outside
      BY <3>5 DEF Outside, Suppress, ReplyPositive, ReplyOther, BookingEvent, ManualBooking,
                  StoppedElsewhere, Erase, Approve, MaterialEdit, ToggleGate, Vetted
    <3>6. CASE UNCHANGED vars
      BY <3>6 DEF vars
    <3>7. QED
      BY <3>1, <3>2, <3>3, <3>4, <3>5, <3>6 DEF Next, WorkerStep, Record
  <2>3. \A w \in Worker : pc'[w] = "cleared" =>
            cur'[w] = cur[w] /\ (pc[w] = "cleared" \/ cur[w] \in approved)
    <3> USE DEF TypeInv, TypeOK, GoTo
    <3>1. ASSUME NEW w \in Worker, NEW r \in Row, Prepare(w, r)
          PROVE  \A v \in Worker : pc'[v] = "cleared" => cur'[v] = cur[v] /\ pc[v] = "cleared"
      BY <3>1 DEF Prepare, SkipRow, CloseRow, DeferRow, DropRow, ClaimRow, Takes
    <3>2. ASSUME NEW w \in Worker, RecheckClear(w)
          PROVE  \A v \in Worker : pc'[v] = "cleared" =>
                     cur'[v] = cur[v] /\ (pc[v] = "cleared" \/ cur[v] \in approved)
      BY <3>2 DEF RecheckClear, Waits
    <3>3. ASSUME NEW w \in Worker, \/ StartPass(w) \/ EndPass(w) \/ ProviderCall(w) \/ FailRow(w)
                                   \/ Crash(w) \/ Record(w) \/ (Recheck(w) /\ ~RecheckClear(w))
          PROVE  \A v \in Worker : pc'[v] = "cleared" => cur'[v] = cur[v] /\ pc[v] = "cleared"
      BY <3>3 DEF StartPass, EndPass, ProviderCall, FailRow, Crash, Record, RecordSent, RecordLost,
                  RecordFails, Recheck, RecheckLost, RecheckClosed, RecheckWaits, RecheckFails,
                  NextCandidate
    <3>4. CASE Sweep \/ Clock \/ Outside
      BY <3>4, WorkersUntouched
    <3>5. CASE UNCHANGED vars
      BY <3>5 DEF vars
    <3>6. QED
      BY <3>1, <3>2, <3>3, <3>4, <3>5 DEF Next, WorkerStep
  <2>4. \A r \in accepted' : r \in accepted \/ Vetted(r)
    BY AcceptedGrows DEF ReviewInv, ProviderCall
  <2>5. QED
    BY <2>1, <2>2, <2>3, <2>4 DEF ReviewInv, Vetted
<1>3. QED
  BY <1>1, <1>2, Typed, Rows, PTL DEF Spec

(* REVIEW_BEFORE_SEND lets nothing out that no operator approved, follow-ups of an
   approved first message excepted. *)
THEOREM Reviewing == Spec => []ReviewGate
<1>1. (Review => ReviewInv) => ReviewGate
  BY DEF ReviewInv, ReviewGate, Vetted
<1>2. QED
  BY <1>1, Reviewed, PTL
=============================================================================
