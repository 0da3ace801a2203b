------------------------ MODULE DiscoveryRun_proofs ------------------------
(***************************************************************************)
(* Proofs about DiscoveryRun, for any number of workers, campaigns, runs   *)
(* and prospects and every value of the caps.                              *)
(***************************************************************************)
EXTENDS DiscoveryRun, SetLemmas, FiniteSetTheorems, TLAPS

(* A worker that is not idle has a run. *)
AtWork == \A w \in Worker : pc[w] # "idle" => cur[w] \in Run

(* A worker asks the gateway only for what its run's ledger entry covers, and
   settles only a run that has an entry and an answer. *)
Asking(w) == ledger[cur[w]] # None /\ (answer[cur[w]] = None => allowed[w] <= ledger[cur[w]])

Settling(w) == allowed[w] > 0 => ledger[cur[w]] # None /\ answer[cur[w]] # None

Backed == \A w \in Worker : /\ pc[w] = "discover" => Asking(w)
                            /\ pc[w] = "enroll" => Settling(w)

TypeInv == TypeOK /\ AtWork /\ Backed

LEMMA MinOfTwo ==
  ASSUME NEW m \in Nat, NEW n \in Nat
  PROVE  Min({m, n}) \in {m, n} /\ Min({m, n}) <= m /\ Min({m, n}) <= n
<1>1. \E x \in {m, n} : \A y \in {m, n} : x <= y
  <2>1. CASE m <= n
    BY <2>1
  <2>2. CASE n <= m
    BY <2>2
  <2>3. QED
    BY <2>1, <2>2
<1>2. QED
  BY <1>1 DEF Min

LEMMA RoomLeft ==
  ASSUME NEW n \in Nat, NEW m
  PROVE  AtLeastZero(n, m) \in 0..n
BY DEF AtLeastZero

(* A reservation is within the spend cap, whatever was spent before. *)
LEMMA ReservationFits ==
  ASSUME TypeOK, NEW r \in Run
  PROVE  Reservation(r) \in 0..SpendCap
<1>1. CASE ledger[r] # None
  BY <1>1 DEF TypeOK, Reservation
<1>2. CASE ledger[r] = None
  <2>1. AtLeastZero(SpendCap, Spent) \in 0..SpendCap
    BY RoomLeft, DiscoveryRunAssumption
  <2>2. Limit(CampaignOf[r]) \in Nat
    <3>1. /\ AtLeastZero(CampaignWeekly, Cardinality(Of(CampaignOf[r]))) \in Nat
          /\ AtLeastZero(TenantWeekly, Cardinality(recent)) \in Nat
      BY RoomLeft, DiscoveryRunAssumption
    <3>2. QED
      BY <3>1, MinOfTwo DEF Limit
  <2>3. QED
    BY <1>2, <2>1, <2>2, MinOfTwo, DiscoveryRunAssumption DEF Reservation
<1>3. QED
  BY <1>1, <1>2

LEMMA FoundIsFinite ==
  ASSUME NEW found \in SUBSET Prospect
  PROVE  Cardinality(found) \in Nat
BY FS_Subset, FS_CardinalityType, DiscoveryRunAssumption

(* What the parts shared by several actions do to the types. *)
LEMMA DropTyped ==
  ASSUME TypeInv, NEW w \in Worker, Drop(w)
  PROVE  /\ pc' \in [Worker -> Point] /\ cur' \in [Worker -> Run \cup {None}]
         /\ tried' \in [Worker -> 0..MaxRunAttempts] /\ allowed' \in [Worker -> 0..SpendCap]
         /\ left' \in [Worker -> SUBSET Prospect]
         /\ \A v \in Worker : pc'[v] # "idle" => v # w /\ pc'[v] = pc[v] /\ cur'[v] = cur[v]
                                                 /\ allowed'[v] = allowed[v]
<1> USE DEF TypeInv, TypeOK, Drop, GoTo
<1>1. pc' \in [Worker -> Point] /\ cur' \in [Worker -> Run \cup {None}]
  BY DEF Point
<1>2. tried' \in [Worker -> 0..MaxRunAttempts] /\ allowed' \in [Worker -> 0..SpendCap]
  BY DiscoveryRunAssumption
<1>3. left' \in [Worker -> SUBSET Prospect]
  OBVIOUS
<1>4. ASSUME NEW v \in Worker, pc'[v] # "idle"
      PROVE  v # w /\ pc'[v] = pc[v] /\ cur'[v] = cur[v] /\ allowed'[v] = allowed[v]
  BY <1>4
<1>5. QED
  BY <1>1, <1>2, <1>3, <1>4

LEMMA IfHeldTyped ==
  ASSUME TypeInv, NEW w \in Worker, pc[w] # "idle", NEW s \in RunStatus, IfHeld(w, s)
  PROVE  /\ status' \in [Run -> RunStatus] /\ token' \in [Run -> Worker \cup {None}]
         /\ leased' \subseteq Run
BY DEF TypeInv, TypeOK, AtWork, IfHeld

LEMMA BuysTyped ==
  ASSUME TypeInv, NEW r \in Run, NEW n \in 0..SpendCap, NEW found, Buys(r, n, found)
  PROVE  /\ answer' \in [Run -> Answer \cup {None}]
         /\ answer'[r] = [limit |-> n, found |-> found] /\ answer'[r] # None
         /\ found \in SUBSET Prospect /\ Cardinality(found) \in 0..n
         /\ \A q \in Run : q # r => answer'[q] = answer[q]
<1>1. [limit |-> n, found |-> found] \in Answer /\ found \in SUBSET Prospect
  BY DEF Buys, Answer
<1>2. [limit |-> n, found |-> found] # None
  BY DiscoveryRunAssumption, <1>1 DEF Answer
<1>3. QED
  BY <1>1, <1>2, FoundIsFinite DEF Buys, TypeInv, TypeOK

(* The sweepers, the clock and the outside leave the workers and the money alone. *)
LEMMA WorkersUntouched ==
  ASSUME (\E r \in Run : Schedule(r)) \/ Sweepers \/ Clock \/ Outside
  PROVE  UNCHANGED <<worker, ledger, answer>>
<1> USE DEF row, people, worker
<1>1. CASE (\E r \in Run : Schedule(r)) \/ Sweepers \/ Clock
  BY <1>1 DEF Schedule, Sweepers, SweepExhausted, SweepInactive, Sweep, Clock, LeaseExpires, BecomesDue
<1>2. CASE Outside
  BY <1>2 DEF Outside, PostWrite, PostRead, WeekPasses, Toggle, Suppress, Stops, Cools
<1>3. QED
  BY <1>1, <1>2

LEMMA Typed == Spec => []TypeInv
<1>1. ASSUME Init PROVE TypeInv
  BY <1>1, DiscoveryRunAssumption DEF Init, TypeInv, TypeOK, AtWork, Backed, RunStatus, Point
<1>2. TypeInv /\ [Next]_vars => TypeInv'
  <2> SUFFICES ASSUME TypeInv, [Next]_vars PROVE TypeInv'
    OBVIOUS
  <2> USE DEF TypeInv, TypeOK, AtWork, Backed, Asking, Settling, row, people, worker
  <2>1. ASSUME NEW r \in Run, Schedule(r) PROVE TypeInv'
    BY <2>1, DiscoveryRunAssumption DEF Schedule, Queue, RunStatus
  <2>2. ASSUME NEW w \in Worker, NEW r \in Run, Claim(w, r) PROVE TypeInv'
    <3>1. attempts[r] + 1 \in 0..MaxRunAttempts
      BY <2>2, DiscoveryRunAssumption DEF Claim, Claimable
    <3>2. QED
      BY <2>2, <3>1 DEF Claim, GoTo, RunStatus, Point
  <2>3. ASSUME NEW w \in Worker, NEW s \in {"CANCELED", "SUCCEEDED", "FAILED", "QUEUED"},
               pc[w] # "idle", IfHeld(w, s), Drop(w), due' \subseteq Run,
               UNCHANGED <<attempts, ledger, people, active, answer, api>>
        PROVE  TypeInv'
    <3>1. s \in RunStatus
      BY DEF RunStatus
    <3>2. QED
      BY <2>3, <3>1, DropTyped, IfHeldTyped
  <2>4. ASSUME NEW w \in Worker, CancelRun(w) \/ Finish(w) \/ FailRun(w) PROVE TypeInv'
    <3>1. CASE CancelRun(w)
      BY <2>3, <3>1 DEF CancelRun
    <3>2. CASE Finish(w)
      BY <2>3, <3>2 DEF Finish
    <3>3. CASE FailRun(w)
      <4>1. due' \subseteq Run
        BY <3>3 DEF FailRun
      <4>2. QED
        BY <2>3, <3>3, <4>1 DEF FailRun
    <3>4. QED
      BY <2>4, <3>1, <3>2, <3>3
  <2>5. ASSUME NEW w \in Worker, Reserve(w) PROVE TypeInv'
    <3> DEFINE r == cur[w]
               n == IF Limit(CampaignOf[r]) = 0 THEN 0 ELSE Reservation(r)
    <3>1. r \in Run /\ n \in 0..SpendCap
      BY <2>5, ReservationFits, DiscoveryRunAssumption DEF Reserve
    <3>2. /\ ledger' \in [Run -> (0..SpendCap) \cup {None}]
          /\ \A q \in Run : ledger[q] # None => ledger'[q] = ledger[q]
          /\ n > 0 => ledger'[r] = n
      BY <2>5, <3>1 DEF Reserve, Reservation
    <3>3. /\ allowed' = [allowed EXCEPT ![w] = n]
          /\ pc' = [pc EXCEPT ![w] = IF n > 0 THEN "discover" ELSE "enroll"]
          /\ UNCHANGED <<row, people, active, answer, cur, tried, left, api>>
      BY <2>5 DEF Reserve, GoTo
    <3>4. TypeOK' /\ AtWork'
      BY <3>1, <3>2, <3>3 DEF Point
    <3>5. ASSUME NEW v \in Worker PROVE (pc[v] = "discover" => Asking(v))' /\ (pc[v] = "enroll" => Settling(v))'
      <4>1. CASE v = w
        <5>1. n > 0 => ledger'[r] # None
          BY <3>1, <3>2, DiscoveryRunAssumption
        <5>2. QED
          BY <3>1, <3>2, <3>3, <4>1, <5>1
      <4>2. CASE v # w
        BY <3>2, <3>3, <4>2
      <4>3. QED
        BY <4>1, <4>2
    <3>6. QED
      BY <3>4, <3>5
  <2>6. ASSUME NEW w \in Worker, Discover(w) \/ DiscoverFails(w) PROVE TypeInv'
    <3>1. cur[w] \in Run /\ allowed[w] \in 0..SpendCap /\ pc[w] = "discover" /\ Asking(w)
      BY <2>6 DEF Discover, DiscoverFails
    <3>2. /\ answer' \in [Run -> Answer \cup {None}]
          /\ \A q \in Run : answer[q] # None => answer'[q] # None
          /\ Discover(w) => answer'[cur[w]] # None
      BY <2>6, <3>1, BuysTyped DEF Discover, DiscoverFails
    <3>3. /\ left' \in [Worker -> SUBSET Prospect]
          /\ pc' = [pc EXCEPT ![w] = IF Discover(w) THEN "enroll" ELSE "failed"]
      <4>1. CASE DiscoverFails(w) /\ ~Discover(w)
        BY <4>1 DEF DiscoverFails, GoTo
      <4>2. CASE Discover(w) /\ answer[cur[w]] = None
        BY <3>1, <4>2, BuysTyped, SMTT(30) DEF Discover, Discovered, GoTo
      <4>3. CASE Discover(w) /\ answer[cur[w]] # None
        <5>1. answer[cur[w]].found \in SUBSET Prospect
          BY <3>1, <4>3 DEF Answer
        <5>2. QED
          BY <4>3, <5>1 DEF Discover, Discovered, GoTo
      <4>4. QED
        BY <2>6, <4>1, <4>2, <4>3
    <3>4. UNCHANGED <<row, ledger, people, active, cur, tried, allowed, api>>
      BY <2>6 DEF Discover, DiscoverFails
    <3>5. TypeOK' /\ AtWork'
      BY <3>2, <3>3, <3>4, <3>1 DEF Point
    <3>6. Backed'
      BY <3>1, <3>2, <3>3, <3>4
    <3>7. QED
      BY <3>5, <3>6
  <2>7. ASSUME NEW w \in Worker, NEW p \in Prospect, Enroll(w, p) \/ EnrollDummy(w, p) \/ PassOver(w, p)
        PROVE  TypeInv'
    <3>1. /\ UNCHANGED <<row, ledger, suppressed, active, answer, pc, cur, tried, allowed, api>>
          /\ left' \in [Worker -> SUBSET Prospect] /\ cur[w] \in Run
      BY <2>7 DEF Enroll, EnrollDummy, PassOver, Considers
    <3>2. CampaignOf[cur[w]] \in Campaign
      BY <3>1, DiscoveryRunAssumption
    <3>3. /\ enrollment' \in [Campaign -> [Prospect -> {"none", "active", "stopped", "cool"}]]
          /\ recent' \subseteq Campaign \X Prospect
      <4>1. CASE Enroll(w, p)
        BY <3>2, <4>1 DEF Enroll
      <4>2. CASE EnrollDummy(w, p)
        BY <3>2, <4>2 DEF EnrollDummy
      <4>3. CASE PassOver(w, p)
        BY <4>3 DEF PassOver
      <4>4. QED
        BY <2>7, <4>1, <4>2, <4>3
    <3>4. QED
      BY <3>1, <3>3
  <2>8. ASSUME NEW w \in Worker, Settle(w) PROVE TypeInv'
    <3> DEFINE r == cur[w]
    <3>1. r \in Run /\ Settling(w) /\ pc' = [pc EXCEPT ![w] = "finish"]
          /\ UNCHANGED <<row, people, active, answer, cur, tried, allowed, left, api>>
      BY <2>8 DEF Settle, GoTo
    <3>2. CASE allowed[w] > 0 /\ ledger[r] > Delivered(r)
      <4>1. ledger[r] \in 0..SpendCap /\ answer[r] \in Answer
        BY <3>1, <3>2
      <4>2. Delivered(r) \in 0..SpendCap
        BY <3>2, <4>1, FoundIsFinite, DiscoveryRunAssumption DEF Delivered, Answer
      <4>3. ledger' = [ledger EXCEPT ![r] = Delivered(r)] /\ answer[r] # None /\ Delivered(r) # None
        BY <2>8, <3>1, <3>2, <4>2, DiscoveryRunAssumption DEF Settle
      <4>4. QED
        BY <3>1, <4>2, <4>3 DEF Point
    <3>3. CASE ~(allowed[w] > 0 /\ ledger[r] > Delivered(r))
      BY <2>8, <3>1, <3>3 DEF Settle, Point
    <3>4. QED
      BY <3>2, <3>3
  <2>9. ASSUME NEW w \in Worker, Throws(w) PROVE TypeInv'
    BY <2>9 DEF Throws, GoTo, Point
  <2>10. ASSUME NEW w \in Worker, Crash(w) PROVE TypeInv'
    BY <2>10, DropTyped, SMTT(30) DEF Crash
  <2>11. CASE Sweepers
    BY <2>11 DEF Sweepers, SweepExhausted, SweepInactive, Sweep, RunStatus
  <2>12. CASE Clock
    BY <2>12 DEF Clock, LeaseExpires, BecomesDue
  <2>13. CASE Outside
    <3>1. CASE PostWrite
      BY <3>1, DiscoveryRunAssumption DEF PostWrite, Queue, RunStatus
    <3>2. ASSUME NEW r \in Run, PostRead(r) PROVE TypeInv'
      BY <3>2 DEF PostRead
    <3>3. CASE WeekPasses
      BY <3>3 DEF WeekPasses
    <3>4. ASSUME NEW c \in Campaign, Toggle(c) PROVE TypeInv'
      BY <3>4 DEF Toggle
    <3>5. ASSUME NEW p \in Prospect, Suppress(p) PROVE TypeInv'
      BY <3>5 DEF Suppress
    <3>6. ASSUME NEW c \in Campaign, NEW p \in Prospect, Stops(c, p) \/ Cools(c, p) PROVE TypeInv'
      <4>1. enrollment' \in [Campaign -> [Prospect -> {"none", "active", "stopped", "cool"}]]
        <5>1. PICK s \in {"stopped", "cool"} : enrollment' = [enrollment EXCEPT ![c][p] = s]
          BY <3>6 DEF Stops, Cools
        <5>2. [enrollment[c] EXCEPT ![p] = s] \in [Prospect -> {"none", "active", "stopped", "cool"}]
          OBVIOUS
        <5>3. QED
          BY <5>1, <5>2
      <4>2. UNCHANGED <<row, ledger, recent, suppressed, active, answer, worker, api>>
        BY <3>6 DEF Stops, Cools
      <4>3. QED
        BY <4>1, <4>2
    <3>7. QED
      BY <2>13, <3>1, <3>2, <3>3, <3>4, <3>5, <3>6 DEF Outside
  <2>14. CASE UNCHANGED vars
    BY <2>14 DEF vars
  <2>15. QED
    BY <2>1, <2>2, <2>4, <2>5, <2>6, <2>7, <2>8, <2>9, <2>10, <2>11, <2>12, <2>13, <2>14
       DEF Next, WorkerStep
<1>3. QED
  BY <1>1, <1>2, PTL DEF Spec

(* Every reachable state is well typed: no reservation exceeds the spend cap and no
   run is claimed more often than its attempt budget. *)
THEOREM Typing == Spec => []TypeOK
<1>1. TypeInv => TypeOK
  BY DEF TypeInv
<1>2. QED
  BY <1>1, Typed, PTL

-----------------------------------------------------------------------------
(* A ledger entry that covers an answer stays above what was bought: reservations
   are never replaced, and a settlement lowers them to the delivery at most. *)
THEOREM Coverage == Spec => []PurchasesCovered
<1>1. Init => PurchasesCovered
  BY DEF Init, PurchasesCovered
<1>2. TypeInv /\ PurchasesCovered /\ [Next]_vars => PurchasesCovered'
  <2> SUFFICES ASSUME TypeInv, PurchasesCovered, [Next]_vars PROVE PurchasesCovered'
    OBVIOUS
  <2> USE DEF row, people, worker
  <2>0. ASSUME UNCHANGED <<ledger, answer>> PROVE PurchasesCovered'
    BY <2>0 DEF PurchasesCovered
  <2>1. ASSUME NEW w \in Worker, Reserve(w) PROVE PurchasesCovered'
    <3>1. cur[w] \in Run /\ answer' = answer /\ \A q \in Run : ledger[q] # None => ledger'[q] = ledger[q]
      BY <2>1 DEF Reserve, Reservation, TypeInv, TypeOK, AtWork
    <3>2. QED
      BY <3>1 DEF PurchasesCovered
  <2>2. ASSUME NEW w \in Worker, Discover(w) \/ DiscoverFails(w) PROVE PurchasesCovered'
    <3> DEFINE r == cur[w]
    <3>1. r \in Run /\ allowed[w] \in 0..SpendCap /\ Asking(w) /\ ledger' = ledger
      BY <2>2 DEF Discover, DiscoverFails, TypeInv, TypeOK, AtWork, Backed
    <3>2. CASE answer' = answer
      BY <2>0, <3>1, <3>2
    <3>3. ASSUME answer[r] = None, NEW found, Buys(r, allowed[w], found) PROVE PurchasesCovered'
      <4>1. ledger[r] # None /\ allowed[w] <= ledger[r] /\ ledger[r] \in 0..SpendCap
        BY <3>1, <3>3 DEF Asking, TypeInv, TypeOK
      <4>2. /\ answer'[r].found = found /\ Cardinality(found) \in 0..allowed[w]
            /\ \A q \in Run : q # r => answer'[q] = answer[q]
        <5>1. answer'[r] = [limit |-> allowed[w], found |-> found]
          BY <3>1, <3>3, BuysTyped
        <5>2. Cardinality(found) \in 0..allowed[w] /\ \A q \in Run : q # r => answer'[q] = answer[q]
          BY <3>1, <3>3, BuysTyped
        <5>3. QED
          BY <5>1, <5>2
      <4>3. Cardinality(answer'[r].found) <= ledger'[r]
        BY <3>1, <4>1, <4>2, DiscoveryRunAssumption
      <4>4. QED
        BY <3>1, <4>1, <4>2, <4>3 DEF PurchasesCovered
    <3>4. QED
      BY <2>2, <3>2, <3>3 DEF Discover, DiscoverFails
  <2>3. ASSUME NEW w \in Worker, Settle(w) PROVE PurchasesCovered'
    <3> DEFINE r == cur[w]
    <3>1. r \in Run /\ answer' = answer /\ Settling(w)
      BY <2>3 DEF Settle, TypeInv, TypeOK, AtWork, Backed
    <3>2. CASE allowed[w] > 0 /\ ledger[r] > Delivered(r)
      <4>1. answer[r] \in Answer
        BY <3>1, <3>2 DEF Settling, TypeInv, TypeOK
      <4>2. Delivered(r) \in Nat
        BY <4>1, FoundIsFinite DEF Delivered, Answer
      <4>3. ledger' = [ledger EXCEPT ![r] = Delivered(r)] /\ Delivered(r) # None
        BY <2>3, <3>2, <4>2, DiscoveryRunAssumption DEF Settle
      <4>4. QED
        BY <3>1, <4>2, <4>3 DEF PurchasesCovered, Delivered, TypeInv, TypeOK
    <3>3. CASE ~(allowed[w] > 0 /\ ledger[r] > Delivered(r))
      BY <2>0, <2>3, <3>1, <3>3 DEF Settle
    <3>4. QED
      BY <3>2, <3>3
  <2>4. ASSUME NEW w \in Worker, \/ CancelRun(w) \/ Finish(w) \/ FailRun(w) \/ Throws(w) \/ Crash(w)
                                 \/ \E r \in Run : Claim(w, r)
                                 \/ \E p \in Prospect : Enroll(w, p) \/ EnrollDummy(w, p) \/ PassOver(w, p)
        PROVE  UNCHANGED <<ledger, answer>>
    BY <2>4 DEF CancelRun, Finish, FailRun, Throws, Crash, Claim, Enroll, EnrollDummy, PassOver, Considers
  <2>5. QED
    BY <2>0, <2>1, <2>2, <2>3, <2>4, WorkersUntouched DEF Next, WorkerStep, vars
<1>3. QED
  BY <1>1, <1>2, Typed, PTL DEF Spec

-----------------------------------------------------------------------------
(* How the enrollments of a prospect can change. *)
LEMMA Enrollments ==
  ASSUME TypeInv, [Next]_vars
  PROVE  \/ UNCHANGED people
         \/ \E w \in Worker, p \in Prospect : Enroll(w, p) \/ EnrollDummy(w, p)
         \/ WeekPasses
         \/ \E p \in Prospect : Suppress(p)
         \/ \E c \in Campaign, p \in Prospect : Stops(c, p) \/ Cools(c, p)
<1> USE DEF row, people, worker
<1>1. ASSUME NEW w \in Worker, \/ CancelRun(w) \/ Reserve(w) \/ Discover(w) \/ DiscoverFails(w)
                               \/ Settle(w) \/ Finish(w) \/ FailRun(w) \/ Throws(w) \/ Crash(w)
                               \/ \E r \in Run : Claim(w, r)
      PROVE  UNCHANGED people
  BY <1>1 DEF CancelRun, Reserve, Discover, DiscoverFails, Settle, Finish, FailRun, Throws, Crash, Claim
<1>2. ASSUME NEW w \in Worker, NEW p \in Prospect, PassOver(w, p) PROVE UNCHANGED people
  BY <1>2 DEF PassOver, Considers
<1>3. ASSUME (\E r \in Run : Schedule(r)) \/ Sweepers \/ Clock PROVE UNCHANGED people
  BY <1>3 DEF Schedule, Sweepers, SweepExhausted, SweepInactive, Sweep, Clock, LeaseExpires, BecomesDue
<1>4. ASSUME PostWrite \/ (\E r \in Run : PostRead(r)) \/ (\E c \in Campaign : Toggle(c))
      PROVE  UNCHANGED people
  BY <1>4 DEF PostWrite, PostRead, Toggle
<1>5. QED
  BY <1>1, <1>2, <1>3, <1>4 DEF Next, WorkerStep, Outside, vars

(* Two campaigns never work on the same contact at the same time. *)
THEOREM Ownership == Spec => []OneOwner
<1>1. Init => OneOwner
  BY DEF Init, OneOwner
<1>2. TypeInv /\ OneOwner /\ [Next]_vars => OneOwner'
  <2> SUFFICES ASSUME TypeInv, OneOwner, [Next]_vars PROVE OneOwner'
    OBVIOUS
  <2> USE DEF OneOwner, people
  <2>0. enrollment \in [Campaign -> [Prospect -> {"none", "active", "stopped", "cool"}]]
    BY DEF TypeInv, TypeOK
  <2>1. ASSUME NEW w \in Worker, NEW p \in Prospect, Enroll(w, p) PROVE OneOwner'
    <3> DEFINE c == CampaignOf[cur[w]]
    <3>1. enrollment' = [enrollment EXCEPT ![c][p] = "active"]
      BY <2>1 DEF Enroll
    <3>2. \A o \in Campaign : enrollment[o][p] # "active"
      BY <2>1 DEF Enroll, Free
    <3>3. QED
      BY <2>0, <3>1, <3>2
  <2>2. ASSUME NEW w \in Worker, NEW p \in Prospect, EnrollDummy(w, p) PROVE OneOwner'
    BY <2>0, <2>2 DEF EnrollDummy
  <2>3. CASE UNCHANGED people \/ WeekPasses
    BY <2>3 DEF WeekPasses
  <2>4. ASSUME NEW p \in Prospect, Suppress(p) PROVE OneOwner'
    BY <2>0, <2>4 DEF Suppress
  <2>5. ASSUME NEW c \in Campaign, NEW p \in Prospect, Stops(c, p) \/ Cools(c, p) PROVE OneOwner'
    <3>1. \A o \in Campaign, q \in Prospect : enrollment'[o][q] = "active" => enrollment[o][q] = "active"
      BY <2>0, <2>5 DEF Stops, Cools
    <3>2. QED
      BY <3>1
  <2>6. QED
    BY <2>1, <2>2, <2>3, <2>4, <2>5, Enrollments
<1>3. QED
  BY <1>1, <1>2, Typed, PTL DEF Spec

(* A suppressed prospect has no active enrollment, also when a run found the
   address before it was suppressed. *)
THEOREM Suppression == Spec => []SuppressedNotEnrolled
<1>1. Init => SuppressedNotEnrolled
  BY DEF Init, SuppressedNotEnrolled
<1>2. TypeInv /\ SuppressedNotEnrolled /\ [Next]_vars => SuppressedNotEnrolled'
  <2> SUFFICES ASSUME TypeInv, SuppressedNotEnrolled, [Next]_vars PROVE SuppressedNotEnrolled'
    OBVIOUS
  <2> USE DEF SuppressedNotEnrolled, people
  <2>0. /\ enrollment \in [Campaign -> [Prospect -> {"none", "active", "stopped", "cool"}]]
        /\ suppressed \subseteq Prospect
    BY DEF TypeInv, TypeOK
  <2>1. ASSUME NEW w \in Worker, NEW p \in Prospect, Enroll(w, p) \/ EnrollDummy(w, p)
        PROVE  SuppressedNotEnrolled'
    <3>1. p \notin suppressed /\ suppressed' = suppressed
      BY <2>1 DEF Enroll, EnrollDummy, MayEnroll, Considers
    <3>2. \A q \in Prospect, o \in Campaign :
             q # p /\ enrollment'[o][q] = "active" => enrollment[o][q] = "active"
      BY <2>0, <2>1 DEF Enroll, EnrollDummy
    <3>3. QED
      BY <2>0, <3>1, <3>2
  <2>2. CASE UNCHANGED people \/ WeekPasses
    BY <2>2 DEF WeekPasses
  <2>3. ASSUME NEW p \in Prospect, Suppress(p) PROVE SuppressedNotEnrolled'
    BY <2>0, <2>3 DEF Suppress
  <2>4. ASSUME NEW c \in Campaign, NEW p \in Prospect, Stops(c, p) \/ Cools(c, p)
        PROVE  SuppressedNotEnrolled'
    BY <2>0, <2>4 DEF Stops, Cools
  <2>5. QED
    BY <2>1, <2>2, <2>3, <2>4, Enrollments
<1>3. QED
  BY <1>1, <1>2, Typed, PTL DEF Spec

-----------------------------------------------------------------------------
LEMMA OneMore ==
  ASSUME NEW S, IsFiniteSet(S), NEW e, NEW n \in Nat, Cardinality(S) < n
  PROVE  IsFiniteSet(S \cup {e}) /\ Cardinality(S \cup {e}) <= n
BY FS_AddElement, FS_CardinalityType, SMTT(30)

LEMMA NoMore ==
  ASSUME NEW S, IsFiniteSet(S), NEW T \in SUBSET S, NEW n \in Nat, Cardinality(S) <= n
  PROVE  IsFiniteSet(T) /\ Cardinality(T) <= n
BY FS_Subset, FS_CardinalityType

(* The weekly caps hold for any number of workers that enroll at once from limits
   they read before their purchases. *)
THEOREM Caps == Spec => []WeeklyCapsHold
<1> DEFINE Inv == IsFiniteSet(recent) /\ WeeklyCapsHold
<1>1. Init => Inv
  <2> SUFFICES ASSUME Init PROVE Inv
    OBVIOUS
  <2>1. recent = {} /\ \A c \in Campaign : Of(c) = {}
    BY DEF Init, Of
  <2>2. QED
    BY <2>1, FS_EmptySet, DiscoveryRunAssumption DEF WeeklyCapsHold
<1>2. TypeInv /\ Inv /\ [Next]_vars => Inv'
  <2> SUFFICES ASSUME TypeInv, Inv, [Next]_vars PROVE Inv'
    OBVIOUS
  <2> USE DEF people
  <2>0. \A c \in Campaign : IsFiniteSet(Of(c))
    BY FS_Subset DEF Of
  <2>1. ASSUME recent' \subseteq recent PROVE Inv'
    <3>1. IsFiniteSet(recent') /\ Cardinality(recent') <= TenantWeekly
      BY <2>1, NoMore, DiscoveryRunAssumption DEF WeeklyCapsHold
    <3>2. ASSUME NEW c \in Campaign PROVE Cardinality(Of(c)') <= CampaignWeekly
      <4>1. Of(c)' \subseteq Of(c)
        BY <2>1 DEF Of
      <4>2. QED
        BY <2>0, <4>1, NoMore, DiscoveryRunAssumption DEF WeeklyCapsHold
    <3>3. QED
      BY <3>1, <3>2 DEF WeeklyCapsHold
  <2>2. ASSUME NEW c \in Campaign, NEW p \in Prospect, recent' = recent \cup {<<c, p>>},
               Cardinality(recent) < TenantWeekly, Cardinality(Of(c)) < CampaignWeekly
        PROVE  Inv'
    <3>1. IsFiniteSet(recent') /\ Cardinality(recent') <= TenantWeekly
      BY <2>2, OneMore, DiscoveryRunAssumption
    <3>2. Of(c)' = Of(c) \cup {<<c, p>>}
      BY <2>2 DEF Of
    <3>3. Cardinality(Of(c)') <= CampaignWeekly
      BY <2>0, <2>2, <3>2, OneMore, DiscoveryRunAssumption
    <3>4. ASSUME NEW o \in Campaign, o # c PROVE Of(o)' = Of(o)
      BY <2>2, <3>4 DEF Of
    <3>5. ASSUME NEW o \in Campaign PROVE Cardinality(Of(o)') <= CampaignWeekly
      BY <3>3, <3>4 DEF WeeklyCapsHold
    <3>6. QED
      BY <3>1, <3>5 DEF WeeklyCapsHold
  <2>3. ASSUME NEW w \in Worker, NEW p \in Prospect, Enroll(w, p) \/ EnrollDummy(w, p) PROVE Inv'
    <3>1. CampaignOf[cur[w]] \in Campaign
      BY <2>3, DiscoveryRunAssumption DEF Enroll, EnrollDummy, Considers, TypeInv, AtWork
    <3>2. QED
      BY <2>1, <2>2, <2>3, <3>1 DEF Enroll, EnrollDummy, MayEnroll
  <2>4. ASSUME NEW p \in Prospect, Suppress(p) PROVE Inv'
    BY <2>1, <2>4 DEF Suppress
  <2>5. ASSUME NEW c \in Campaign, NEW p \in Prospect, Stops(c, p) \/ Cools(c, p) PROVE Inv'
    BY <2>1, <2>5 DEF Stops, Cools
  <2>6. CASE UNCHANGED people \/ WeekPasses
    BY <2>1, <2>6 DEF WeekPasses
  <2>7. QED
    BY <2>3, <2>4, <2>5, <2>6, Enrollments
<1>3. Inv => WeeklyCapsHold
  OBVIOUS
<1>4. QED
  BY <1>1, <1>2, <1>3, Typed, PTL DEF Spec

-----------------------------------------------------------------------------
(* A worker with the token of its run finds it RUNNING: whoever ends, requeues or
   takes over a run takes the token away, except from a worker that is done. *)
HolderRuns == \A w \in Worker : pc[w] # "idle" /\ token[cur[w]] = w => status[cur[w]] = "RUNNING"

LEMMA Holders == Spec => []HolderRuns
<1>1. Init => HolderRuns
  BY DEF Init, HolderRuns
<1>2. TypeInv /\ HolderRuns /\ [Next]_vars => HolderRuns'
  <2> SUFFICES ASSUME TypeInv, HolderRuns, [Next]_vars PROVE HolderRuns'
    OBVIOUS
  <2> USE DiscoveryRunAssumption DEF HolderRuns, TypeInv, TypeOK, AtWork, row, people, worker
  <2>1. ASSUME NEW r \in Run, Schedule(r) PROVE HolderRuns'
    BY <2>1 DEF Schedule, Queue
  <2>2. ASSUME NEW w \in Worker, NEW r \in Run, Claim(w, r) PROVE HolderRuns'
    BY <2>2 DEF Claim, GoTo
  <2>3. ASSUME NEW w \in Worker, CancelRun(w) \/ Finish(w) \/ FailRun(w) PROVE HolderRuns'
    <3>1. PICK s : IfHeld(w, s) /\ Drop(w) /\ pc[w] # "idle"
      BY <2>3 DEF CancelRun, Finish, FailRun
    <3>2. QED
      BY <3>1, DropTyped DEF IfHeld
  <2>4. ASSUME NEW w \in Worker, Crash(w) PROVE HolderRuns'
    BY <2>4, DropTyped DEF Crash
  <2>5. ASSUME NEW w \in Worker, \/ Reserve(w) \/ Discover(w) \/ DiscoverFails(w) \/ Settle(w) \/ Throws(w)
                                 \/ \E p \in Prospect : Enroll(w, p) \/ EnrollDummy(w, p) \/ PassOver(w, p)
        PROVE  HolderRuns'
    <3>1. /\ UNCHANGED <<status, token, cur>>
          /\ pc[w] # "idle" /\ \A v \in Worker : v # w => pc'[v] = pc[v]
      BY <2>5 DEF Reserve, Discover, DiscoverFails, Discovered, Settle, Throws, Enroll, EnrollDummy,
                  PassOver, Considers, GoTo
    <3>2. QED
      BY <3>1
  <2>6. CASE Sweepers
    BY <2>6 DEF Sweepers, SweepExhausted, SweepInactive, Sweep
  <2>7. CASE Clock
    BY <2>7 DEF Clock, LeaseExpires, BecomesDue
  <2>8. CASE Outside
    BY <2>8 DEF Outside, PostWrite, PostRead, Queue, WeekPasses, Toggle, Suppress, Stops, Cools
  <2>9. CASE UNCHANGED vars
    BY <2>9 DEF vars
  <2>10. QED
    BY <2>1, <2>2, <2>3, <2>4, <2>5, <2>6, <2>7, <2>8, <2>9 DEF Next, WorkerStep
<1>3. QED
  BY <1>1, <1>2, Typed, PTL DEF Spec

(* A finished run is rewritten by a POST with its key and by nobody else. *)
THEOREM Finality == Spec => FinishedStays
<1>1. ASSUME TypeInv, HolderRuns, [Next]_vars, NEW r \in Run, status[r] \in Terminal, status'[r] # status[r]
      PROVE  api = r
  <2> USE <1>1 DEF TypeInv, TypeOK, AtWork, Terminal, row, people, worker
  <2>1. ASSUME NEW q \in Run, Schedule(q) PROVE FALSE
    BY <2>1 DEF Schedule, Queue
  <2>2. ASSUME NEW w \in Worker, NEW q \in Run, Claim(w, q) PROVE FALSE
    BY <2>2 DEF Claim, Claimable
  <2>3. ASSUME NEW w \in Worker, CancelRun(w) \/ Finish(w) \/ FailRun(w) PROVE FALSE
    <3>1. PICK s : IfHeld(w, s) /\ pc[w] # "idle"
      BY <2>3 DEF CancelRun, Finish, FailRun
    <3>2. QED
      BY <3>1 DEF IfHeld, HolderRuns
  <2>4. ASSUME NEW w \in Worker, \/ Reserve(w) \/ Discover(w) \/ DiscoverFails(w) \/ Settle(w) \/ Throws(w) \/ Crash(w)
                                 \/ \E p \in Prospect : Enroll(w, p) \/ EnrollDummy(w, p) \/ PassOver(w, p)
        PROVE  FALSE
    BY <2>4 DEF Reserve, Discover, DiscoverFails, Settle, Throws, Crash, Enroll, EnrollDummy, PassOver,
                Considers
  <2>5. CASE Sweepers
    BY <2>5 DEF Sweepers, SweepExhausted, SweepInactive, Sweep
  <2>6. CASE Clock
    BY <2>6 DEF Clock, LeaseExpires, BecomesDue
  <2>7. CASE Outside
    BY <2>7 DEF Outside, PostWrite, PostRead, Queue, WeekPasses, Toggle, Suppress, Stops, Cools
  <2>8. CASE UNCHANGED vars
    BY <2>8 DEF vars
  <2>9. QED
    BY <2>1, <2>2, <2>3, <2>4, <2>5, <2>6, <2>7, <2>8 DEF Next, WorkerStep
<1>2. TypeInv /\ HolderRuns /\ [Next]_vars =>
        [\A r \in Run : status[r] \in Terminal /\ status'[r] # status[r] => api = r]_vars
  BY <1>1
<1>3. QED
  BY <1>2, Typed, Holders, PTL DEF Spec, FinishedStays
-----------------------------------------------------------------------------
Entered == {r \in Run : ledger[r] # None}

LEMMA SpentIsSum == Spent = SumOf(ledger, Entered)
BY DEF Spent, SumOf, Entered, MapThenSumSet, MapThenFoldSet

LEMMA EnteredFinite ==
  ASSUME TypeOK
  PROVE  IsFiniteSet(Entered) /\ Spent \in Int /\ Ints(ledger, Entered)
<1>1. IsFiniteSet(Entered) /\ Ints(ledger, Entered)
  BY FS_Subset, DiscoveryRunAssumption DEF Entered, TypeOK, Ints
<1>2. QED
  BY <1>1, SumOfInt, SpentIsSum

(* A first reservation fits into what is left of the spend cap. *)
LEMMA FirstReservation ==
  ASSUME TypeOK, SpendCapHolds, NEW r \in Run, ledger[r] = None, Reservation(r) > 0
  PROVE  Spent + Reservation(r) <= SpendCap
<1>1. AtLeastZero(SpendCap, Spent) \in 0..SpendCap
  BY RoomLeft, DiscoveryRunAssumption
<1>2. /\ AtLeastZero(CampaignWeekly, Cardinality(Of(CampaignOf[r]))) \in Nat
      /\ AtLeastZero(TenantWeekly, Cardinality(recent)) \in Nat
  BY RoomLeft, DiscoveryRunAssumption
<1>3. Limit(CampaignOf[r]) \in Nat
  BY <1>2, MinOfTwo DEF Limit
<1>4. Reservation(r) <= AtLeastZero(SpendCap, Spent) /\ Reservation(r) \in Nat
  BY <1>1, <1>3, MinOfTwo DEF Reservation
<1>5. SpendCap \in Nat /\ Spent \in Int
  BY EnteredFinite, DiscoveryRunAssumption
<1>6. QED
  BY <1>1, <1>4, <1>5 DEF AtLeastZero

(* One more entry, or one entry lowered. *)
LEMMA SpentAfterEntry ==
  ASSUME TypeOK, NEW r \in Run, ledger[r] = None, NEW n \in Nat,
         ledger' = [ledger EXCEPT ![r] = n]
  PROVE  Spent' = Spent + n
<1>1. Entered' = Entered \cup {r} /\ r \notin Entered /\ Entered' \ {r} = Entered
  BY DiscoveryRunAssumption DEF Entered, TypeOK
<1>2. /\ ledger'[r] = n /\ Ints(ledger, Entered) /\ Ints(ledger', Entered')
      /\ \A q \in Entered : ledger[q] = ledger'[q]
  BY <1>1 DEF TypeOK, Ints, Entered
<1>3. IsFiniteSet(Entered) /\ IsFiniteSet(Entered')
  BY <1>1, EnteredFinite, FS_AddElement
<1>4. SumOf(ledger, Entered) = SumOf(ledger', Entered) /\ SumOf(ledger, Entered) \in Int
  BY <1>2, <1>3, SumOfSame, SumOfInt
<1>5. SumOf(ledger', Entered') = ledger'[r] + SumOf(ledger', Entered)
  <2>1. r \in Entered' /\ IsFiniteSet(Entered') /\ Ints(ledger', Entered')
    BY <1>1, <1>2, <1>3
  <2>2. SumOf(ledger', Entered') = ledger'[r] + SumOf(ledger', Entered' \ {r})
    BY ONLY <2>1, SumOfSplit
  <2>3. QED
    BY <1>1, <2>2
<1>6. Spent' = SumOf(ledger', Entered')
  BY DEF Spent, SumOf, Entered, MapThenSumSet, MapThenFoldSet
<1>7. QED
  BY <1>2, <1>4, <1>5, <1>6, SpentIsSum

LEMMA SpentAfterSettling ==
  ASSUME TypeOK, NEW r \in Run, ledger[r] # None, NEW n \in Nat, n <= ledger[r],
         ledger' = [ledger EXCEPT ![r] = n]
  PROVE  Spent' <= Spent /\ Spent' \in Int
<1>1. Entered' = Entered /\ r \in Entered
  BY DiscoveryRunAssumption DEF Entered, TypeOK
<1>2. /\ ledger'[r] = n /\ ledger[r] \in Nat
      /\ Ints(ledger, Entered) /\ Ints(ledger', Entered)
      /\ \A q \in Entered \ {r} : ledger[q] = ledger'[q]
  BY <1>1 DEF TypeOK, Ints, Entered
<1>3. SumOf(ledger', Entered) = SumOf(ledger, Entered) + (ledger'[r] - ledger[r])
  <2>1. /\ r \in Entered /\ IsFiniteSet(Entered)
        /\ Ints(ledger, Entered) /\ Ints(ledger', Entered)
        /\ \A q \in Entered \ {r} : ledger[q] = ledger'[q]
    BY <1>1, <1>2, EnteredFinite
  <2>2. QED
    BY ONLY <2>1, SumOfChanged
<1>4. Spent' = SumOf(ledger', Entered')
  BY DEF Spent, SumOf, Entered, MapThenSumSet, MapThenFoldSet
<1>5. Spent = SumOf(ledger, Entered) /\ Spent \in Int
  BY SpentIsSum, EnteredFinite
<1>6. QED
  BY <1>1, <1>2, <1>3, <1>4, <1>5

(* The reservations of all runs together stay within the spend cap, for any number of runs
   and workers: each is made from the sum of the others, and settling only lowers one. *)
THEOREM Spending == Spec => []SpendCapHolds
<1>1. ASSUME Init PROVE SpendCapHolds
  <2>1. Entered = {}
    BY <1>1 DEF Init, Entered
  <2>2. QED
    BY <2>1, SpentIsSum, SumOfNothing, DiscoveryRunAssumption DEF SpendCapHolds
<1>2. TypeInv /\ SpendCapHolds /\ [Next]_vars => SpendCapHolds'
  <2> SUFFICES ASSUME TypeInv, SpendCapHolds, [Next]_vars PROVE SpendCapHolds'
    OBVIOUS
  <2>0. TypeOK /\ SpendCap \in Nat /\ Spent \in Int
    BY EnteredFinite, DiscoveryRunAssumption DEF TypeInv
  <2>1. CASE ledger' = ledger
    <3>1. Entered' = Entered
      BY <2>1 DEF Entered
    <3>2. Spent' = SumOf(ledger', Entered')
      BY DEF Spent, SumOf, Entered, MapThenSumSet, MapThenFoldSet
    <3>3. Spent' = Spent
      BY <2>1, <3>1, <3>2, SpentIsSum
    <3>4. QED
      BY <3>3 DEF SpendCapHolds
  <2>2. ASSUME NEW w \in Worker, Reserve(w) PROVE SpendCapHolds'
    <3> DEFINE r == cur[w]
               n == IF Limit(CampaignOf[r]) = 0 THEN 0 ELSE Reservation(r)
    <3>1. r \in Run /\ n \in Nat /\ Reservation(r) \in Nat
      BY <2>2, ReservationFits, DiscoveryRunAssumption DEF Reserve, TypeInv, AtWork
    <3>2. ledger' = IF n > 0 THEN [ledger EXCEPT ![r] = n] ELSE ledger
      BY <2>2 DEF Reserve
    <3>3. CASE n > 0 /\ ledger[r] = None
      <4>1. n = Reservation(r) /\ Spent + n <= SpendCap
        BY <2>0, <3>1, <3>3, FirstReservation
      <4> HIDE DEF n
      <4>2. Spent' = Spent + n
        BY <2>0, <3>1, <3>2, <3>3, SpentAfterEntry
      <4>3. QED
        BY <4>1, <4>2 DEF SpendCapHolds
    <3>4. CASE n > 0 /\ ledger[r] # None
      <4>1. n = ledger[r]
        BY <3>4 DEF Reservation
      <4> HIDE DEF n
      <4>2. ledger' = ledger
        BY <2>0, <3>1, <3>2, <3>4, <4>1 DEF TypeOK
      <4>3. QED
        BY <2>1, <4>2
    <3>5. CASE ~(n > 0)
      BY <2>1, <3>2, <3>5
    <3>6. QED
      BY <3>3, <3>4, <3>5
  <2>3. ASSUME NEW w \in Worker, Settle(w) PROVE SpendCapHolds'
    <3> DEFINE r == cur[w]
    <3>1. r \in Run /\ Settling(w)
      BY <2>3 DEF Settle, TypeInv, TypeOK, AtWork, Backed
    <3>2. CASE allowed[w] > 0 /\ ledger[r] > Delivered(r)
      <4>1. answer[r] \in Answer /\ ledger[r] # None /\ ledger[r] \in Nat
        BY <2>0, <3>1, <3>2 DEF Settling, TypeOK
      <4>2. Delivered(r) \in Nat
        BY <4>1, FoundIsFinite DEF Delivered, Answer
      <4>3. ledger' = [ledger EXCEPT ![r] = Delivered(r)]
        BY <2>3, <3>2 DEF Settle
      <4>4. Spent' <= Spent /\ Spent' \in Int
        <5> DEFINE n == Delivered(r)
        <5>1. /\ n \in Nat /\ n <= ledger[r] /\ ledger[r] # None
              /\ ledger' = [ledger EXCEPT ![r] = n] /\ r \in Run /\ TypeOK
          BY <2>0, <3>1, <3>2, <4>1, <4>2, <4>3
        <5> HIDE DEF n, r
        <5>2. QED
          BY ONLY <5>1, SpentAfterSettling
      <4>5. QED
        BY <2>0, <4>4 DEF SpendCapHolds
    <3>3. CASE ~(allowed[w] > 0 /\ ledger[r] > Delivered(r))
      BY <2>1, <2>3, <3>3 DEF Settle
    <3>4. QED
      BY <3>2, <3>3
  <2>4. ASSUME NEW w \in Worker, \/ CancelRun(w) \/ Finish(w) \/ FailRun(w) \/ Throws(w) \/ Crash(w)
                                 \/ Discover(w) \/ DiscoverFails(w)
                                 \/ \E r \in Run : Claim(w, r)
                                 \/ \E p \in Prospect : Enroll(w, p) \/ EnrollDummy(w, p) \/ PassOver(w, p)
        PROVE  ledger' = ledger
    BY <2>4 DEF CancelRun, Finish, FailRun, Throws, Crash, Claim, Enroll, EnrollDummy, PassOver,
                Considers, Discover, DiscoverFails
  <2>5. QED
    BY <2>1, <2>2, <2>3, <2>4, WorkersUntouched DEF Next, WorkerStep, vars
<1>3. QED
  BY <1>1, <1>2, Typed, PTL DEF Spec
=============================================================================
