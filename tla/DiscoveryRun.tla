---------------------------- MODULE DiscoveryRun ----------------------------
(***************************************************************************)
(* Discovery runs of one tenant: how AutomationRuns are queued             *)
(* (scheduleRuns and POST /api/automation-runs), claimed, executed and     *)
(* swept (processRun and tick of lib/worker.ts), how spend is reserved and *)
(* settled (lib/usage.ts), and how the found prospects are enrolled.  Each *)
(* database transaction is one step.                                       *)
(*                                                                         *)
(* Time is abstracted: leases, backoffs, the week of the enrollment caps   *)
(* and the 30-day cooldown are moved by LeaseExpires, BecomesDue,          *)
(* WeekPasses and Cools.  One prospect costs one unit of spend.            *)
(***************************************************************************)
EXTENDS Naturals, FiniteSets, FiniteSetsExt

CONSTANTS Worker, Campaign,
          Scheduled,       \* run keys that the scheduler creates
          Requested,       \* run keys (idempotency keys) that POST requests use
          CampaignOf,      \* [Run -> Campaign]
          Prospect,
          Dummy,           \* prospects of the dummy discovery mode
          MaxRunAttempts,  \* MAX_RUN_ATTEMPTS
          TenantWeekly, CampaignWeekly,  \* the weeklyProspectCaps
          SpendCap,        \* what the monthly spend cap and the plan still allow
          Event,           \* bound: the outside events an instance explores
          None

Run == Scheduled \cup Requested

(* What the gateway keeps for a key: the request and the result. *)
Answer == [limit : 0..SpendCap, found : SUBSET Prospect]

ASSUME DiscoveryRunAssumption ==
    /\ CampaignOf \in [Run -> Campaign]
    /\ Scheduled \cap Requested = {}
    /\ IsFiniteSet(Run) /\ IsFiniteSet(Prospect) /\ Dummy \subseteq Prospect
    /\ MaxRunAttempts \in Nat \ {0}
    /\ TenantWeekly \in Nat /\ CampaignWeekly \in Nat /\ SpendCap \in Nat
    /\ None \notin Nat /\ None \notin Run /\ None \notin Worker /\ None \notin Answer

VARIABLES
    status, attempts, token,  \* AutomationRun; "none" before the row exists
    leased,      \* runs whose leaseUntil is in the future
    due,         \* runs whose availableAt has passed
    ledger,      \* quantity of the run's UsageLedger reservation
    enrollment,  \* [Campaign -> [Prospect -> state of the Enrollment]]
    recent,      \* <<campaign, prospect>> enrolled within the week
    suppressed,  \* prospects on the suppression list
    active,      \* campaigns that may run (ACTIVE, not paused, tenant enabled)
    answer,      \* the gateway's stored result of the run's key
    pc, cur, tried, allowed, left,  \* each worker, tried being run.attempts
    api          \* the run a POST has read and is about to write

row     == <<status, attempts, token, leased, due>>
people  == <<enrollment, recent, suppressed>>
worker  == <<pc, cur, tried, allowed, left>>
vars    == <<row, ledger, people, active, answer, worker, api>>

RunStatus == {"none", "QUEUED", "RUNNING", "SUCCEEDED", "FAILED", "CANCELED"}

Terminal == {"SUCCEEDED", "FAILED", "CANCELED"}

Point == {"idle", "claimed", "discover", "enroll", "finish", "failed"}

TypeOK ==
    /\ status \in [Run -> RunStatus]
    /\ attempts \in [Run -> 0..MaxRunAttempts]
    /\ token \in [Run -> Worker \cup {None}]
    /\ leased \subseteq Run /\ due \subseteq Run
    /\ ledger \in [Run -> (0..SpendCap) \cup {None}]
    /\ enrollment \in [Campaign -> [Prospect -> {"none", "active", "stopped", "cool"}]]
    /\ recent \subseteq Campaign \X Prospect
    /\ suppressed \subseteq Prospect /\ active \subseteq Campaign
    /\ answer \in [Run -> Answer \cup {None}]
    /\ pc \in [Worker -> Point]
    /\ cur \in [Worker -> Run \cup {None}]
    /\ tried \in [Worker -> 0..MaxRunAttempts]
    /\ allowed \in [Worker -> 0..SpendCap]
    /\ left \in [Worker -> SUBSET Prospect]
    /\ api \in Run \cup {None}

Init ==
    /\ status = [r \in Run |-> "none"] /\ attempts = [r \in Run |-> 0]
    /\ token = [r \in Run |-> None] /\ leased = {} /\ due = {}
    /\ ledger = [r \in Run |-> None]
    /\ enrollment = [c \in Campaign |-> [p \in Prospect |-> "none"]]
    /\ recent = {} /\ suppressed = {} /\ active = Campaign
    /\ answer = [r \in Run |-> None]
    /\ pc = [w \in Worker |-> "idle"] /\ cur = [w \in Worker |-> None]
    /\ tried = [w \in Worker |-> 0] /\ allowed = [w \in Worker |-> 0]
    /\ left = [w \in Worker |-> {}]
    /\ api = None

-----------------------------------------------------------------------------
Pending(r) == status[r] \in {"QUEUED", "RUNNING"}

RunsOf(c) == {r \in Run : CampaignOf[r] = c}

(* A run (re)enters the queue with a full attempt budget. *)
Queue(r) == /\ status' = [status EXCEPT ![r] = "QUEUED"]
            /\ attempts' = [attempts EXCEPT ![r] = 0]
            /\ token' = [token EXCEPT ![r] = None]
            /\ leased' = leased \ {r}
            /\ due' = due \cup {r}

(* scheduleRuns: the compare-and-set on nextRunAt lets one scheduler create the
   run, and only while the campaign has none pending. *)
Schedule(r) ==
    /\ r \in Scheduled
    /\ status[r] = "none"
    /\ CampaignOf[r] \in active
    /\ \A o \in RunsOf(CampaignOf[r]) : ~Pending(o)
    /\ Queue(r)
    /\ UNCHANGED <<ledger, people, active, answer, worker, api>>

(* POST /api/automation-runs reads the run of its key, then writes in a second
   statement.  A RUNNING run is returned untouched. *)
PostRead(r) ==
    /\ api = None
    /\ r \in Requested
    /\ CampaignOf[r] \in active
    /\ status[r] # "RUNNING"
    /\ api' = r
    /\ UNCHANGED <<row, ledger, people, active, answer, worker>>

PostWrite ==
    /\ api # None
    /\ Queue(api)
    /\ api' = None
    /\ UNCHANGED <<ledger, people, active, answer, worker>>

-----------------------------------------------------------------------------
GoTo(w, p) == pc' = [pc EXCEPT ![w] = p]

(* The worker is done with its run. *)
Drop(w) == /\ GoTo(w, "idle")
           /\ cur' = [cur EXCEPT ![w] = None]
           /\ tried' = [tried EXCEPT ![w] = 0]
           /\ allowed' = [allowed EXCEPT ![w] = 0]
           /\ left' = [left EXCEPT ![w] = {}]

(* Mutant: the row is written whoever holds it. *)
IfHeld_Anyone(w, s) ==
    /\ status' = [status EXCEPT ![cur[w]] = s]
    /\ leased' = leased \ {cur[w]}
    /\ token' = [token EXCEPT ![cur[w]] = None]

(* A write of the run row guarded by the lease token: it is lost, silently, when
   another claim has taken the run over. *)
IfHeld(w, s) ==
    LET r == cur[w] IN
    IF token[r] = w
    THEN /\ status' = [status EXCEPT ![r] = s]
         /\ leased' = leased \ {r}
         /\ token' = IF s = "CANCELED" THEN token ELSE [token EXCEPT ![r] = None]
    ELSE UNCHANGED <<status, leased, token>>

(* Mutant: no take-over of a lapsed lease. *)
Claimable_QueuedOnly(r) == attempts[r] < MaxRunAttempts /\ status[r] = "QUEUED" /\ r \in due

(* The claim: one statement, rows locked by others skipped. *)
Claimable(r) == /\ attempts[r] < MaxRunAttempts
                /\ \/ status[r] = "QUEUED" /\ r \in due
                   \/ status[r] = "RUNNING" /\ r \notin leased

Claim(w, r) ==
    /\ pc[w] = "idle"
    /\ Claimable(r)
    /\ status' = [status EXCEPT ![r] = "RUNNING"]
    /\ attempts' = [attempts EXCEPT ![r] = @ + 1]
    /\ token' = [token EXCEPT ![r] = w]
    /\ leased' = leased \cup {r}
    /\ GoTo(w, "claimed")
    /\ cur' = [cur EXCEPT ![w] = r]
    /\ tried' = [tried EXCEPT ![w] = attempts[r] + 1]
    /\ UNCHANGED <<due, ledger, people, active, answer, allowed, left, api>>

CancelRun(w) ==
    /\ pc[w] = "claimed"
    /\ CampaignOf[cur[w]] \notin active
    /\ IfHeld(w, "CANCELED")
    /\ Drop(w)
    /\ UNCHANGED <<attempts, due, ledger, people, active, answer, api>>

(* The room left by the weekly caps, and the spend already reserved. *)
Of(c) == {e \in recent : e[1] = c}

AtLeastZero(n, m) == IF m \in 0..n THEN n - m ELSE 0

Limit(c) == Min({AtLeastZero(CampaignWeekly, Cardinality(Of(c))),
                 AtLeastZero(TenantWeekly, Cardinality(recent))})

Spent == MapThenSumSet(LAMBDA r : ledger[r], {r \in Run : ledger[r] # None})

(* Mutant: the spend of other runs is not counted. *)
Reservation_Alone(r) == IF ledger[r] # None
                        THEN ledger[r]
                        ELSE Min({Limit(CampaignOf[r]), SpendCap})

(* reserveProviderSpend, under the tenant lock: a retry reuses the reservation. *)
Reservation(r) == IF ledger[r] # None
                  THEN ledger[r]
                  ELSE Min({Limit(CampaignOf[r]), AtLeastZero(SpendCap, Spent)})

Reserve(w) ==
    LET r == cur[w]
        n == IF Limit(CampaignOf[r]) = 0 THEN 0 ELSE Reservation(r) IN
    /\ pc[w] = "claimed"
    /\ CampaignOf[r] \in active
    /\ ledger' = IF n > 0 THEN [ledger EXCEPT ![r] = n] ELSE ledger
    /\ allowed' = [allowed EXCEPT ![w] = n]
    /\ GoTo(w, IF n > 0 THEN "discover" ELSE "enroll")
    /\ UNCHANGED <<row, people, active, answer, cur, tried, left, api>>

(* The gateway buys at most the requested number once per key and keeps the
   result; the same key with another limit is refused (422). *)
Buys(r, n, found) ==
    /\ found \subseteq Prospect /\ Cardinality(found) <= n
    /\ answer' = [answer EXCEPT ![r] = [limit |-> n, found |-> found]]

Discovered(w, found) == GoTo(w, "enroll") /\ left' = [left EXCEPT ![w] = found]

Discover(w) ==
    LET r == cur[w] IN
    /\ pc[w] = "discover"
    /\ \/ /\ answer[r] = None
          /\ \E found \in SUBSET Prospect :
                Buys(r, allowed[w], found) /\ Discovered(w, found)
       \/ /\ answer[r] # None
          /\ answer[r].limit = allowed[w]
          /\ Discovered(w, answer[r].found)
          /\ UNCHANGED answer
    /\ UNCHANGED <<row, ledger, people, active, cur, tried, allowed, api>>

(* A refusal, a timeout or an outage; the purchase may have been made. *)
DiscoverFails(w) ==
    /\ pc[w] = "discover"
    /\ \/ UNCHANGED answer
       \/ /\ answer[cur[w]] = None
          /\ \E found \in SUBSET Prospect : Buys(cur[w], allowed[w], found)
    /\ GoTo(w, "failed")
    /\ UNCHANGED <<row, ledger, people, active, cur, tried, allowed, left, api>>

-----------------------------------------------------------------------------
(* Mutants: the caps are only read before the purchase; the suppression list is
   not read again. *)
MayEnroll_Uncapped(w, p) ==
    /\ token[cur[w]] = w /\ status[cur[w]] = "RUNNING"
    /\ CampaignOf[cur[w]] \in active /\ p \notin suppressed
MayEnroll_Unchecked(w, p) ==
    /\ token[cur[w]] = w /\ status[cur[w]] = "RUNNING"
    /\ CampaignOf[cur[w]] \in active
    /\ Cardinality(recent) < TenantWeekly
    /\ Cardinality(Of(CampaignOf[cur[w]])) < CampaignWeekly

(* One transaction per prospect, under the tenant lock. *)
MayEnroll(w, p) ==
    LET r == cur[w]
        c == CampaignOf[r] IN
    /\ token[r] = w /\ status[r] = "RUNNING"
    /\ c \in active
    /\ p \notin suppressed
    /\ Cardinality(recent) < TenantWeekly
    /\ Cardinality(Of(c)) < CampaignWeekly

(* Mutant: only this campaign's enrollments are looked at. *)
Free_HereOnly(c, p) == enrollment[c][p] = "none"

(* One campaign owns a contact, with a cooldown after its sequence ends. *)
Free(c, p) == /\ enrollment[c][p] = "none"
              /\ \A o \in Campaign : enrollment[o][p] \in {"none", "cool"}

Considers(w, p) == /\ pc[w] = "enroll"
                   /\ p \in left[w]
                   /\ left' = [left EXCEPT ![w] = @ \ {p}]
                   /\ UNCHANGED <<row, ledger, suppressed, active, answer, pc, cur, tried,
                                  allowed, api>>

Enroll(w, p) ==
    LET c == CampaignOf[cur[w]] IN
    /\ Considers(w, p)
    /\ MayEnroll(w, p) /\ p \notin Dummy /\ Free(c, p)
    /\ enrollment' = [enrollment EXCEPT ![c][p] = "active"]
    /\ recent' = recent \cup {<<c, p>>}

(* A dummy prospect skips the cooldown: other campaigns stop, this one reopens,
   and an enrollment that existed keeps its creation time. *)
EnrollDummy(w, p) ==
    LET c == CampaignOf[cur[w]] IN
    /\ Considers(w, p)
    /\ MayEnroll(w, p) /\ p \in Dummy
    /\ enrollment' = [o \in Campaign |->
          [enrollment[o] EXCEPT ![p] = IF o = c THEN "active"
                                       ELSE IF @ = "active" THEN "stopped" ELSE @]]
    /\ recent' = IF enrollment[c][p] = "none" THEN recent \cup {<<c, p>>} ELSE recent

(* Not eligible, or refused by the transaction. *)
PassOver(w, p) ==
    /\ Considers(w, p)
    /\ UNCHANGED <<enrollment, recent>>

(* Mutant: settled to what was enrolled, not to what was bought. *)
Delivered_Enrolled(r) ==
    Cardinality({p \in answer[r].found : enrollment[CampaignOf[r]][p] = "active"})

Delivered(r) == Cardinality(answer[r].found)

(* settleProviderSpend lowers the reservation to what was delivered; it knows
   nothing of the lease. *)
Settle(w) ==
    LET r == cur[w] IN
    /\ pc[w] = "enroll"
    /\ left[w] = {}
    /\ ledger' = IF allowed[w] > 0 /\ ledger[r] > Delivered(r)
                 THEN [ledger EXCEPT ![r] = Delivered(r)]
                 ELSE ledger
    /\ GoTo(w, "finish")
    /\ UNCHANGED <<row, people, active, answer, cur, tried, allowed, left, api>>

Finish(w) ==
    /\ pc[w] = "finish"
    /\ IfHeld(w, "SUCCEEDED")
    /\ Drop(w)
    /\ UNCHANGED <<attempts, due, ledger, people, active, answer, api>>

(* An enrollment, the settlement or the last write fails. *)
Throws(w) ==
    /\ pc[w] \in {"claimed", "enroll", "finish"}
    /\ GoTo(w, "failed")
    /\ UNCHANGED <<row, ledger, people, active, answer, cur, tried, allowed, left, api>>

(* The catch block: a backoff, or the end after the last attempt. *)
FailRun(w) ==
    /\ pc[w] = "failed"
    /\ IfHeld(w, IF tried[w] >= MaxRunAttempts THEN "FAILED" ELSE "QUEUED")
    /\ due' = IF token[cur[w]] = w THEN due \ {cur[w]} ELSE due
    /\ Drop(w)
    /\ UNCHANGED <<attempts, ledger, people, active, answer, api>>

Crash(w) ==
    /\ pc[w] # "idle"
    /\ Drop(w)
    /\ UNCHANGED <<row, ledger, people, active, answer, api>>

-----------------------------------------------------------------------------
(* tick's sweepers.  Runs whose attempts are used up and that nobody can claim
   end; a QUEUED one cannot be found, the code sweeps it all the same. *)
Sweep(swept, s) ==
    /\ swept # {}
    /\ status' = [r \in Run |-> IF r \in swept THEN s ELSE status[r]]
    /\ UNCHANGED <<attempts, due, ledger, people, active, answer, worker, api>>

SweepExhausted ==
    LET over == {r \in Run : /\ attempts[r] >= MaxRunAttempts
                             /\ \/ status[r] = "RUNNING" /\ r \notin leased
                                \/ status[r] = "QUEUED"} IN
    /\ Sweep(over, "FAILED")
    /\ token' = [r \in Run |-> IF r \in over THEN None ELSE token[r]]
    /\ leased' = leased \ over

SweepInactive ==
    /\ Sweep({r \in Run : status[r] = "QUEUED" /\ CampaignOf[r] \notin active}, "CANCELED")
    /\ UNCHANGED <<token, leased>>

(* The clock. *)
LeaseExpires(r) ==
    /\ r \in leased
    /\ leased' = leased \ {r}
    /\ UNCHANGED <<status, attempts, token, due, ledger, people, active, answer, worker, api>>

BecomesDue(r) ==
    /\ status[r] = "QUEUED" /\ r \notin due
    /\ due' = due \cup {r}
    /\ UNCHANGED <<status, attempts, token, leased, ledger, people, active, answer, worker, api>>

WeekPasses ==
    /\ recent # {}
    /\ \E e \in recent : recent' = recent \ {e}
    /\ UNCHANGED <<row, ledger, enrollment, suppressed, active, answer, worker, api>>

Cools(c, p) ==
    /\ enrollment[c][p] = "stopped"
    /\ enrollment' = [enrollment EXCEPT ![c][p] = "cool"]
    /\ UNCHANGED <<row, ledger, recent, suppressed, active, answer, worker, api>>

(* The rest of the system: a sequence ends, a contact is suppressed, a campaign
   is paused or resumed. *)
Stops(c, p) ==
    /\ enrollment[c][p] = "active"
    /\ enrollment' = [enrollment EXCEPT ![c][p] = "stopped"]
    /\ UNCHANGED <<row, ledger, recent, suppressed, active, answer, worker, api>>

Suppress(p) ==
    /\ p \notin suppressed
    /\ suppressed' = suppressed \cup {p}
    /\ enrollment' = [c \in Campaign |->
          [enrollment[c] EXCEPT ![p] = IF @ = "none" THEN "none" ELSE "stopped"]]
    /\ UNCHANGED <<row, ledger, recent, active, answer, worker, api>>

Toggle(c) ==
    /\ active' = IF c \in active THEN active \ {c} ELSE active \cup {c}
    /\ UNCHANGED <<row, ledger, people, answer, worker, api>>

-----------------------------------------------------------------------------
WorkerStep(w) ==
    \/ CancelRun(w) \/ Reserve(w) \/ Discover(w) \/ DiscoverFails(w)
    \/ \E p \in Prospect : Enroll(w, p) \/ EnrollDummy(w, p) \/ PassOver(w, p)
    \/ Settle(w) \/ Finish(w) \/ Throws(w) \/ FailRun(w)

Sweepers == SweepExhausted \/ SweepInactive

Clock == \E r \in Run : LeaseExpires(r) \/ BecomesDue(r)

Outside ==
    \/ "post" \in Event /\ (PostWrite \/ \E r \in Run : PostRead(r))
    \/ "week" \in Event /\ WeekPasses
    \/ "toggle" \in Event /\ \E c \in Campaign : Toggle(c)
    \/ "suppress" \in Event /\ \E p \in Prospect : Suppress(p)
    \/ "stop" \in Event /\ \E c \in Campaign, p \in Prospect : Stops(c, p) \/ Cools(c, p)

Next ==
    \/ \E r \in Run : Schedule(r) \/ \E w \in Worker : Claim(w, r)
    \/ \E w \in Worker : WorkerStep(w) \/ Crash(w)
    \/ Sweepers
    \/ Clock
    \/ Outside

Spec == Init /\ [][Next]_vars

(* A running worker keeps stepping, ticks keep sweeping and the clock keeps moving;
   claims take the oldest run first, so none is passed over for ever. *)
Fairness ==
    /\ \A w \in Worker : WF_vars(WorkerStep(w))
    /\ \A r \in Run : /\ SF_vars(\E w \in Worker : Claim(w, r))
                      /\ WF_vars(LeaseExpires(r))
                      /\ WF_vars(BecomesDue(r))
    /\ WF_vars(SweepExhausted)

-----------------------------------------------------------------------------
(* The weekly caps of the tenant and of each campaign bound the enrollments of
   any week, with several workers enrolling at once from limits read earlier. *)
WeeklyCapsHold == /\ Cardinality(recent) <= TenantWeekly
                  /\ \A c \in Campaign : Cardinality(Of(c)) <= CampaignWeekly

(* One contact is owned by one campaign at a time ("one contact is owned by one
   campaign during a sequence", worker.ts:120), dummy prospects included. *)
OneOwner ==
    \A p \in Prospect : \A c, o \in Campaign :
        enrollment[c][p] = "active" /\ enrollment[o][p] = "active" => c = o

(* The reservations of all runs together stay within the spend cap: "the
   reservation is the hard cap" (worker.ts:70), and retries reserve nothing new. *)
SpendCapHolds == Spent <= SpendCap

(* What the gateway bought for a run stays covered by the run's ledger entry,
   through retries, settlements by workers that lost their lease, and requeues. *)
PurchasesCovered ==
    \A r \in Run : answer[r] # None =>
        ledger[r] # None /\ Cardinality(answer[r].found) <= ledger[r]

(* Nobody on the suppression list is enrolled by a run that found the address
   before it was suppressed. *)
SuppressedNotEnrolled ==
    \A p \in suppressed, c \in Campaign : enrollment[c][p] # "active"

(* A worker that comes back after its lease was taken over never reopens or
   rewrites a finished run; only a POST with the same key does. *)
FinishedStays ==
    [][\A r \in Run : status[r] \in Terminal /\ status'[r] # status[r] => api = r]_vars

(* No scheduled run blocks its campaign for ever: each one ends, whatever
   crashes, and whether or not its campaign stays active. *)
EveryRunEnds == \A r \in Scheduled : Pending(r) ~> status[r] \in Terminal

(* lib/usage.ts:8, "A retry of the same key reuses the original reservation (the
   provider call is idempotent on that key, so no repurchase)": a retry asks the
   gateway for what the first call asked for. *)
RetrySameRequest ==
    \A w \in Worker : pc[w] = "discover" /\ answer[cur[w]] # None
        => answer[cur[w]].limit = allowed[w]
=============================================================================
