-------------------------------- MODULE Plans --------------------------------
(***************************************************************************)
(* The limits of a tenant's plan (lib/entitlements.ts, lib/plans.ts) and   *)
(* the calls they bound: activating campaigns, creating experiments,       *)
(* sending, buying prospects.  Enforcement is on.  Two limits are looked   *)
(* at by web requests, outside the transaction that uses them; the emails  *)
(* are counted when they are sent and looked at when they are claimed; the *)
(* prospects are looked at and reserved under the tenant's lock.           *)
(***************************************************************************)
EXTENDS Integers, FiniteSets, FiniteSetsExt

CONSTANTS Plan, Limits,      \* Limits[p]: a record of numbers, Unlimited for none
          Unlimited,
          Call,              \* web requests in progress
          Campaign, SenderOf, Experiment,
          Worker,            \* workers that send
          Run, MaxRequested, \* discovery runs, and how many prospects one may ask for
          MaxEmails,         \* bound on the emails of a month
          None

VARIABLES
    plan, late,   \* the trial's days are over
    suspended,
    active,       \* active campaigns
    experiment,   \* the status of each experiment, or None
    emails,       \* EMAIL_SENT entries of the month
    sending,      \* workers between the check and the entry
    reserved,     \* the DISCOVERY_PROSPECT entry of each run, or None
    asked,        \* what a call was allowed and has not done yet, or None
    changed       \* history: the plan was changed by the operator

vars == <<plan, late, suspended, active, experiment, emails, sending, reserved, asked,
          changed>>

Status == {"DRAFT", "RUNNING", "STOPPED", "CONCLUDED"}
Wish == (Campaign \X {"activate"}) \union (Experiment \X {"create"})

Init ==
    /\ plan = "FREE" /\ late = FALSE /\ suspended = FALSE
    /\ active = {} /\ experiment = [x \in Experiment |-> None]
    /\ emails = 0 /\ sending = {}
    /\ reserved = [r \in Run |-> None]
    /\ asked = [u \in Call |-> None] /\ changed = FALSE

TypeOK ==
    /\ plan \in Plan /\ late \in BOOLEAN /\ suspended \in BOOLEAN
    /\ active \subseteq Campaign
    /\ experiment \in [Experiment -> Status \union {None}]
    /\ emails \in Nat /\ sending \subseteq Worker
    /\ reserved \in [Run -> (0..MaxRequested) \union {None}]
    /\ asked \in [Call -> Wish \union {None}] /\ changed \in BOOLEAN
-----------------------------------------------------------------------------
Over(used, limit) == limit # Unlimited /\ used >= limit
Limit == Limits[plan]
TrialExpired == plan = "FREE" /\ late

(* usageNow *)
Senders == {SenderOf[c] : c \in active}
Open == {x \in Experiment : experiment[x] \in {"DRAFT", "RUNNING"}}
Prospects == MapThenSumSet(LAMBDA r : IF reserved[r] = None THEN 0 ELSE reserved[r], Run)

(* assertCanActivateCampaign *)
AskActivate(u, c) ==
    /\ asked[u] = None /\ ~ TrialExpired
    /\ \/ c \in active
       \/ /\ ~ Over(Cardinality(active), Limit.campaigns)
          /\ SenderOf[c] \in Senders \/ ~ Over(Cardinality(Senders), Limit.senders)
    /\ asked' = [asked EXCEPT ![u] = <<c, "activate">>]
    /\ UNCHANGED <<plan, late, suspended, active, experiment, emails, sending, reserved,
                   changed>>

(* PATCH /api/campaigns goes on to write the status. *)
Activate(u, c) ==
    /\ asked[u] = <<c, "activate">>
    /\ active' = active \union {c}
    /\ asked' = [asked EXCEPT ![u] = None]
    /\ UNCHANGED <<plan, late, suspended, experiment, emails, sending, reserved, changed>>

Pause(c) ==
    /\ c \in active /\ active' = active \ {c}
    /\ UNCHANGED <<plan, late, suspended, experiment, emails, sending, reserved, asked,
                   changed>>

(* assertCanCreateExperiment, which does not look at the trial *)
AskExperiment(u, x) ==
    /\ asked[u] = None /\ experiment[x] = None /\ \A v \in Call : asked[v] # <<x, "create">>
    /\ Limit.experiments # 0 /\ ~ Over(Cardinality(Open), Limit.experiments)
    /\ asked' = [asked EXCEPT ![u] = <<x, "create">>]
    /\ UNCHANGED <<plan, late, suspended, active, experiment, emails, sending, reserved,
                   changed>>

CreateExperiment(u, x) ==
    /\ asked[u] = <<x, "create">>
    /\ experiment' = [experiment EXCEPT ![x] = "DRAFT"]
    /\ asked' = [asked EXCEPT ![u] = None]
    /\ UNCHANGED <<plan, late, suspended, active, emails, sending, reserved, changed>>

(* setExperimentStatus and the evaluation: no limit is looked at. *)
MoveExperiment(x) ==
    /\ \/ experiment[x] \in {"DRAFT", "STOPPED"} /\ experiment' = [experiment EXCEPT ![x] = "RUNNING"]
       \/ experiment[x] = "RUNNING"
          /\ \E s \in {"STOPPED", "CONCLUDED"} : experiment' = [experiment EXCEPT ![x] = s]
    /\ UNCHANGED <<plan, late, suspended, active, emails, sending, reserved, asked, changed>>
-----------------------------------------------------------------------------
(* sendAllowance, at the claim of a sequence message *)
SendAllowed == ~ TrialExpired /\ ~ Over(emails, Limit.emails)

ClaimEmail(w) ==
    /\ w \notin sending /\ ~ suspended /\ SendAllowed /\ emails < MaxEmails
    /\ sending' = sending \union {w}
    /\ UNCHANGED <<plan, late, suspended, active, experiment, emails, reserved, asked,
                   changed>>

(* The completion writes the entry; or the attempt fails and there is none. *)
EndEmail(w, sent) ==
    /\ w \in sending /\ sending' = sending \ {w}
    /\ emails' = IF sent THEN emails + 1 ELSE emails
    /\ UNCHANGED <<plan, late, suspended, active, experiment, reserved, asked, changed>>

(* prospectAllowance *)
Remaining ==
    IF TrialExpired THEN 0
    ELSE IF Limit.prospects = Unlimited THEN MaxRequested
    ELSE Max({0, Limit.prospects - Prospects})

(* Mutant: every run is granted the whole allowance. *)
Granted_Alone(wanted) == IF Limit.prospects = Unlimited THEN wanted ELSE Min({wanted, Limit.prospects})

(* The smaller of what is asked for and what remains. *)
Granted(wanted) == Min({wanted, Remaining})

(* reserveProviderSpend: a retry finds its entry, nothing is entered for nothing. *)
Reserve(r, wanted) ==
    /\ ~ suspended /\ reserved[r] = None /\ Granted(wanted) > 0
    /\ reserved' = [reserved EXCEPT ![r] = Granted(wanted)]
    /\ UNCHANGED <<plan, late, suspended, active, experiment, emails, sending, asked,
                   changed>>

(* settleProviderSpend only lowers. *)
Settle(r, delivered) ==
    /\ reserved[r] # None /\ delivered < reserved[r]
    /\ reserved' = [reserved EXCEPT ![r] = delivered]
    /\ UNCHANGED <<plan, late, suspended, active, experiment, emails, sending, asked,
                   changed>>
-----------------------------------------------------------------------------
(* The platform operator, and the calendar. *)
SetPlan(p) ==
    /\ p # plan /\ plan' = p /\ changed' = TRUE
    /\ UNCHANGED <<late, suspended, active, experiment, emails, sending, reserved, asked>>

Suspend ==
    /\ suspended' = ~ suspended
    /\ UNCHANGED <<plan, late, active, experiment, emails, sending, reserved, asked,
                   changed>>

TrialEnds ==
    /\ ~ late /\ late' = TRUE
    /\ UNCHANGED <<plan, suspended, active, experiment, emails, sending, reserved, asked,
                   changed>>

(* Nothing of the month before is counted; the names of its runs are used again. *)
MonthPasses ==
    /\ emails' = 0 /\ reserved' = [r \in Run |-> None]
    /\ UNCHANGED <<plan, late, suspended, active, experiment, sending, asked, changed>>

Next ==
    \/ \E u \in Call :
         \/ \E c \in Campaign : AskActivate(u, c) \/ Activate(u, c)
         \/ \E x \in Experiment : AskExperiment(u, x) \/ CreateExperiment(u, x)
    \/ \E c \in Campaign : Pause(c)
    \/ \E x \in Experiment : MoveExperiment(x)
    \/ \E w \in Worker : ClaimEmail(w) \/ \E sent \in BOOLEAN : EndEmail(w, sent)
    \/ \E r \in Run, n \in 0..MaxRequested : Reserve(r, n) \/ Settle(r, n)
    \/ \E p \in Plan : SetPlan(p)
    \/ Suspend \/ TrialEnds \/ MonthPasses

Spec == Init /\ [][Next]_vars
-----------------------------------------------------------------------------
Within(used, limit, slack) == limit = Unlimited \/ used <= limit + slack

(* While the plan stays, the limits that are looked at without the lock are overrun by
   calls that overlap and by messages under way, and by no more than them; the prospects,
   reserved under the lock, never are (entitlements.ts:12, usage.ts:23). *)
OverrunByOverlapOnly ==
    ~ changed =>
        /\ Within(Cardinality(active), Limit.campaigns, Cardinality(Call) - 1)
        /\ Within(Cardinality(Senders), Limit.senders, Cardinality(Call) - 1)
        /\ Within(emails, Limit.emails, Cardinality(Worker) - 1)
        /\ Within(Prospects, Limit.prospects, 0)

(* Refuted without any overlap: a stopped experiment is started again. *)
ExperimentsWithinPlan ==
    ~ changed => Within(Cardinality(Open), Limit.experiments, Cardinality(Call) - 1)
=============================================================================
