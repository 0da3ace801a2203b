------------------------------- MODULE Alerts -------------------------------
(***************************************************************************)
(* One operational alert and the workers that deliver it (lib/alerts), and *)
(* the rule that pauses campaigns when it is raised (lib/automationRules). *)
(* A condition that lasts is raised again on every tick: the row is there, *)
(* the rule is applied again.  Delivery is claimed by the attempts read    *)
(* and recorded by the token of the claim.                                 *)
(***************************************************************************)
EXTENDS Naturals

CONSTANTS Worker, MaxAttempts, None

VARIABLES
    alert,    \* OperationalAlert: exists, attempts, token, lease ("free", "held"
              \* or "over"), due (nextAttemptAt has come), delivered, acknowledged
    problem,  \* the condition lasts
    campaign, \* Campaign.status
    at, got,  \* each worker: point, and the attempts it read
    received  \* history: deliveries the receiver has accepted

vars == <<alert, problem, campaign, at, got, received>>

TypeOK ==
    /\ alert \in [exists : BOOLEAN, attempts : 0..MaxAttempts, token : Worker \cup {None},
                  lease : {"free", "held", "over"}, due : BOOLEAN, delivered : BOOLEAN,
                  acknowledged : BOOLEAN]
    /\ campaign \in {"ACTIVE", "PAUSED"} /\ problem \in BOOLEAN
    /\ at \in [Worker -> {"idle", "claim", "post", "ok", "failed"}]
    /\ got \in [Worker -> 0..MaxAttempts]
    /\ received \in 0..MaxAttempts

Init ==
    /\ alert = [exists |-> FALSE, attempts |-> 0, token |-> None, lease |-> "free",
                due |-> TRUE, delivered |-> FALSE, acknowledged |-> FALSE]
    /\ problem = FALSE /\ campaign = "ACTIVE"
    /\ at = [w \in Worker |-> "idle"] /\ got = [w \in Worker |-> 0] /\ received = 0

Goes(w, point) == at' = [at EXCEPT ![w] = point]

-----------------------------------------------------------------------------
Breaks  == problem' = ~problem /\ UNCHANGED <<alert, campaign, at, got, received>>

(* applyRulesForAlert, with the rule that pauses on. *)
RuleApplies == campaign' = "PAUSED"

(* raiseAlert, on every tick while the condition lasts. *)
Raise ==
    /\ problem /\ RuleApplies
    /\ alert' = [alert EXCEPT !.exists = TRUE]
    /\ UNCHANGED <<problem, at, got, received>>

Activate == campaign' = "ACTIVE" /\ UNCHANGED <<alert, problem, at, got, received>>

Acknowledge == /\ alert.exists /\ alert' = [alert EXCEPT !.acknowledged = TRUE]
               /\ UNCHANGED <<problem, campaign, at, got, received>>

-----------------------------------------------------------------------------
Free == alert.lease # "held"

Find(w) ==
    /\ at[w] = "idle" /\ Goes(w, "claim")
    /\ alert.exists /\ ~alert.delivered /\ ~alert.acknowledged
    /\ alert.attempts < MaxAttempts /\ alert.due /\ Free
    /\ got' = [got EXCEPT ![w] = alert.attempts]
    /\ UNCHANGED <<alert, problem, campaign, received>>

(* Mutant: the claim does not compare the attempts it read. *)
Unclaimed_LeaseOnly(w) == Free

Unclaimed(w) == Free /\ alert.attempts = got[w]

Claim(w) ==
    /\ at[w] = "claim" /\ got' = [got EXCEPT ![w] = 0]
    /\ IF Unclaimed(w)
         THEN /\ alert' = [alert EXCEPT !.attempts = @ + 1, !.token = w, !.lease = "held"]
              /\ Goes(w, "post")
         ELSE Goes(w, "idle") /\ UNCHANGED alert
    /\ UNCHANGED <<problem, campaign, received>>

(* The receiver accepts or not, and its answer may be lost. *)
Post(w) ==
    /\ at[w] = "post"
    /\ \/ received' = received + 1 /\ Goes(w, "ok")
       \/ received' \in {received, received + 1} /\ Goes(w, "failed")
    /\ UNCHANGED <<alert, problem, campaign, got>>

Record(w) ==
    /\ at[w] \in {"ok", "failed"} /\ Goes(w, "idle")
    /\ alert' = IF alert.token # w THEN alert
                ELSE IF at[w] = "ok" THEN [alert EXCEPT !.delivered = TRUE, !.lease = "free"]
                ELSE [alert EXCEPT !.lease = "free", !.due = FALSE]
    /\ UNCHANGED <<problem, campaign, got, received>>

Crash(w) == /\ at[w] # "idle" /\ Goes(w, "idle") /\ got' = [got EXCEPT ![w] = 0]
            /\ UNCHANGED <<alert, problem, campaign, received>>

(* A minute, and the request to the receiver gives up after ten seconds: only the
   lease of a worker that died runs out. *)
LeaseEnds == /\ alert.lease = "held" /\ at[alert.token] \in {"idle", "claim"}
             /\ alert' = [alert EXCEPT !.lease = "over"]
             /\ UNCHANGED <<problem, campaign, at, got, received>>

BackoffEnds == /\ ~alert.due /\ alert' = [alert EXCEPT !.due = TRUE]
               /\ UNCHANGED <<problem, campaign, at, got, received>>

Next ==
    \/ Breaks \/ Raise \/ Activate \/ Acknowledge \/ LeaseEnds \/ BackoffEnds
    \/ \E w \in Worker : Find(w) \/ Claim(w) \/ Post(w) \/ Record(w) \/ Crash(w)

Spec == Init /\ [][Next]_vars

-----------------------------------------------------------------------------
(* Once a delivery is recorded no other begins, although workers look at once and die
   between delivering and recording (alerts.ts:50). *)
QuietOnceDelivered == alert.delivered => \A w \in Worker : at[w] # "post"
=============================================================================
