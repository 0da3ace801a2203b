---------------------------- MODULE SenderHealth ----------------------------
(***************************************************************************)
(* The health of one sender (lib/senderHealth and the sender.health event  *)
(* of lib/webhooks).  Workers recompute it from DNS and from what bounced; *)
(* each reads the profile, looks up, measures and writes, and the write    *)
(* compares nothing.  A signed external event is written under the tenant  *)
(* lock.  Only HEALTHY sends.                                              *)
(***************************************************************************)
EXTENDS Naturals

CONSTANTS Worker, None

VARIABLES
    profile, \* DeliverabilityProfile: source ("none", "internal", "external"),
             \* status, age of lastCheckedAt ("new", "hour", "stale"), spf,
             \* looked (authCheckedAt is of the last six hours)
    bounced, \* bounces or complaints of the last 30 days reach a threshold
    spf,     \* what DNS says: "pass" or "fail"
    at, got  \* each worker: point, and what it has found

vars == <<profile, bounced, spf, at, got>>

Auth == {"pass", "fail", "unknown"}

TypeOK ==
    /\ profile \in [source : {"none", "internal", "external"},
                    status : {"none", "HEALTHY", "WATCHLIST", "BLOCKED"},
                    age : {"new", "hour", "stale"}, spf : Auth, looked : BOOLEAN]
    /\ bounced \in BOOLEAN /\ spf \in {"pass", "fail"}
    /\ at \in [Worker -> {"idle", "measure", "write"}]
    /\ \A w \in Worker : got[w] = None \/ got[w] \in [spf : Auth, cached : BOOLEAN, bounced : BOOLEAN]

Init ==
    /\ profile = [source |-> "none", status |-> "none", age |-> "stale",
                  spf |-> "unknown", looked |-> FALSE]
    /\ bounced = FALSE /\ spf = "pass"
    /\ at = [w \in Worker |-> "idle"] /\ got = [w \in Worker |-> None]

-----------------------------------------------------------------------------
(* Mutant: what was computed once is not computed again. *)
Fresh_Computed == profile.source = "internal" \/ (profile.source = "external" /\ profile.age # "stale")

(* An external event is left alone for 36 hours, an own result for 55 minutes. *)
Fresh == \/ profile.source = "external" /\ profile.age # "stale"
         \/ profile.source = "internal" /\ profile.age = "new"

(* checkDomainAuth, unless its last result is of the last six hours; a lookup may
   fail. *)
Look(w) ==
    /\ at[w] = "idle" /\ ~Fresh
    /\ \E s \in IF profile.looked THEN {profile.spf} ELSE {spf, "unknown"} :
          got' = [got EXCEPT ![w] = [spf |-> s, cached |-> profile.looked, bounced |-> FALSE]]
    /\ at' = [at EXCEPT ![w] = "measure"]
    /\ UNCHANGED <<profile, bounced, spf>>

(* measureSender. *)
Measure(w) ==
    /\ at[w] = "measure" /\ at' = [at EXCEPT ![w] = "write"]
    /\ got' = [got EXCEPT ![w].bounced = bounced]
    /\ UNCHANGED <<profile, bounced, spf>>

(* decideHealth: bounces and complaints block, a missing record only waits, one that
   could not be looked up does neither. *)
Decide(m) == IF m.bounced THEN "BLOCKED" ELSE IF m.spf = "fail" THEN "WATCHLIST" ELSE "HEALTHY"

Write(w) ==
    /\ at[w] = "write" /\ at' = [at EXCEPT ![w] = "idle"]
    /\ profile' = [source |-> "internal", status |-> Decide(got[w]), age |-> "new",
                   spf |-> got[w].spf, looked |-> got[w].cached => profile.looked]
    /\ got' = [got EXCEPT ![w] = None]
    /\ UNCHANGED <<bounced, spf>>

Stops(w) == /\ at[w] # "idle" /\ at' = [at EXCEPT ![w] = "idle"]
            /\ got' = [got EXCEPT ![w] = None] /\ UNCHANGED <<profile, bounced, spf>>

(* A sender.health event newer than the last check; its own rates may block. *)
External(s) ==
    /\ profile' = [profile EXCEPT !.source = "external", !.status = s, !.age = "new"]
    /\ UNCHANGED <<bounced, spf, at, got>>

(* A complaint blocks the sender at once; it is counted as one only if the person was
   not suppressed before. *)
Complaint ==
    /\ profile' = IF profile.source = "none" THEN profile ELSE [profile EXCEPT !.status = "BLOCKED"]
    /\ bounced' \in {bounced, TRUE}
    /\ UNCHANGED <<spf, at, got>>

(* Bounces and complaints get old, DNS records come and go. *)
Bounce == bounced' = ~bounced /\ UNCHANGED <<profile, spf, at, got>>
Record == /\ spf' = IF spf = "pass" THEN "fail" ELSE "pass"
          /\ UNCHANGED <<profile, bounced, at, got>>

(* An hour, 36 hours; six hours since DNS was looked up. *)
Ages == /\ profile.age # "stale"
        /\ profile' = [profile EXCEPT !.age = IF @ = "new" THEN "hour" ELSE "stale"]
        /\ UNCHANGED <<bounced, spf, at, got>>

LookAges == /\ profile.looked /\ profile' = [profile EXCEPT !.looked = FALSE]
            /\ UNCHANGED <<bounced, spf, at, got>>

Works(w) == Measure(w) \/ Write(w)

Next ==
    \/ Complaint \/ Bounce \/ Record \/ Ages \/ LookAges
    \/ \E s \in {"HEALTHY", "WATCHLIST", "BLOCKED"} : External(s)
    \/ \E w \in Worker : Look(w) \/ Works(w) \/ Stops(w)

Spec == Init /\ [][Next]_vars

(* Time passes, ticks go on, and some of them finish. *)
Fairness == /\ WF_vars(Ages)
                /\ \A w \in Worker : WF_vars(Look(w)) /\ SF_vars(Measure(w)) /\ SF_vars(Write(w))

-----------------------------------------------------------------------------
(* A sender whose mail keeps bouncing stops sending, unless an external feed speaks
   for it, although a worker may write what it measured before (senderHealth.ts:87). *)
TroubleStops ==
    <>[](bounced /\ profile.source # "external") => <>[](profile.status = "BLOCKED")

(* senderHealth.ts:76: an external event newer than 36 hours is left alone. *)
ExternalLeftAlone ==
    [][profile.source = "external" /\ profile.age # "stale" => profile'.source = "external"]_vars
=============================================================================
