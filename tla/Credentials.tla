----------------------------- MODULE Credentials ----------------------------
(***************************************************************************)
(* A tenant's vendor keys (lib/providerCredentials,                        *)
(* api/integrations/providers): saved in LeadMelo's database, held by the  *)
(* gateway in memory only.  A save is written, read back and pushed; a     *)
(* call that the gateway refuses for want of a key pushes what is saved    *)
(* and is made once more.  A push that fails is reported or swallowed.     *)
(***************************************************************************)
EXTENDS Naturals

CONSTANTS Admin,    \* people saving at once
          Caller,   \* workers calling the gateway
          Vendor,   \* "apollo" for discovery, "hunter" for verification
          Key,      \* vendor keys
          MaxSave, MaxFault, \* bounds
          None

VARIABLES
    saved,   \* TenantSetting: the key of each vendor, or None
    token,   \* its bearer token: "known" to the gateway, "unknown" or None
    held,    \* the gateway's binding: key of each vendor, or None
    at, got, \* each process: point, and the keys it read
    for,     \* each caller: the vendor its work needs
    used,    \* history: the key the gateway used for the call, or None
    stale,   \* history: a save was going on when the call began, or touched the
             \* vendor's key since
    saves, faults

vars == <<saved, token, held, at, got, for, used, stale, saves, faults>>

Process == Admin \cup Caller
Keys == [Vendor -> Key \cup {None}]
NoKeys == [v \in Vendor |-> None]

TypeOK ==
    /\ saved \in Keys /\ held \in Keys /\ got \in [Process -> Keys]
    /\ token \in {"known", "unknown", None}
    /\ at \in [Process -> {"idle", "load", "push", "call", "again", "answered", "refused"}]
    /\ for \in [Caller -> Vendor] /\ used \in [Caller -> Key \cup {None}]
    /\ stale \in [Caller -> BOOLEAN]
    /\ saves \in 0..MaxSave /\ faults \in 0..MaxFault

Init ==
    /\ saved = NoKeys /\ token = "known" /\ held = NoKeys
    /\ at = [p \in Process |-> "idle"] /\ got = [p \in Process |-> NoKeys]
    /\ for \in [Caller -> Vendor]
    /\ used = [c \in Caller |-> None] /\ stale = [c \in Caller |-> FALSE]
    /\ saves = 0 /\ faults = 0

Goes(p, point) == at' = [at EXCEPT ![p] = point]

-----------------------------------------------------------------------------
(* PUT: some of the values are replaced or cleared. *)
Save(a) ==
    /\ at[a] = "idle" /\ saves < MaxSave /\ saves' = saves + 1
    /\ \/ \E v \in Vendor, k \in Key \cup {None} :
             /\ k # saved[v] /\ saved' = [saved EXCEPT ![v] = k]
             /\ stale' = [c \in Caller |-> stale[c] \/ for[c] = v]
             /\ UNCHANGED token
       \/ \E t \in {"known", "unknown", None} :
             t # token /\ token' = t /\ UNCHANGED <<saved, stale>>
    /\ Goes(a, "load")
    /\ UNCHANGED <<held, got, for, used, faults>>

(* loadProviderSecrets; without a token nothing is pushed. *)
Load(p) ==
    /\ at[p] = "load"
    /\ IF token = None
         THEN Goes(p, IF p \in Admin THEN "idle" ELSE "again") /\ UNCHANGED got
         ELSE Goes(p, "push") /\ got' = [got EXCEPT ![p] = saved]
    /\ UNCHANGED <<saved, token, held, for, used, stale, saves, faults>>

(* PUT /credentials replaces both keys, null clears; 401 for a token it does not
   know.  A process that fails to push goes on as if it had. *)
Push(p) ==
    /\ at[p] = "push"
    /\ \/ token = "known" /\ held' = got[p] /\ UNCHANGED faults
       \/ token # "known" /\ UNCHANGED <<held, faults>>
       \/ faults < MaxFault /\ faults' = faults + 1 /\ UNCHANGED held
    /\ Goes(p, IF p \in Admin THEN "idle" ELSE "again")
    /\ got' = [got EXCEPT ![p] = NoKeys]
    /\ UNCHANGED <<saved, token, for, used, stale, saves>>

(* The gateway restarts: its keys were in memory. *)
Restart ==
    /\ faults < MaxFault /\ faults' = faults + 1 /\ held' = NoKeys
    /\ UNCHANGED <<saved, token, at, got, for, used, stale, saves>>

-----------------------------------------------------------------------------
(* processRun and processReverification begin only with a token. *)
Begin(c) ==
    /\ at[c] \in {"idle", "answered", "refused"} /\ token # None
    /\ Goes(c, "call")
    /\ used' = [used EXCEPT ![c] = None]
    /\ stale' = [stale EXCEPT ![c] = \E a \in Admin : at[a] # "idle"]
    /\ UNCHANGED <<saved, token, held, got, for, saves, faults>>

(* Mutant: a refused call is not followed by a push. *)
Recovery_None(c) == "refused"

(* 409 the first time: push and call again. *)
Recovery(c) == IF at[c] = "call" THEN "load" ELSE "refused"

Call(c) ==
    /\ at[c] \in {"call", "again"}
    /\ \/ /\ token = "known" /\ held[for[c]] # None
          /\ used' = [used EXCEPT ![c] = held[for[c]]]
          /\ Goes(c, "answered") /\ UNCHANGED faults
       \/ token = "known" /\ held[for[c]] = None /\ Goes(c, Recovery(c)) /\ UNCHANGED <<used, faults>>
       \/ token # "known" /\ Goes(c, "refused") /\ UNCHANGED <<used, faults>>
       \/ faults < MaxFault /\ faults' = faults + 1 /\ Goes(c, "refused") /\ UNCHANGED used
    /\ UNCHANGED <<saved, token, held, got, for, stale, saves>>

Works(p) == Load(p) \/ Push(p) \/ (p \in Caller /\ Call(p))

Next ==
    \/ Restart
    \/ \E a \in Admin : Save(a)
    \/ \E c \in Caller : Begin(c) \/ Call(c)
    \/ \E p \in Process : Load(p) \/ Push(p)

Spec == Init /\ [][Next]_vars

(* Calls return or time out, and there is always work to retry. *)
Fairness == /\ \A p \in Process : WF_vars(Works(p))
                /\ \A c \in Caller : WF_vars(Begin(c))

-----------------------------------------------------------------------------
(* A saved key serves: while it is saved and the token good, work is done again and
   again, whatever was lost, restarted or pushed out of date before
   (providerCredentials.ts:86). *)
SavedKeyServes ==
    \A c \in Caller : <>[](saved[for[c]] # None /\ token = "known") => []<>(at[c] = "answered")

(* providerCredentials.ts:74: re-pushing "makes the Settings page authoritative even
   when the gateway ... was unreachable at save time": with nobody saving, work uses
   the key that is saved. *)
SettingsAuthoritative ==
    \A c \in Caller :
        at[c] = "answered" /\ ~stale[c] /\ (\A a \in Admin : at[a] = "idle")
            => used[c] = saved[for[c]]
=============================================================================
