------------------------------- MODULE Throttle ------------------------------
(***************************************************************************)
(* The budgets of the public endpoints (lib/auth rateLimit, publicGuard,   *)
(* forgot-password, lib/passwordRecovery): a call is counted against its   *)
(* caller, then against everybody, then against the address it names, each *)
(* in a row of the current hour, and the hour may end between two counts.  *)
(* The clock runs in half hours.  Contact requests pass the first two      *)
(* counts only.                                                            *)
(***************************************************************************)
EXTENDS Integers, FiniteSets

CONSTANTS
    Call,       \* calls, each made once
    Caller, Address,
    Registered, \* addresses of accounts that may sign in
    PerCaller, Total, PerAddress, \* RESET_REQUESTS_*
    MaxClock,   \* bounds time
    None

VARIABLES
    clock,   \* half hours gone by
    at,      \* each call: "idle", the count it makes next, or how it ended
    who, to, \* its caller, and the address it names
    rows,    \* RateLimit: key and hour -> count
    counted, \* history: the hour in which a call passed a count
    mailed   \* history: when a call's link was sent

vars == <<clock, at, who, to, rows, counted, mailed>>

Count == {"caller", "all", "address"}
Keys  == Caller \cup {"all"} \cup Address
Hours == 0..MaxClock \div 2

TypeOK ==
    /\ clock \in 0..MaxClock
    /\ at \in [Call -> Count \cup {"idle", "lookup", "refused", "done"}]
    /\ who \in [Call -> Caller \cup {None}] /\ to \in [Call -> Address \cup {None}]
    /\ rows \in [Keys \X Hours -> 0..Cardinality(Call)]
    /\ counted \in [Call -> [Count -> Hours \cup {None}]]
    /\ mailed \in [Call -> 0..MaxClock \cup {None}]

Init ==
    /\ clock = 0 /\ at = [c \in Call |-> "idle"]
    /\ who = [c \in Call |-> None] /\ to = [c \in Call |-> None]
    /\ rows = [k \in Keys \X Hours |-> 0]
    /\ counted = [c \in Call |-> [n \in Count |-> None]]
    /\ mailed = [c \in Call |-> None]

Hour == clock \div 2

Tick == clock < MaxClock /\ clock' = clock + 1 /\ UNCHANGED <<at, who, to, rows, counted, mailed>>

(* The worker deletes the rows whose hour is over. *)
Sweep == /\ rows' = [k \in Keys \X Hours |-> IF k[2] < Hour THEN 0 ELSE rows[k]]
         /\ UNCHANGED <<clock, at, who, to, counted, mailed>>

Ask(c) == /\ at[c] = "idle"
          /\ \E k \in Caller, a \in Address :
                who' = [who EXCEPT ![c] = k] /\ to' = [to EXCEPT ![c] = a]
          /\ at' = [at EXCEPT ![c] = "caller"]
          /\ UNCHANGED <<clock, rows, counted, mailed>>

KeyOf(c, n) == CASE n = "caller" -> who[c] [] n = "all" -> "all" [] OTHER -> to[c]
Limit(n)    == CASE n = "caller" -> PerCaller [] n = "all" -> Total [] OTHER -> PerAddress
After(n)    == CASE n = "caller" -> "all" [] n = "all" -> "address" [] OTHER -> "lookup"

Within(c, n) == rows[<<KeyOf(c, n), Hour>>] < Limit(n)

(* rateLimit: counted whether or not it is refused. *)
Counts(c) ==
    /\ at[c] \in Count
    /\ LET n == at[c] IN
       /\ rows' = [rows EXCEPT ![<<KeyOf(c, n), Hour>>] = @ + 1]
       /\ at' = [at EXCEPT ![c] = IF Within(c, n) THEN After(n) ELSE "refused"]
       /\ counted' = [counted EXCEPT ![c][n] = IF Within(c, n) THEN Hour ELSE None]
    /\ UNCHANGED <<clock, who, to, mailed>>

(* requestPasswordReset, behind the budgets; the link's delivery may fail, the answer is
   the same. *)
Answer(c) ==
    /\ at[c] = "lookup" /\ at' = [at EXCEPT ![c] = "done"]
    /\ \/ to[c] \in Registered /\ mailed' = [mailed EXCEPT ![c] = clock]
       \/ UNCHANGED mailed
    /\ UNCHANGED <<clock, who, to, rows, counted>>

Next == Tick \/ Sweep \/ \E c \in Call : Ask(c) \/ Counts(c) \/ Answer(c)

Spec == Init /\ [][Next]_vars
-----------------------------------------------------------------------------
(* One caller cannot use up the hour's budget of everybody: of an hour's total it takes its
   own limit, and what it was granted in an earlier hour and brings over
   (forgot-password/route.ts:20). *)
FairShare ==
    \A k \in Caller, h \in Hours :
        Cardinality({c \in Call : /\ who[c] = k /\ counted[c]["all"] = h
                                  /\ counted[c]["caller"] \notin 0..h - 1}) <= PerCaller

(* The mail to one address is bounded in every hour of the clock, whoever asks for it. *)
MailBounded ==
    \A a \in Address, h \in Hours :
        Cardinality({c \in Call : to[c] = a /\ mailed[c] # None /\ counted[c]["address"] = h})
            <= PerAddress

(* What the budgets are said to be (passwordRecovery.ts:17, "all per rolling hour"), and are
   not: the hours are those of the clock, and the end of one and the start of the next allow
   twice as many. *)
RollingHour ==
    \A a \in Address, t \in 0..MaxClock :
        Cardinality({c \in Call : to[c] = a /\ mailed[c] \in t..t + 1}) <= PerAddress
=============================================================================
