------------------------------- MODULE AiCalls -------------------------------
(***************************************************************************)
(* Drafting with a model the tenant configures (lib/ai/client.ts,          *)
(* lib/ai/features.ts).  A request of a user is charged against the day's  *)
(* limit, then makes up to two chats, each with retries under one          *)
(* deadline.  Texts and prompts are left out; of an answer it matters only *)
(* how it fails.  Time is counted from the start of a chat.                *)
(***************************************************************************)
EXTENDS Naturals, FiniteSets

CONSTANTS Call,              \* requests of users in progress
          DailyLimit,        \* AI_DAILY_LIMIT, 200
          MaxAttempts,       \* 3
          MaxShapeAttempts,  \* 2
          Deadline,          \* timeoutMs, in units of retryBaseMs
          MaxRetryAfter      \* the cap of a Retry-After, in the same unit

VARIABLES
    charged,   \* ai_call events of the last 24 hours
    usable,    \* the settings name a model and switch the feature on
    at,        \* "idle" | "counted" | "chat"
    kind,      \* what a call is for
    attempt, shape, elapsed,   \* of a chat: its attempt, its number, its clock
    asked      \* history: requests answered for the charge, the call still going on

vars == <<charged, usable, at, kind, attempt, shape, elapsed, asked>>

Kind == {"campaign_assist", "reply_assist", "test"}

Init ==
    /\ charged = 0 /\ usable \in BOOLEAN
    /\ at = [c \in Call |-> "idle"] /\ kind = [c \in Call |-> "test"]
    /\ attempt = [c \in Call |-> 1] /\ shape = [c \in Call |-> 1]
    /\ elapsed = [c \in Call |-> 0] /\ asked = [c \in Call |-> 0]

TypeOK ==
    /\ charged \in Nat /\ usable \in BOOLEAN
    /\ at \in [Call -> {"idle", "counted", "chat"}] /\ kind \in [Call -> Kind]
    /\ attempt \in [Call -> 1..MaxAttempts] /\ shape \in [Call -> 1..MaxShapeAttempts]
    /\ elapsed \in [Call -> Nat] /\ asked \in [Call -> Nat]
-----------------------------------------------------------------------------
(* loadAiConfig, then the count of chargeAiCall. *)
Count(c, k) ==
    /\ at[c] = "idle" /\ usable /\ charged < DailyLimit
    /\ at' = [at EXCEPT ![c] = "counted"] /\ kind' = [kind EXCEPT ![c] = k]
    /\ UNCHANGED <<charged, usable, attempt, shape, elapsed, asked>>

(* The rest of chargeAiCall: the event is written, whatever was counted since. *)
Charge(c) ==
    /\ at[c] = "counted"
    /\ charged' = charged + 1
    /\ at' = [at EXCEPT ![c] = "chat"]
    /\ UNCHANGED <<usable, kind, attempt, shape, elapsed, asked>>

Backoff(n) == 2 ^ (n - 1)

(* A wait must end before the deadline of the chat. *)
InTime(c, used, wait) == elapsed[c] + used + wait < Deadline

(* One request of a chat was made and took a while. *)
Requested(c) == at[c] = "chat"

(* The call is over, with whatever result. *)
Ends(c) ==
    /\ at' = [at EXCEPT ![c] = "idle"] /\ kind' = [kind EXCEPT ![c] = "test"]
    /\ attempt' = [attempt EXCEPT ![c] = 1] /\ shape' = [shape EXCEPT ![c] = 1]
    /\ elapsed' = [elapsed EXCEPT ![c] = 0] /\ asked' = [asked EXCEPT ![c] = 0]
    /\ UNCHANGED <<charged, usable>>

(* A temporary status: again after Retry-After or the backoff. *)
Waits(c, used, wait) ==
    /\ attempt[c] < MaxAttempts /\ InTime(c, used, wait)
    /\ attempt' = [attempt EXCEPT ![c] = @ + 1]
    /\ elapsed' = [elapsed EXCEPT ![c] = @ + used + wait]
    /\ asked' = [asked EXCEPT ![c] = @ + 1]
    /\ UNCHANGED <<charged, usable, at, kind, shape>>

Throttled(c, used) ==
    /\ Requested(c)
    /\ \/ \E wait \in {Backoff(attempt[c])} \union (0..MaxRetryAfter) :
            \/ Waits(c, used, wait)
            \/ attempt[c] < MaxAttempts /\ ~ InTime(c, used, wait) /\ Ends(c)
       \/ attempt[c] = MaxAttempts /\ Ends(c)

(* The transport fails: again after the backoff. *)
Dropped(c, used) ==
    /\ Requested(c)
    /\ \/ Waits(c, used, Backoff(attempt[c]))
       \/ (attempt[c] = MaxAttempts \/ ~ InTime(c, used, Backoff(attempt[c]))) /\ Ends(c)

(* Aborted at the deadline, a definite refusal, an answer cut off, empty, too large or
   not of the shape asked for; and the answer that ends the request well. *)
Answered(c) == Requested(c) /\ Ends(c)

(* suggestCampaign: a profile with an empty list is asked for once more, in a new chat. *)
Incomplete(c) ==
    /\ Requested(c) /\ kind[c] = "campaign_assist"
    /\ \/ /\ shape[c] < MaxShapeAttempts
          /\ shape' = [shape EXCEPT ![c] = @ + 1]
          /\ attempt' = [attempt EXCEPT ![c] = 1] /\ elapsed' = [elapsed EXCEPT ![c] = 0]
          /\ asked' = [asked EXCEPT ![c] = @ + 1]
          /\ UNCHANGED <<charged, usable, at, kind>>
       \/ shape[c] = MaxShapeAttempts /\ Ends(c)

Dies(c) == at[c] # "idle" /\ Ends(c)

EventAges == charged > 0 /\ charged' = charged - 1
             /\ UNCHANGED <<usable, at, kind, attempt, shape, elapsed, asked>>

Settings == usable' = ~ usable /\ UNCHANGED <<charged, at, kind, attempt, shape, elapsed, asked>>

Next ==
    \/ \E c \in Call :
         \/ \E k \in Kind : Count(c, k)
         \/ Charge(c) \/ Answered(c) \/ Incomplete(c) \/ Dies(c)
         \/ \E used \in 0..Deadline - 1 :
              elapsed[c] + used < Deadline /\ (Throttled(c, used) \/ Dropped(c, used))
    \/ EventAges \/ Settings

Spec == Init /\ [][Next]_vars
-----------------------------------------------------------------------------
(* No request of a chat starts at or after its deadline: retries and the vendor's
   Retry-After do not extend the caller's timeout (client.ts:80). *)
StartsInTime == \A c \in Call : at[c] = "chat" => elapsed[c] < Deadline

(* One charge pays for a bounded number of requests to the model. *)
BoundedRequests ==
    \A c \in Call : at[c] = "chat" => asked[c] < MaxAttempts
                                         * (IF kind[c] = "campaign_assist" THEN MaxShapeAttempts ELSE 1)

(* The limit is overrun by calls that overlap, and by no more than them (features.ts:33). *)
LimitOverrunByOverlap == charged <= DailyLimit + Cardinality(Call) - 1

(* Refuted by two calls: the count and the event are two statements. *)
LimitHolds == charged <= DailyLimit
=============================================================================
