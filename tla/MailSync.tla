------------------------------ MODULE MailSync ------------------------------
(***************************************************************************)
(* The inbox of one mailbox and the workers that poll it: pollMicrosoft of *)
(* lib/m365/sync.ts, with its cursor row, its token-guarded lease and the  *)
(* log of handled messages that makes a replay harmless.  Every await on   *)
(* Graph or the database ends a step.  What a handled message does to the  *)
(* people concerned is in OutreachSend (ReplyPositive, ReplyOther,         *)
(* Suppress); here it is logged and counted.                               *)
(*                                                                         *)
(* Messages are numbered as they arrive, and a delta link is the number of *)
(* messages it covers.  0 is the missing link, which starts over.          *)
(***************************************************************************)
EXTENDS Naturals

CONSTANTS Poller,     \* worker processes
          LastMsg,    \* bound: messages that arrive
          Kind,       \* of each message: "reply" to the one message sent,
                      \* "thread" of a known buyer, "bounce", "notice" of a
               \* bounce that fits no contact or several, "stranger"
          PageSize,   \* messages in a page of the delta
          MaxFault,   \* bound: crashes, Graph errors, expired links, disconnects
          Nobody

VARIABLES
    arrived,   \* messages in the inbox: 1..arrived
    receipt,   \* MailReceipt of the message sent: "none", "accepted",
               \* "copied" (in Sent Items) or "confirmed"
    cursor,    \* MailCursor.cursor
    leaseToken,\* MailCursor.leaseToken
    held,      \* leaseUntil is in the future
    pollDue,   \* nextPollAt has passed
    enabled,   \* M365Connection.enabled
    expired,   \* Graph answers 410 to the links it has given out
    at, link, todo, next, \* each poll: point, link read, messages left of the
                          \* page, and the link after it
    logged,    \* messages with a WebhookEvent
    alerted,   \* notices with an OperationalAlert for a person
    replies,   \* history: Reply rows made of each message
    faults     \* history: faults so far

row  == <<cursor, leaseToken, held, pollDue>>
poll == <<at, link, todo, next>>
graph == <<arrived, expired>>
vars == <<graph, receipt, row, enabled, poll, logged, alerted, replies, faults>>

Msg == 1..LastMsg

TypeOK ==
    /\ arrived \in 0..LastMsg /\ cursor \in 0..LastMsg
    /\ receipt \in {"none", "accepted", "copied", "confirmed"}
    /\ leaseToken \in Poller \cup {Nobody}
    /\ at \in [Poller -> {"idle", "found", "confirm", "page", "items", "handle", "alert"}]
    /\ link \in [Poller -> 0..LastMsg] /\ next \in [Poller -> 0..LastMsg]
    /\ todo \in [Poller -> SUBSET Msg]
    /\ logged \subseteq Msg /\ alerted \subseteq Msg /\ replies \in [Msg -> 0..LastMsg]

Init ==
    /\ arrived = 0 /\ receipt = "none"
    /\ cursor = 0 /\ leaseToken = Nobody /\ held = FALSE /\ pollDue = TRUE
    /\ enabled = TRUE /\ expired = FALSE
    /\ at = [w \in Poller |-> "idle"] /\ todo = [w \in Poller |-> {}]
    /\ link = [w \in Poller |-> 0] /\ next = [w \in Poller |-> 0]
    /\ logged = {} /\ alerted = {} /\ replies = [m \in Msg |-> 0]
    /\ faults = 0

-----------------------------------------------------------------------------
To(w, p) == at' = [at EXCEPT ![w] = p]

Owns(w) == leaseToken = w

(* A poll ends by the update guarded by its token: the link, and the lease let
   go.  The token itself stays in the row. *)
Releases(w, c, again) ==
    /\ IF Owns(w) THEN cursor' = c /\ held' = FALSE /\ pollDue' = again
                  ELSE UNCHANGED <<cursor, held, pollDue>>
    /\ To(w, "idle") /\ todo' = [todo EXCEPT ![w] = {}]
    /\ UNCHANGED <<leaseToken, link, next>>

(* A cursor that is due and free is read, link included, before the claim; that
   of a disabled connection is put off. *)
Find(w) ==
    /\ at[w] = "idle" /\ pollDue /\ ~held
    /\ IF enabled THEN /\ To(w, "found") /\ link' = [link EXCEPT ![w] = cursor]
                       /\ UNCHANGED pollDue
                  ELSE pollDue' = FALSE /\ UNCHANGED <<at, link>>
    /\ UNCHANGED <<graph, receipt, cursor, leaseToken, held, enabled, todo, next, logged,
                   alerted, replies, faults>>

(* The claim asks for a free lease only, not for the link that was read. *)
Claim(w) ==
    /\ at[w] = "found"
    /\ IF held THEN To(w, "idle") /\ UNCHANGED <<leaseToken, held>>
               ELSE To(w, "confirm") /\ leaseToken' = w /\ held' = TRUE
    /\ UNCHANGED <<graph, receipt, cursor, pollDue, enabled, link, todo, next, logged,
                   alerted, replies, faults>>

(* Accepted messages are confirmed from Sent Items before the inbox is read. *)
Confirm(w) ==
    /\ at[w] = "confirm"
    /\ receipt # "accepted"
    /\ receipt' = IF receipt = "copied" THEN "confirmed" ELSE receipt
    /\ To(w, IF receipt = "copied" THEN "confirm" ELSE "page")
    /\ held' = (held \/ (receipt = "copied" /\ Owns(w)))
    /\ UNCHANGED <<graph, cursor, leaseToken, pollDue, enabled, link, todo, next, logged,
                   alerted, replies, faults>>

(* A sent copy that is not there yet fails the poll (m365_sent_copy_pending). *)
CopyPending(w) ==
    /\ at[w] = "confirm" /\ receipt = "accepted"
    /\ Releases(w, cursor, FALSE)
    /\ UNCHANGED <<graph, receipt, enabled, logged, alerted, replies, faults>>

Upto(c) == IF c + PageSize < arrived THEN c + PageSize ELSE arrived

(* One page from the link that was read. *)
Page(w) ==
    /\ at[w] = "page" /\ ~(expired /\ link[w] > 0)
    /\ next' = [next EXCEPT ![w] = Upto(link[w])]
    /\ todo' = [todo EXCEPT ![w] = (link[w] + 1)..Upto(link[w])]
    /\ expired' = (expired /\ link[w] > 0)
    /\ To(w, "items")
    /\ UNCHANGED <<arrived, receipt, row, enabled, link, logged, alerted, replies, faults>>

(* 410: the link is dropped and the inbox will be replayed. *)
LinkExpired(w) ==
    /\ at[w] = "page" /\ expired /\ link[w] > 0
    /\ Releases(w, 0, FALSE)
    /\ UNCHANGED <<graph, receipt, enabled, logged, alerted, replies, faults>>

First(S) == CHOOSE m \in S : \A n \in S : m <= n

(* The next message of the page: the lease is renewed, or found lost, which ends
   the poll; a logged message is passed over, any other fetched. *)
NextItem(w) ==
    /\ at[w] = "items" /\ todo[w] # {}
    /\ LET m == First(todo[w]) IN
       IF ~Owns(w) THEN To(w, "idle") /\ todo' = [todo EXCEPT ![w] = {}] /\ UNCHANGED held
       ELSE /\ held' = TRUE
            /\ IF m \in logged THEN todo' = [todo EXCEPT ![w] = @ \ {m}] /\ UNCHANGED at
                               ELSE To(w, "handle") /\ UNCHANGED todo
    /\ UNCHANGED <<graph, receipt, cursor, leaseToken, pollDue, enabled, link, next, logged,
                   alerted, replies, faults>>

Attributed(m) == Kind[m] = "reply" /\ receipt = "confirmed"

(* Mutant: the log is only asked before the message is fetched. *)
Repeats_Unlocked(m) == FALSE

(* handleProviderEvent looks for the event id again, under the tenant lock. *)
Repeats(m) == m \in logged

(* Mutant: what cannot be attributed is left alone. *)
Logs_Attributed(m) == Attributed(m) \/ Kind[m] = "bounce"

(* A reply to a confirmed message and a bounce become events, a known buyer's
   other message is put up for review; a stranger's leaves no trace. *)
Logs(m) == Kind[m] # "stranger"

HandleItem(w) ==
    /\ at[w] = "handle"
    /\ LET m == First(todo[w]) IN
         /\ replies' = IF Attributed(m) /\ ~Repeats(m)
                         THEN [replies EXCEPT ![m] = @ + 1] ELSE replies
         /\ logged' = IF Logs(m) THEN logged \cup {m} ELSE logged
         /\ IF Kind[m] = "notice"
              THEN To(w, "alert") /\ UNCHANGED todo
              ELSE To(w, "items") /\ todo' = [todo EXCEPT ![w] = @ \ {m}]
    /\ UNCHANGED <<graph, receipt, row, enabled, link, next, alerted, faults>>

(* The alert of a notice nobody can be found for, after its entry in the log. *)
RaiseAlert(w) ==
    /\ at[w] = "alert"
    /\ alerted' = alerted \cup {First(todo[w])}
    /\ todo' = [todo EXCEPT ![w] = @ \ {First(todo[w])}]
    /\ To(w, "items")
    /\ UNCHANGED <<graph, receipt, row, enabled, link, next, logged, replies, faults>>

(* The page is done: the cursor moves to the next link, or to the delta link. *)
Advance(w) ==
    /\ at[w] = "items" /\ todo[w] = {}
    /\ Releases(w, next[w], next[w] < arrived)
    /\ UNCHANGED <<graph, receipt, enabled, logged, alerted, replies, faults>>

PollStep(w) == \/ Find(w) \/ Claim(w) \/ Confirm(w) \/ CopyPending(w) \/ Page(w)
               \/ LinkExpired(w) \/ NextItem(w) \/ HandleItem(w) \/ RaiseAlert(w)
               \/ Advance(w)

-----------------------------------------------------------------------------
(* Faults: a Graph error or a refused event ends the poll in its catch block, a
   crash leaves the lease, a poll outlives its lease (which every message renews),
   links expire, an administrator disconnects. *)
PollFails(w) == /\ at[w] \in {"confirm", "page", "handle", "alert"}
                /\ Releases(w, cursor, FALSE)
                /\ UNCHANGED <<expired, enabled>>

Crash(w) == /\ at[w] # "idle"
            /\ To(w, "idle") /\ todo' = [todo EXCEPT ![w] = {}]
            /\ UNCHANGED <<row, link, next, expired, enabled>>

Stall == held /\ held' = FALSE
         /\ UNCHANGED <<cursor, leaseToken, pollDue, poll, expired, enabled>>

Expire == ~expired /\ expired' = TRUE /\ UNCHANGED <<row, poll, enabled>>

Toggle == enabled' = ~enabled /\ UNCHANGED <<row, poll, expired>>

Fault == /\ faults < MaxFault /\ faults' = faults + 1
         /\ \/ \E w \in Poller : PollFails(w) \/ Crash(w)
            \/ Stall \/ Expire \/ Toggle
         /\ UNCHANGED <<arrived, receipt, logged, alerted, replies>>

(* The outside: a message is sent and appears in Sent Items, messages arrive,
   the reply not before what it answers was accepted. *)
Send == /\ receipt = "none" /\ receipt' = "accepted"
        /\ UNCHANGED <<graph, row, enabled, poll, logged, alerted, replies, faults>>

CopyAppears == /\ receipt = "accepted" /\ receipt' = "copied"
               /\ UNCHANGED <<graph, row, enabled, poll, logged, alerted, replies, faults>>

Arrive == /\ arrived < LastMsg /\ arrived' = arrived + 1
          /\ Kind[arrived'] = "reply" => receipt # "none"
          /\ UNCHANGED <<expired, receipt, row, enabled, poll, logged, alerted, replies, faults>>

(* The clock: the lease of a dead poll ends, the next poll comes due. *)
LeaseEnds == held /\ at[leaseToken] = "idle" /\ held' = FALSE
             /\ UNCHANGED <<graph, receipt, cursor, leaseToken, pollDue, enabled, poll, logged,
                            alerted, replies, faults>>

ComesDue == ~pollDue /\ pollDue' = TRUE
            /\ UNCHANGED <<graph, receipt, cursor, leaseToken, held, enabled, poll, logged,
                           alerted, replies, faults>>

Next == \/ \E w \in Poller : PollStep(w)
        \/ Fault
        \/ Send \/ CopyAppears \/ Arrive
        \/ LeaseEnds \/ ComesDue

Spec == Init /\ [][Next]_vars

(* The workers' ticks keep polling, the clock moves, and Sent Items shows what
   Graph has accepted. *)
Fairness ==
    /\ \A w \in Poller : WF_vars(PollStep(w))
    /\ WF_vars(LeaseEnds)
    /\ WF_vars(ComesDue)
    /\ WF_vars(CopyAppears)

-----------------------------------------------------------------------------
(* Nothing is lost behind the cursor: whatever the link passes over was handled,
   although links are read before the claim, leases lapse during a page, workers
   die and links expire (sync.ts:83, "even pages partially processed before a
   crash are replayable"). *)
NothingSkipped == \A m \in 1..cursor : Kind[m] # "stranger" => m \in logged

(* A notice of a bounce that fits no contact reaches a person, unless its poll failed
   between the log and the alert (sync.ts:47). *)
NoticeAlerted ==
    \A m \in logged : Kind[m] = "notice" /\ faults = 0 =>
        m \in alerted \/ \E w \in Poller : at[w] = "alert" /\ m = First(todo[w])

(* Refuted: sync.ts:38, "Anything else raises an alert for a person". *)
EveryNoticeAlerted == \A m \in 1..cursor : Kind[m] = "notice" => m \in alerted

(* A reply becomes one Reply row, whoever replays its page (sync.ts:83, "IDs make
   replay safe"). *)
ReplyRecordedOnce == \A m \in Msg : replies[m] <= 1

(* Every message is handled in the end, unless the mailbox is disconnected. *)
InboxHandled ==
    \A m \in Msg : m <= arrived /\ Kind[m] # "stranger" ~> m \in logged \/ ~enabled

(* sync.ts:64, "Resolve the final Internet Message-ID from Sent Items before
   advancing reply cursors, including delayed sent copies": not so for a message
   accepted after the check and answered before the page is read. *)
ConfirmedBeforeAdvance ==
    \A m \in 1..cursor : Kind[m] = "reply" => receipt = "confirmed"
=============================================================================
