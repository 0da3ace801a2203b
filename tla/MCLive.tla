------------------------------- MODULE MCLive --------------------------------
(***************************************************************************)
(* What must happen in the end, each component on an instance of its own.  *)
(* As in MCServices a behaviour moves one of them, named by focus, and its *)
(* fairness is that component's.                                           *)
(***************************************************************************)
EXTENDS Naturals

CONSTANTS None, NoOne,
          w1, w2,     \* workers
          a, a1,      \* a contact, an administrator
          b1, b2,     \* bookings
          c1, r1, p1, \* a campaign, a run of it and a prospect
          k1, k2      \* keys

VARIABLE focus        \* rigid

VARIABLES rowStatus, rowAttempts, rowToken, rowLeased, rowDue, reserved, approved, outdated,
          reviewed, present, rowStopped, rowSuppressed, booked, met, gateOpen, sendPc, batch,
          sendCur, seen, accepted, rowCalls
O == INSTANCE OutreachSend WITH
       Worker <- {w1, w2}, Contact <- {a}, LastStep <- 1, MaxSendAttempts <- 2, DailyCap <- 1,
       Review <- FALSE, Unreadable <- {}, Event <- {"gate", "day"},
       status <- rowStatus, attempts <- rowAttempts, token <- rowToken, leased <- rowLeased,
       due <- rowDue, pc <- sendPc, cur <- sendCur, stopped <- rowStopped,
       suppressed <- rowSuppressed, calls <- rowCalls
outreach == <<rowStatus, rowAttempts, rowToken, rowLeased, rowDue, reserved, approved, outdated,
              reviewed, present, rowStopped, rowSuppressed, booked, met, gateOpen, sendPc,
              batch, sendCur, seen, accepted, rowCalls>>

VARIABLES runStatus, runAttempts, runToken, runLeased, runDue, ledger, enrollment, recent,
          suppressed, active, stored, runPc, runCur, tried, allowed, left, api
D == INSTANCE DiscoveryRun WITH
       Worker <- {w1, w2}, Campaign <- {c1}, Scheduled <- {r1}, Requested <- {},
       CampaignOf <- [r \in {r1} |-> c1], Prospect <- {p1}, Dummy <- {}, MaxRunAttempts <- 3,
       TenantWeekly <- 1, CampaignWeekly <- 1, SpendCap <- 1, Event <- {"toggle"},
       status <- runStatus, attempts <- runAttempts, token <- runToken, leased <- runLeased,
       due <- runDue, answer <- stored, pc <- runPc, cur <- runCur
discovery == <<runStatus, runAttempts, runToken, runLeased, runDue, ledger, enrollment, recent,
               suppressed, active, stored, runPc, runCur, tried, allowed, left, api>>

VARIABLES calendar, log, appt, stopped, pass, booking, qualifying, broken
B == INSTANCE Bookings WITH
       Booking <- {b1}, Stray <- {b2}, MaxBroken <- 1, AutoQualify <- FALSE,
       held <- booking
bookings == <<calendar, log, appt, stopped, pass, booking, qualifying, broken>>

VARIABLES arrived, receipt, cursor, leaseToken, leased, pollDue, enabled, expired, pollAt, link,
          todo, next, logged, noticed, replies, pollFaults
M == INSTANCE MailSync WITH
       Poller <- {w1, w2}, LastMsg <- 2, Kind <- <<"reply", "thread">>, PageSize <- 1,
       MaxFault <- 1, Nobody <- NoOne,
       held <- leased, at <- pollAt, alerted <- noticed, faults <- pollFaults
mailbox == <<arrived, receipt, cursor, leaseToken, leased, pollDue, enabled, expired, pollAt,
             link, todo, next, logged, noticed, replies, pollFaults>>

VARIABLES contact, row, answer, alerted, verifyAt, verifyGot, calls, heard, crashes
R == INSTANCE Reverification WITH
       Worker <- {w1}, MaxRequest <- 1, MaxCrash <- 2, at <- verifyAt, got <- verifyGot
verification == <<contact, row, answer, alerted, verifyAt, verifyGot, calls, heard, crashes>>

VARIABLES profile, bounced, spf, healthAt, healthGot
S == INSTANCE SenderHealth WITH Worker <- {w1},
       at <- healthAt, got <- healthGot
health == <<profile, bounced, spf, healthAt, healthGot>>

VARIABLES saved, token, bound, keyAt, keyGot, for, used, stale, saves, keyFaults
K == INSTANCE Credentials WITH
       Admin <- {a1}, Caller <- {w1}, Vendor <- {"apollo"}, Key <- {k1, k2},
       MaxSave <- 2, MaxFault <- 2,
       held <- bound, at <- keyAt, got <- keyGot, faults <- keyFaults
credentials == <<saved, token, bound, keyAt, keyGot, for, used, stale, saves, keyFaults>>

VARIABLES step, stopping, faulty, fresh, up, failures, paged, run, pager, lost
W == INSTANCE Watch WITH LastStep <- 3, Beats <- {1, 2}, FailuresToPage <- 2, MaxLost <- 1
watch == <<step, stopping, faulty, fresh, up, failures, paged, run, pager, lost>>

Init ==
    /\ focus \in {"outreach", "discovery", "bookings", "mailbox", "verification", "health",
                  "credentials", "watch"}
    /\ O!Init /\ D!Init /\ B!Init /\ M!Init /\ R!Init /\ S!Init /\ K!Init /\ W!Init

Next ==
    /\ UNCHANGED focus
    /\ IF focus = "outreach"    THEN O!Next ELSE UNCHANGED outreach
    /\ IF focus = "discovery"   THEN D!Next ELSE UNCHANGED discovery
    /\ IF focus = "bookings"    THEN B!Next ELSE UNCHANGED bookings
    /\ IF focus = "mailbox"     THEN M!Next ELSE UNCHANGED mailbox
    /\ IF focus = "verification" THEN R!Next ELSE UNCHANGED verification
    /\ IF focus = "health"      THEN S!Next ELSE UNCHANGED health
    /\ IF focus = "credentials" THEN K!Next ELSE UNCHANGED credentials
    /\ IF focus = "watch"       THEN W!Next ELSE UNCHANGED watch

Fairness ==
    \/ focus = "outreach"    /\ O!Fairness
    \/ focus = "discovery"   /\ D!Fairness
    \/ focus = "bookings"    /\ B!Fairness
    \/ focus = "mailbox"     /\ M!Fairness
    \/ focus = "verification" /\ R!Fairness
    \/ focus = "health"      /\ S!Fairness
    \/ focus = "credentials" /\ K!Fairness
    \/ focus = "watch"       /\ W!Fairness

vars == <<focus, outreach, discovery, bookings, mailbox, verification, health, credentials,
          watch>>

Spec == Init /\ [][Next]_vars /\ Fairness

-----------------------------------------------------------------------------
(* Every queued message is sent, canceled or failed in the end when the gates stay
   open, whatever crashes (worker.ts:426). *)
EveryRowResolved == focus = "outreach" => O!EveryRowResolved

(* Every scheduled run ends, whatever crashes, and whether or not its campaign stays
   active (worker.ts:44). *)
EveryRunEnds == focus = "discovery" => D!EveryRunEnds

(* The calendar reaches the appointment although webhooks are lost and passes are
   interrupted or refused (calendlyReconcile.ts:9). *)
CalendarMirrored == B!CalendarMirrored

(* Every message of the inbox is handled unless the mailbox is disconnected, whoever
   crashes and whatever expires (sync.ts:83). *)
InboxHandled == M!InboxHandled

(* A request to verify a contact is settled, or becomes an alert, whatever crashes
   (alerts.ts:37). *)
RequestEnds == R!RequestEnds

(* A sender whose mail keeps bouncing stops sending (senderHealth.ts:87), an outage is
   paged and taken back (external-monitor.sh:29), and a step that throws does not end the
   loop (worker/index.ts:8). *)
TroubleAnswered ==
    /\ S!TroubleStops
    /\ focus = "watch" => W!OutagePaged /\ W!LoopSurvives

(* A saved vendor key serves again and again, whatever was lost or restarted before
   (providerCredentials.ts:86). *)
SavedKeyServes == K!SavedKeyServes
=============================================================================
