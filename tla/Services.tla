------------------------------ MODULE Services -------------------------------
(***************************************************************************)
(* The components around the queue, composed: they keep their state in     *)
(* rows and files of their own, so that a behaviour of the system is one   *)
(* of each of them, whichever steps at a time.  The constants of one       *)
(* component are given in a line or two; what its steps are is in its      *)
(* module.  MCServices gives the constants values.                         *)
(***************************************************************************)
EXTENDS Integers, Sequences, FiniteSets

CONSTANTS None, NoOne,
          Daemon,    \* worker processes
          Handler    \* requests of users in progress

(* There are users and workers, no more than can be counted, and the value that stands for
   "nothing" is no number. *)
ASSUME ActorsAssumption ==
    /\ IsFiniteSet(Handler) /\ Handler # {} /\ IsFiniteSet(Daemon) /\ Daemon # {}
    /\ None \notin Nat

CONSTANTS ResetLink, MaxPassword, MaxSecret, MaxStep

ASSUME AccountsAssumption ==
    /\ MaxPassword \in Nat \ {0} /\ MaxSecret \in Nat /\ MaxStep \in Nat \ {0}
    /\ \A l \in ResetLink : l \notin Nat \X Nat

VARIABLES password, disabled, signedIn, links, secret, mfa, lastStep, recovery, now, made,
          loginAt, loginRead, spent, replayed, rearmed
A == INSTANCE Accounts WITH
       Call <- Handler, Link <- ResetLink, at <- loginAt, read <- loginRead
accounts == <<password, disabled, signedIn, links, secret, mfa, lastStep, recovery, now, made,
              loginAt, loginRead, spent, replayed, rearmed>>

CONSTANTS Email, Founder, AccessRequest, Invitation, Seats

ASSUME TeamAssumption ==
    /\ Founder \cap Email # {}
    /\ "ours" \notin AccessRequest
    /\ None \notin [home : {"ours"} \cup AccessRequest, admin : BOOLEAN, disabled : BOOLEAN]
    /\ None \notin [email : Email, status : {"PENDING", "APPROVED"}]

VARIABLES account, request, mail, invite, teamAt, teamRead
T == INSTANCE Team WITH
       Call <- Handler, Request <- AccessRequest, Invite <- Invitation,
       at <- teamAt, read <- teamRead
team == <<account, request, mail, invite, teamAt, teamRead>>

CONSTANTS Editor, Enrollment, Texts, Original, Winner, Sender, Owner, MaxVersion

(* Every campaign has a first step, which may be the winner of a test. *)
ASSUME CampaignsAssumption ==
    /\ Original \in Texts /\ Owner \in Sender /\ MaxVersion \in Nat \ {0}
    /\ \A s \in Texts : s # <<>> /\ s \in Seq({s[i] : i \in DOMAIN s})
                        /\ [s EXCEPT ![1] = Winner] \in Texts
    /\ None \notin [steps : Texts, sender : Sender]

VARIABLES content, version, versions, status, queued, test, rec, arm, had, editAt, editRead
C == INSTANCE Campaigns WITH Call <- Editor, at <- editAt, read <- editRead
campaigns == <<content, version, versions, status, queued, test, rec, arm, had, editAt,
               editRead>>

CONSTANTS Booking, Stray, MaxBroken, AutoQualify

ASSUME BookingsAssumption ==
    /\ AutoQualify \in BOOLEAN
    /\ None \notin [status : {"BOOKED", "CANCELED"}, updatedAt : 1..3, qualified : BOOLEAN,
                    outcome : BOOLEAN]

VARIABLES calendar, log, appt, stopped, pass, booking, qualifying, broken
B == INSTANCE Bookings WITH held <- booking
bookings == <<calendar, log, appt, stopped, pass, booking, qualifying, broken>>

CONSTANTS LastMsg, MessageKind, PollPage, MaxPollFault

ASSUME MailboxAssumption == LastMsg \in Nat /\ PollPage \in Nat

VARIABLES arrived, receipt, mailCursor, leaseToken, leased, pollDue, enabled, expired, pollAt,
          link, todo, next, logged, noticed, replies, pollFaults
M == INSTANCE MailSync WITH
       Poller <- Daemon, Kind <- MessageKind, PageSize <- PollPage, MaxFault <- MaxPollFault,
       Nobody <- NoOne,
       cursor <- mailCursor, held <- leased, at <- pollAt, alerted <- noticed, faults <- pollFaults
mailbox == <<arrived, receipt, mailCursor, leaseToken, leased, pollDue, enabled, expired, pollAt,
          link, todo, next, logged, noticed, replies, pollFaults>>

CONSTANTS DiscoverKey, VerifyKey, Hash, PeopleKnown, PeopleWanted, Budget, MinPage, MaxPages,
          MaxBuys

ASSUME GatewayAssumption ==
    /\ PeopleKnown \in Nat \ {0} /\ Budget \in Nat /\ MinPage \in Nat
    /\ MaxPages \in Nat \ {0} /\ MaxBuys \in Nat /\ IsFiniteSet(DiscoverKey)
    /\ None \notin [hash : Hash, value : SUBSET Nat]

VARIABLES result, job, seen, pageCursor, bought, excused, told
G == INSTANCE Gateway WITH
       Key <- DiscoverKey, Check <- VerifyKey, People <- PeopleKnown, Limit <- PeopleWanted,
       cursor <- pageCursor
gateway == <<result, job, seen, pageCursor, bought, excused, told>>

CONSTANTS MaxRequest, MaxCrash

ASSUME VerificationAssumption == MaxRequest \in Nat /\ MaxCrash \in Nat

VARIABLES contact, row, answer, alerted, verifyAt, verifyGot, calls, heard, crashes
R == INSTANCE Reverification WITH Worker <- Daemon, at <- verifyAt, got <- verifyGot
verification == <<contact, row, answer, alerted, verifyAt, verifyGot, calls, heard, crashes>>

CONSTANTS AlertAttempts

ASSUME AlertsAssumption == AlertAttempts \in Nat

VARIABLES alert, problem, campaign, alertAt, alertGot, received
L == INSTANCE Alerts WITH
       Worker <- Daemon, MaxAttempts <- AlertAttempts, at <- alertAt, got <- alertGot
alerts == <<alert, problem, campaign, alertAt, alertGot, received>>

CONSTANTS Subject, MaxBackup

ASSUME PrivacyAssumption == MaxBackup \in Nat

VARIABLES live, dump, ledger, whole, restoring, mode, erased, listed, backups
P == INSTANCE Privacy WITH Person <- Subject, todo <- restoring
privacy == <<live, dump, ledger, whole, restoring, mode, erased, listed, backups>>

CONSTANTS DailyLimit, ChatAttempts, ShapeAttempts, ChatDeadline, MaxRetryAfter

ASSUME ChatsAssumption ==
    /\ DailyLimit \in Nat \ {0}
    /\ ChatAttempts \in Nat \ {0} /\ ShapeAttempts \in Nat \ {0}
    /\ ChatDeadline \in Nat \ {0} /\ MaxRetryAfter \in Nat

VARIABLES charged, usable, chatAt, kind, attempt, shape, elapsed, counting
I == INSTANCE AiCalls WITH
       Call <- Handler, MaxAttempts <- ChatAttempts, MaxShapeAttempts <- ShapeAttempts,
       Deadline <- ChatDeadline, at <- chatAt, asked <- counting
chats == <<charged, usable, chatAt, kind, attempt, shape, elapsed, counting>>

CONSTANTS Plan, Limits, Unlimited, PlanCampaign, SenderOf, Experiment, BuyingRun, MaxRequested,
          MaxEmails

ASSUME PlansAssumption ==
    /\ "FREE" \in Plan
    /\ \A p \in Plan : \A what \in {"campaigns", "senders", "emails", "prospects"} :
          Limits[p][what] \in Nat \/ Limits[p][what] = Unlimited
    /\ IsFiniteSet(BuyingRun) /\ MaxRequested \in Nat
    /\ None \notin PlanCampaign \X {"activate"}

VARIABLES plan, late, suspended, active, experiment, emails, sending, reserved, granted, changed
N == INSTANCE Plans WITH
       Call <- Handler, Campaign <- PlanCampaign, Worker <- Daemon, Run <- BuyingRun,
       asked <- granted
plans == <<plan, late, suspended, active, experiment, emails, sending, reserved, granted, changed>>

CONSTANTS Visit, Visitor, Address, Registered, PerCaller, Total, PerAddress, MaxClock

ASSUME BudgetsAssumption ==
    /\ IsFiniteSet(Visit)
    /\ PerCaller \in Nat /\ Total \in Nat /\ PerAddress \in Nat /\ MaxClock \in Nat
    /\ Visitor \cap Address = {} /\ "all" \notin Visitor \cup Address

VARIABLES clock, callAt, who, to, rows, counted, mailed
W == INSTANCE Throttle WITH Call <- Visit, Caller <- Visitor, at <- callAt
budgets == <<clock, callAt, who, to, rows, counted, mailed>>

CONSTANTS Tenant, MailCampaign, Recipient, MaxKey, MaxMail

ASSUME LinksAssumption ==
    MaxKey \in Nat \ {0} /\ None \notin [tenant : Tenant, contact : Recipient, by : Nat]

VARIABLES sessionKey, dataKey, signingKey, mails, posted, suppressed, credited, refused
H == INSTANCE Links WITH Campaign <- MailCampaign, Contact <- Recipient
urls == <<sessionKey, dataKey, signingKey, mails, posted, suppressed, credited, refused>>

CONSTANTS Addressee, SendAttempts, Letter, MaxDraft

(* One person has one message waiting. *)
ASSUME DeliveriesAssumption ==
    /\ \E c \in Addressee : Addressee = {c}
    /\ SendAttempts \in Nat \ {0} /\ MaxDraft \in Nat /\ None \notin Letter
    /\ NoOne \notin Daemon /\ NoOne \notin Addressee \X (0..1)

VARIABLES delivery, draftId, requestHash, sendAt, input, draft, created, words, inflight, sent,
          returned, recovered
VARIABLES rowStatus, attempts, rowToken, rowLeased, due, rowReserved, approved, outdated,
          reviewed, present, rowStopped, rowSuppressed, booked, met, gateOpen, queueAt, batch,
          rowCur, rowSeen, accepted, rowCalls
Y == INSTANCE Delivery WITH
       Worker <- Daemon, Contact <- Addressee, MaxSendAttempts <- SendAttempts,
       Input <- Letter, status <- delivery, pc <- sendAt, held <- draft, content <- words,
       token <- rowToken, leased <- rowLeased, reserved <- rowReserved, stopped <- rowStopped,
       suppressed <- rowSuppressed, sendPc <- queueAt, cur <- rowCur, seen <- rowSeen,
       calls <- rowCalls
deliveries == <<delivery, draftId, requestHash, sendAt, input, draft, created, words, inflight,
                sent, returned, recovered, rowStatus, attempts, rowToken, rowLeased, due,
                rowReserved, approved, outdated, reviewed, present, rowStopped, rowSuppressed,
                booked, met, gateOpen, queueAt, batch, rowCur, rowSeen, accepted, rowCalls>>

CONSTANT HealthWorker

VARIABLES profile, bounced, spf, healthAt, healthGot
X == INSTANCE SenderHealth WITH Worker <- HealthWorker, at <- healthAt, got <- healthGot
health == <<profile, bounced, spf, healthAt, healthGot>>

CONSTANTS KeyAdmin, KeyCaller, Vendor, VendorKey, MaxSave, MaxKeyFault

ASSUME CredentialsAssumption == MaxSave \in Nat /\ MaxKeyFault \in Nat

VARIABLES keySaved, keyToken, keyHeld, keyAt, keyGot, keyFor, keyUsed, keyStale, keySaves,
          keyFaults
K == INSTANCE Credentials WITH
       Admin <- KeyAdmin, Caller <- KeyCaller, Key <- VendorKey, MaxFault <- MaxKeyFault,
       saved <- keySaved, token <- keyToken, held <- keyHeld, at <- keyAt, got <- keyGot,
       for <- keyFor, used <- keyUsed, stale <- keyStale, saves <- keySaves,
       faults <- keyFaults
credentials == <<keySaved, keyToken, keyHeld, keyAt, keyGot, keyFor, keyUsed, keyStale,
                 keySaves, keyFaults>>

CONSTANTS LeadCompany, LeadEmail, MaxLeads

VARIABLES leadFile, leadText, place, cell, line, table, quoted, phase, unwritten, taken, manual,
          report
D == INSTANCE LeadImport WITH
       Company <- LeadCompany, Email <- LeadEmail, MaxRows <- MaxLeads, file <- leadFile,
       text <- leadText, i <- place, row <- line, todo <- unwritten
leads == <<leadFile, leadText, place, cell, line, table, quoted, phase, unwritten, taken, manual,
           report>>

(* Cells are texts. *)
ASSUME LeadsAssumption ==
    MaxLeads \in Nat /\ LeadCompany \subseteq Seq(D!Char) /\ LeadEmail \subseteq Seq(D!Char)

CONSTANTS MaxPieces, Byte, MaxBytes, Width

VARIABLES mailAsked, secretAsked
E == INSTANCE Copy WITH question <- mailAsked
J == INSTANCE Secrets WITH question <- secretAsked
texts == <<mailAsked, secretAsked>>

(* "nothing" is neither a text nor a reason to refuse one. *)
ASSUME TextsAssumption ==
    /\ MaxPieces \in Nat
    /\ LET text == Seq(E!Piece \cup {"escaped", "footer"}) IN
       None \notin [subject : text, body : text]
    /\ None \notin {"unknown_template_variable", "mail_subject_blank",
                     "mail_body_effectively_empty", "postal_address_missing",
                     "review_message_unavailable"}

(* A byte is one, and the accumulator has twelve bits or more. *)
ASSUME SecretsAssumption ==
    /\ Byte \subseteq 0..255 /\ MaxBytes \in Nat
    /\ 2^Width \in Nat \ {0} /\ 2^Width % 2^12 = 0

CONSTANTS ClockHours, Offsets, Days, Sent, Bounces, Complaints, SenderAges,
          Word, Key, Group, Taxonomy, Means, Band, Heads, Elapsed, MinScores, MaxWrong

(* Clocks are of this world, the calendar has a last day, and no word of a profile is the name
   of a size. *)
ASSUME RulesAssumption ==
    /\ Sent \subseteq Nat /\ Bounces \subseteq Nat /\ Complaints \subseteq Nat
    /\ SenderAges \subseteq Nat /\ Elapsed \subseteq Int /\ MinScores \subseteq 0..100
    /\ ClockHours \subseteq Int /\ Offsets \subseteq -14..14
    /\ Days \subseteq Nat /\ \E last \in Days : \A d \in Days : d <= last
    /\ Word \cap DOMAIN Band = {} /\ "10-20" \in DOMAIN Band

VARIABLES ruleAsked, personAsked, probeAsked, gateAsked
U == INSTANCE Rules WITH
       Hours <- ClockHours, Ages <- SenderAges, question <- ruleAsked
V == INSTANCE Prospects WITH Waits <- Elapsed, question <- personAsked
Z == INSTANCE Probes WITH question <- probeAsked
F == INSTANCE Gates WITH question <- gateAsked
rules == <<ruleAsked, personAsked, probeAsked, gateAsked>>

(* What the operator's tables equate means the same, and no word is a number. *)
ASSUME TablesAssumption == V!TablesAgree /\ \A n \in Heads \cup {10} : V!ToString(n) \notin Word

(* "nothing" is no reason to wait. *)
ASSUME GatesAssumption == \A k \in DOMAIN F!Checks : F!Checks[k] # None

Spec == /\ A!Spec /\ T!Spec /\ C!Spec
        /\ B!Spec /\ M!Spec /\ Y!Spec
        /\ G!Spec /\ R!Spec /\ L!Spec
        /\ P!Spec /\ H!Spec
        /\ I!Spec /\ N!Spec /\ W!Spec
        /\ X!Spec /\ K!Spec /\ D!Spec
        /\ E!Spec /\ J!Spec
        /\ U!Spec /\ V!Spec /\ Z!Spec /\ F!Spec
-----------------------------------------------------------------------------
(* Every component keeps the types of its rows, files and calls. *)
Typed ==
    /\ A!TypeOK /\ T!TypeOK /\ C!TypeOK /\ P!TypeOK /\ H!TypeOK
    /\ B!TypeOK /\ M!TypeOK /\ Y!M!TypeOK /\ Y!O!TypeOK
    /\ G!TypeOK /\ R!TypeOK /\ L!TypeOK
    /\ I!TypeOK /\ N!TypeOK /\ W!TypeOK
    /\ X!TypeOK /\ K!TypeOK /\ D!TypeOK

(* A reset link or a code is accepted once, whatever calls overlap
   (identity.ts:118), steps moved back by the second factor's own calls apart; a request
   is approved exactly when its address has its workspace's account (onboarding.ts:34),
   a workspace keeps an active administrator (users/route.ts:24), and the secret of a
   second factor is read back from its text (totp.ts:13). *)
AccountsKept ==
    /\ A!OneTimeSecrets /\ T!ApprovedHasAccount /\ T!AdminRemains
    /\ J!SecretReadBack

(* Whatever a campaign has said can be restored (campaignVersions.ts:48), and an
   accepted recommendation was applied (experiments/index.ts:143). *)
CampaignKept == C!NothingSaidIsLost /\ C!AcceptedWasApplied

(* The copy under test does not change during the test (campaignVersions.ts:40). *)
TestedCopyKept == C!TestedCopyKept

(* What comes from outside ends as it was said.  The appointment shows the newest event
   processed, whatever their order (webhooks.ts:84).  Whatever the cursor of a mailbox
   passes over was handled, a reply recorded once, and a notice nobody can be named for
   alerted, whoever replays its page (sync.ts:83), but for a notice whose alert was lost
   between its record and its alert (sync.ts:47). *)
InboundFaithful ==
    /\ B!LastWord
    /\ M!NothingSkipped /\ M!ReplyRecordedOnce /\ M!NoticeAlerted

(* A message recorded SENT was sent, whichever call recorded it (worker.ts:325), and a
   contact gets it twice only from the third attempt on: leases that lapse during a call
   are not enough (m365/send.ts:65).  Its text is the one that was approved, at every
   attempt, and one the adapter takes (outreachContent.ts:19). *)
DeliveredAsRecorded ==
    /\ Y!RecordedWasSent /\ Y!DuplicateTakesThree
    /\ E!RenderedOnce /\ E!FitToSend

(* A key of the gateway has one answer for ever (store.ts:32), and no person is bought
   twice but by two jobs at once or for a lost answer (discover.ts:57). *)
GatewayOnce == G!SameKeySameAnswer /\ G!BoughtOnce

(* What is tried again ends: at most three attempts for a pending request
   (reverification.ts:13), no delivery of an alert once one is recorded (alerts.ts:50),
   at most three requests for each message of an answer, and two messages
   (ai/client.ts:86). *)
RetriesBounded == R!ThreeAttempts /\ L!QuietOnceDelivered /\ I!BoundedRequests

(* A limit of the plan is overrun by calls that overlap, by a change of the plan and by
   nothing else (entitlements.ts:12); an AI feature's daily limit likewise
   (ai/features.ts:33), and none of its requests begins after the deadline
   (ai/client.ts:80); and a caller's share of the public endpoints, and the mail to an
   address, are bounded (forgot-password/route.ts:20). *)
LimitsKept ==
    /\ N!OverrunByOverlapOnly
    /\ I!LimitOverrunByOverlap /\ I!StartsInTime
    /\ W!FairShare /\ W!MailBounded

(* An erased contact stays erased through restores and retries (privacy.ts:85), and a
   message that may be tried again has its text (privacy.ts:64); a booking is
   credited to the mail its link was in (calendly.ts:94), and a link to unsubscribe takes
   its reader off the list it came from (unsubscribe.ts:16).  A file is imported as it was
   written, whatever its cells hold (csv.ts:9), and every row of it is reported
   (leads/route.ts:84). *)
DataKept ==
    /\ P!ErasedStaysErased /\ P!RetryKeepsText
    /\ H!CreditedToItsMail /\ H!LeavesItsList
    /\ D!ReadAsWritten /\ D!EveryRowReported

(* The rules that decide mean what they say: a reply is a yes only when it is one
   (replies.ts:10), worse figures never raise a sender's cap (senderHealth.ts:49), a message
   waits for its working day and its hour (policy.ts:100, :39), a configuration saved again
   is the same (workspaceConfig.ts:66), a prospect is never relabelled as another, and a
   dummy qualifies like one that was bought (normalize.ts:1, dummyDiscover.ts:15), a test
   passes no bad key (providerCredentials.ts:152), and what was started can be sent
   (campaigns.ts:9). *)
DecidedAsMeant ==
    /\ U!YesMeansYes /\ U!WorseIsNotBetter
    /\ U!DueAfterTheWait /\ U!SameLocalHour /\ U!ConfigSettles
    /\ V!NeverRelabelled /\ V!DummiesQualify
    /\ Z!NoFalsePass
    /\ F!StartedCanSend /\ F!AcceptedRunRuns
=============================================================================
