# LeadMelo in TLA+

LeadMelo finds prospects, sends them sequences of e-mails, reads the replies and
books appointments.  A Next.js application and one or more worker processes
(`worker/index.ts`, a loop around `tick` of `lib/worker.ts`) share one PostgreSQL
database; a separate gateway process buys prospects from vendors.  Nothing is kept
in memory from one job to the next, so almost everything that can go wrong is an
interleaving of database transactions, provider calls, crashes and the clock.  These
modules model those interleavings, TLC explores them on small instances, and TLAPS
proves for every size every invariant and action property that the runs check, of the
core and of the components around it; liveness is left to TLC.

All paths below are relative to the repository.

## 1. Inventory

| Part | State it keeps | Operations | What is hard | What makes it correct | Here |
|---|---|---|---|---|---|
| Mail receipts (`lib/m365/send.ts`) | `MailReceipt` row per message key: status, draft id, request hash | `sendMicrosoft`: bind, create a draft, submit it, reconcile, recover | crash or lost answer between any two steps; a send that outlives its timeout; two workers on one key | the recipient gets at most one message, the text first bound to the key; "accepted" is reported only for a sent message | `MailReceipt`, `AtMostOnceSend` |
| Outreach queue (`lib/worker.ts:150-411`, `:422-426`) | `OutreachEvent`: status, attempts, lease, schedule, reservation, approval | due query, claim, recheck, provider call, completion, catch, sweep | lapsed leases, stale attempt counts, stops during a call, caps shared by workers | bounded attempts, caps, order of the steps, no message after a stop or a suppression, nothing stuck | `OutreachSend`, with the receipts `Delivery` |
| Discovery runs (`lib/worker.ts:36-145`, `:415-421`, `app/api/automation-runs`) and spend (`lib/usage.ts`) | `AutomationRun`, `Enrollment`, `Contact`, `UsageLedger` | schedule, POST, claim, discover, enroll, reserve, settle, finish, fail, sweep | retries, take-over, requeue while running, two campaigns on one contact | caps, one owner per contact, purchases covered, finished runs stay, every run ends | `DiscoveryRun` |
| Discovery gateway (`gateway/src/`) | results per key, people bought, cursors; jobs in flight | store, Apollo and Hunter paging, normalization | restarts, joined calls, lost answers, budgets | one answer per key, nobody bought twice | `Gateway`, `Prospects` |
| Bookings (`lib/calendly.ts`, `lib/calendlyReconcile.ts`, `lib/webhooks.ts`) | `Appointment`, event log, reconciliation pass | webhook, reconciliation, manual qualification | one booking by two routes, late, twice or never | the newest event wins; the calendar is mirrored in the end | `Bookings`, `Links` |
| Mailbox sync (`lib/m365/sync.ts`) | delta cursor, lease, event log | poll, page, receipt confirmation, alert | crash between page and cursor, expired link, stale cursor | no message skipped, no reply counted twice, the inbox is handled in the end | `MailSync` |
| Campaigns and experiments (`lib/campaignVersions.ts`, `lib/experiments`) | contents, versions, tests, recommendations | edit, rollback, activate, start, conclude, accept | an acceptance in several transactions; edits meanwhile | whatever was said can be restored; the tested copy does not change | `Campaigns`, `Gates` |
| Accounts and people (`lib/identity.ts`, `lib/totp.ts`, `lib/onboarding.ts`, `app/api/users`) | users, links, sessions, second factor, requests, invitations | sign-in, reset, enrollment, approval, invitation, switch | read-then-write calls that overlap | links and codes work once; an administrator remains | `Accounts`, `Team`, `Secrets`, `Throttle` |
| Plans (`lib/entitlements.ts`) | plan, counts, ledger | activate, create, send, buy, change of plan | check-then-act | limits are overrun by overlapping calls alone | `Plans` |
| Provider credentials (`lib/providerCredentials.ts`) | saved keys; keys in the gateway's memory | save, push, call, recover, test | lost push, restart, two administrators | a saved key serves in the end; a test never passes a bad key | `Credentials`, `Probes` |
| Reverification (`lib/reverification.ts`) | request, attempts, a lease without a token | park, claim, call, settle, collect | a late failure after a take-over; evidence refused for its date | at most three attempts; a request ends | `Reverification` |
| Alerts (`lib/alerts.ts`) | `Alert`: attempts, lease, delivery | raise, claim, deliver, acknowledge | lost answer, several workers | delivery stops once recorded | `Alerts` |
| Sender health (`lib/senderHealth.ts`) | `SenderProfile` | recompute, external event | a stale write over a newer event | a sender that bounces stops | `SenderHealth`, `Rules` |
| Privacy (`lib/privacy.ts`, backup and restore scripts) | all of a person's rows, ledger of erasures, backups | erase, retain, dump, restore, replay | erasure between dump and restore | the erased stay erased; a retry has its text | `Privacy` |
| AI drafting (`lib/ai/`) | events of the day | charge, chat, retry | waits and retries under one deadline | bounded requests, none after the deadline | `AiCalls` |
| Worker loop, readiness, monitor (`worker/index.ts`, `app/api/ready`, `deploy/monitor`) | heartbeat, failures, pages | tick, check, page | a step that throws, refused notices | an outage is paged, the loop survives | `Watch` |
| Texts and files (`lib/outreachContent.ts`, `lib/csv.ts`, `lib/unsubscribe.ts`) | none, or one row | render, import, sign, verify | boundaries | a text is rendered once, a file reads as written, links lead back | `Copy`, `LeadImport`, `Links` |
| Rules (`lib/policy.ts`, `lib/replies.ts`, `lib/workspaceConfig.ts`) | none | pure functions | clocks, order of patterns, thresholds | they mean what they say | `Rules`, `Gates` |
| User interface, themes, schema, deployment, assistant | - | - | - | - | not modelled (section 8) |

How they meet: the tables are the only shared state.  Discovery writes enrollments and
the first outreach rows; the outreach worker sends them through a mail provider (the
Microsoft adapter goes through `MailReceipt`); replies, bounces and bookings come back
through the mailbox sync and webhooks into `handleProviderEvent`, which stops
enrollments and cancels rows, possibly while a worker is in the middle of sending one.
`tick` runs the schedulers and the sweepers.  Transactions that must not race lock the
sender (an advisory lock) and then the tenant's row, or update a row conditionally.

`PROJECT.json` lists every part with what is left out of it and, under `hazards`, each
place where this can go wrong, at its line, with the properties that watch it.

## 2. Modules of the core

### `MailReceipt`, with its abstraction `AtMostOnceSend`

One message key, any number of `Caller`s, any number of `Input`s (texts whose request
hashes differ).

| Model | Code |
|---|---|
| `status`, `draftId`, `requestHash` | the `MailReceipt` row |
| `pc`, `input`, `held` | where a running `sendMicrosoft` is, its argument, the row it has read |
| `created`, `content`, `inflight`, `sent` | Graph: drafts, their text, requests on the wire, messages sent (external) |
| `returned`, `recovered` | history: ids reported as accepted; a receipt was reset |
| `Begin`, `BeginAccepted` | the upsert and the branch on its result (`send.ts:40-67`) |
| `Recover` | the reset of an AMBIGUOUS or SUBMITTING receipt without a draft (`:58-66`) |
| `ClaimCreate`, `DraftCreated`, `DraftRejected`, `DraftUncertain` | NEW to CREATING by compare-and-set, and the three outcomes of the draft request (`:67-98`) |
| `ClaimSubmit`, `SubmitAccepted`, `SubmitUncertain` | DRAFT to SUBMITTING by compare-and-set, and the two outcomes (`:99-112`) |
| `ReconcileSent`, `ReconcileUncertain`, `ReconcileWrite` | reading the draft back and the unconditional update that follows (`:50-57`) |
| `Crash`, `GraphSends`, `GraphLoses` | a process ends between any two statements; Graph sends late or never |

Each statement and each answer is its own step.  A throw ends the call; a call that
timed out leaves its request in `inflight`.  `Serial = TRUE` restricts calls to
non-overlapping ones; `Serial = FALSE` lets any number overlap, which is real: an
outreach lease is two minutes from the start of a *pass* and nothing renews it, so a
slow pass overlaps with the worker that takes its row over.

`AtMostOnceSend` is what any provider adapter promises for a key: at most one
delivery, and only deliveries are acknowledged.  `MailReceipt!ImplementsAtMostOnce`
maps `delivered` to `sent` and `acknowledged` to `returned`.

### `OutreachSend`

One campaign, any number of workers and contacts, a sequence of `LastStep` steps and
the booking invitation (step 0).  A row is `<<contact, step>>`.

| Model | Code |
|---|---|
| `status`, `attempts`, `token` | `OutreachEvent` columns; the token is the worker that wrote it |
| `leased`, `due`, `reserved` | `leaseUntil` in the future, `scheduledAt` passed, `reservedAt` within 24 hours |
| `approved`; `outdated`, `reviewed` | `approvedAt`; history: given before the last material edit, given by an operator |
| `present`, `stopped`, `suppressed`, `booked`, `met` | contact and enrollment exist, `stoppedAt`, suppression list, appointments |
| `gateOpen` | every condition of `outreachWaitReason` but the approval, with `sendAllowance` and a stale verification |
| `pc`, `batch`, `cur`, `seen` | a worker: its point, the candidates of its pass, its row, the attempts it read before the claim |
| `accepted`, `calls` | the provider accepted the row (external); history: calls made |
| `StartPass`, `EndPass` | `processOutreach` (`worker.ts:377-411`) |
| `SkipRow`, `CloseRow`, `DeferRow`, `DropRow`, `ClaimRow` | the preparing transaction and its five outcomes (`:230-307`) |
| `RecheckLost/Closed/Waits/Clear/Fails` | `recheckOutreachBeforeSend` (`:156-216`) and its failure |
| `ProviderCall` | the provider's answer, or an answer that is lost (`:315-319`) |
| `RecordSent`, `RecordLost`, `RecordFails` | the completing transaction (`:320-349`) |
| `FailRow` | the catch block (`:350-358`) |
| `Sweep`, `Crash`, `LeaseExpires`, `BecomesDue`, `DayPasses` | `tick`'s sweepers, a dying process, the clock |
| `Suppress`, `ReplyPositive`, `ReplyOther`, `BookingEvent` | `lib/webhooks.ts` |
| `ManualBooking`, `StoppedElsewhere`, `Approve`, `MaterialEdit`, `Erase`, `ToggleGate` | the web requests and other jobs that touch the same rows |

### `DiscoveryRun`

One tenant, any number of campaigns, runs, workers and prospects.  Runs are either
`Scheduled` (by `scheduleRuns`) or `Requested` (keys of `POST /api/automation-runs`).

| Model | Code |
|---|---|
| `status`, `attempts`, `token`, `leased`, `due` | the `AutomationRun` row |
| `ledger` | the `DISCOVERY_PROSPECT` entry of the run's key |
| `enrollment`, `recent`, `suppressed` | state of each enrollment; created within the week; suppression list |
| `answer` | what the gateway stored for the run's key (external) |
| `pc`, `cur`, `tried`, `allowed`, `left` | a worker: its point, run, attempt, limit, prospects still to enroll |
| `api` | a POST between its read and its upsert |
| `Schedule`, `PostRead`, `PostWrite` | the two ways a run enters the queue |
| `Claim`, `CancelRun`, `Reserve`, `Discover`, `DiscoverFails` | `processRun` up to the answer (`worker.ts:52-79`) |
| `Enroll`, `EnrollDummy`, `PassOver` | one transaction per prospect (`:80-126`) |
| `Settle`, `Finish`, `Throws`, `FailRun` | settlement, success, the catch block (`:127-143`) |
| `SweepExhausted`, `SweepInactive` | `tick` (`:415-421`) |
| `Stops`, `Cools`, `Suppress`, `Toggle`, `WeekPasses` | what the rest of the system does to the state a run reads |

### `Delivery`: the queue on top of the receipts

`OutreachSend` and `MailReceipt` as two instances that share their workers.  A worker is
a caller of `sendMicrosoft` exactly while its point in the queue is "cleared".  A call
that returns an id (`Returns`) or throws (`Throws`) is one step with the queue's
`ProviderCall`; the steps between (`Continues`), Graph, the clock and every other step of
the queue (`Queue`, `Around`) interleave freely, and a crash ends both.  Nothing is said
about overlap: it arises from leases that end while their call runs, and from workers
that die.  One contact, one step, suppression during the call, three attempts; the proof
of `DeliveredAsRecorded` covers any number of workers, attempts, texts and drafts.

## 3. Modules around the core

Each is a specification of its own, with the statements between two awaits of the code
as one step.  A call in progress has a point (`at`) and what it has read (`read`, `got`).

| Module | Models | Actions and their code | Left out |
|---|---|---|---|
| `Accounts` | one account and the calls on it | reset links: `Supersede`, `Create`, `ResetRead/Write` (`lib/identity.ts`, `lib/passwordRecovery.ts`); `Login*`, `TotpCode`, `RecoveryCode`, `OpenSession` (login route); `Setup`, `Enable`, `Disable` | hashing, session expiry |
| `Team` | requests, invitations, seats, administrators | `Submit`, `Approve`, `Deliver`, `Resend` (`lib/onboarding.ts`); `Invite*`, `Accept*` (`lib/identity.ts`); `Switch*` (`app/api/users`) | texts of mails |
| `Campaigns` | versions and a test of the first step | `Edit`, `Rollback`, `SetStatus` (`lib/campaignVersions.ts`); `Evaluate`, `Conclude`, `Apply`, `ApplyFails`, `Undo`, `Record` (`lib/experiments`) | statistics, assignment by hash |
| `Bookings` | appointments and the calendar they mirror | `Webhook`, `StartPass`, `ReadInvitee`, `Reconcile`, `Abandon`, `Interrupt`, `Qualify*` | hand-made appointments, the window of a pass |
| `MailSync` | one mailbox and its pollers | `Find`, `Claim`, `Confirm`, `Page`, `HandleItem`, `RaiseAlert`, `Advance`, `PollFails`, `LinkExpired` | how a message finds its thread |
| `Gateway` | the store and its jobs | `Call`, `Searched`, `Enriched`, `Verified`, `Checked`, `VendorFails`, `Crash` | eviction, vendors' rate limits |
| `Reverification` | one contact's request | `Park`, `Find`, `Claim`, `Answered`, `Settle`, `Fail`, `Collect` | clocks of gateway and worker that differ |
| `Alerts` | one alert, and the rule it triggers | `Raise`, `Find`, `Claim`, `Post`, `Record`, `Acknowledge` | a muted rule: the rule is assumed on (a rule for a muted code does nothing, `lib/alerts.ts:8`) |
| `SenderHealth` | one sender's profile | `Look`, `Measure`, `Write`, `External`, `Complaint` | the ramp, but for the caps in `Rules` |
| `Credentials` | vendor keys in the database and in the gateway | `Save`, `Load`, `Push`, `Begin`, `Call`, `Restart` | clearing single keys, keys in the tenants file |
| `Privacy` | a person's rows, dumps, the ledger | `Erase`, `Retention`, `Dump`, `ExportLedger`, `Restore`, `Reapply`, `Promote` | encryption and upload of backups, export |
| `AiCalls` | requests for drafts | `Count`, `Charge`, `Throttled`, `Dropped`, `Answered`, `Incomplete` | prompts, texts |
| `LeadImport` | a file, its reader, its rows | `Upload`, `InQuotes`, `OutsideQuotes`, `EndOfFile`, `WriteRow`, `Repeat` | other columns |
| `Plans` | the limits and the calls they bound | `AskActivate`, `Activate`, `AskExperiment`, `CreateExperiment`, `ClaimEmail`, `Reserve`, `Settle`, `SetPlan`, `TrialEnds` | seats (in `Team`) |
| `Watch` | loop, readiness, monitor | `NextStep`, `EndTick`, `Throws`, `CheckGood`, `CheckBad`, `Notified`, `Refused`, `AnswerLost` | what the steps do |
| `Throttle` | the budgets of the public endpoints | `Ask`, `Counts`, `Answer`, `Sweep` | endpoints with one budget |
| `Links` | signed links and deliveries | `Send`, `Unsubscribe`, `Post`, `Deliver`, `Rotate` | the cryptography: a signature is what was signed |
| `Rules`, `Prospects`, `Probes`, `Copy`, `Gates`, `Secrets` | functions of their input | one action asks one question, the properties look at its answer | wording and formats that no property tells apart |

`Rules` is the policy of `lib/policy.ts`, `replies.ts`, `senderHealth.ts` and
`workspaceConfig.ts`; `Prospects` the way of a vendor's person through
`gateway/normalize.ts` to `qualifyProspect`; `Probes` the tests of the Settings page;
`Copy` a message from its template to the mail adapter; `Gates` the three lists of what
must be in order before a campaign is activated, run and sent; `Secrets` base32 through
JavaScript's 32-bit accumulator.  Addresses are stored in lower case
(`lib/providers.ts:7`), so a model value stands for one.

### `Services`: the components together

`Services` instantiates `Delivery` and sixteen modules of this section side by side,
each with variables and constants of its own, and beside them the six modules of
questions; its `Spec` is the conjunction of theirs, so that any of them, or several, may
take a step.  Each group of constants has its named assumption, and the safety properties
of the components are gathered there, ten invariants and an action property, by what they
promise: it is the module that section 5 proves about.  Only `Watch`, whose properties are
about liveness, is not part of it.

### The `MC*` modules

Small sets of model values, the event sets, and the symmetries (none where liveness is
checked).  `MCMailCalls` has two scenarios, serial and overlapping calls; the second ends
at the first reset, after which the overlap can deliver twice.  `MCServices` gives
`Services` its values; it and `MCLive` hold many components in one state space.  They keep their
state in different rows, files
and processes, so their product would only multiply what each does alone: the rigid
variable `focus` names the one that moves, all others stay in their initial states, and
an invariant of the run is a conjunction over the components it concerns.  `Plans` and
`Links` fall into two halves each: requests and what is used up share only the plan, the
links to unsubscribe and those to book only the messages, so the halves too move one at a
time (`plans`, `usage`, `urls`, `leaving`).  Every behaviour
of `MCServices` is one of `Services`.  Where two components do touch the same row the touching operation is part of the module
(`OutreachSend` has `Suppress`, `Approve`, `Erase`, `BookingEvent`; `SenderHealth` has
`External`), and `Delivery` composes the two that call each other.

`*_Something` operators beside a definition, each introduced by a comment `Mutant:`, are
plausible bugs of that definition; substituting one makes TLC violate the property it is
paired with in `PROJECT.json`.

## 4. Runs

`CHECK_DEADLOCK FALSE` everywhere: a system whose queue is empty stops, and a question
that was asked has no successor.

| Run | Question | Instance | Result |
|---|---|---|---|
| `MailReceiptCalls` | does the protocol deliver at most once, report truthfully and implement `AtMostOnceSend`; which race of overlapping calls is not settled by a compare-and-set? | 2 callers, 2 texts, 3 drafts; serial, and overlapping up to the first reset | holds |
| `MailReceiptTwice` | is a message sent at most once when calls overlap? | the same, overlapping | violated, see 6 |
| `OutreachQueue` | are attempts bounded, rows claimable, steps in order, terminal rows final, stopped sequences closed? | 2 workers, 1 contact, 3 steps (the third unreadable), 2 attempts, cap 3, review; approvals, edits, gates, suppression, stops | holds |
| `OutreachPeople` | do suppressions, replies, bookings and erasures win over workers; does the cap hold; does review let anything unreviewed out? | 2 workers, 1 contact, 1 step and the invitation, 2 attempts, cap 1, review; replies, bookings, approvals, suppression, days, erasure, stops | holds |
| `OutreachStaleApproval` | does a material edit leave an old approval on a queued row? | 1 worker, 2 steps | violated, see 6 |
| `DiscoveryQueue` | are purchases covered, is the spend cap kept, do finished runs stay? | 2 workers, a scheduled and a requested run, 2 attempts, spend cap 1; POSTs | holds |
| `DiscoveryEnroll` | do the weekly caps, single ownership and suppression hold? | 2 workers, 2 campaigns with a run each, 2 prospects (1 dummy), caps of 1; weeks, suppression, stops, pauses | holds |
| `DiscoveryResettled` | does a retry ask the gateway for the same thing? | 1 worker, 2 prospects | violated, see 6 |
| `Services` | what may never happen in the components of section 3 and in `Delivery`, and do the rules mean what they say? | `MCServices` | holds |
| `Live` | what must happen in the end? | `MCLive`, 8 components | holds |
| `FreshEvidence` | does a definite answer release the messages that wait for it? | 1 worker, 2 requests, no crash | violated, see 6 |
| `SettingsAuthoritative` | does the gateway end up with the key on the Settings page? | 1 administrator, 1 worker, 2 keys | violated, see 6 |

What the properties of `Services` say:

- `Typed`: the state of each of the seventeen components is well typed.
- `AccountsKept`: a reset link, a code of the second factor and a recovery code are
  accepted once, but for the codes that the second factor's own calls make good again by
  writing the last step without a condition (`lib/identity.ts:112-118`); an approved request has its account; an active administrator remains;
  the secret of a second factor is read back from its text.
- `CampaignKept`, `TestedCopyKept`: whatever a campaign said can be restored; an accepted
  recommendation was applied; the copy under test does not change during the test.
- `InboundFaithful`: an appointment shows the newest event; what a mailbox's cursor
  passed over was handled, a reply once, and a notice raised its alert but for a crash
  between its record and the alert.
- `DeliveredAsRecorded`: what is recorded SENT was sent, and a message arrives twice only
  from the third attempt on; its text is rendered once, the same at every attempt, and fit
  to send.
- `GatewayOnce`: a key has one answer; nobody is bought twice but by two jobs at
  once or for an answer that was lost.
- `RetriesBounded`: three attempts of a verification, no delivery of an alert that is
  recorded delivered, three requests for each message of a draft.
- `LimitsKept`: plans and daily limits are overrun by overlapping calls alone; no AI
  request starts after its deadline; a caller's share and an address's mails are bounded.
- `DataKept`: erased people stay erased through restores; a retry has its text; a booking
  is credited to its mail; a link to unsubscribe takes its reader off the right list; a file
  of leads is read as it was written and every row of it reported.
- `DecidedAsMeant`: a wait lasts its working days and ends on one; a follow-up keeps the
  local hour across a change of the clock; a saved configuration stays as it was read; only
  a positive reply is one; worse figures never raise a sender's cap; a prospect is never
  relabelled as something else, and dummies qualify; a test passes no bad key; a campaign
  that was started can send, and an accepted run runs.

**Bounds and why they are enough.**  The code's `MAX_SEND_ATTEMPTS` is 5,
`MAX_RUN_ATTEMPTS` 3, caps are tens: the instances use the smallest values that still
have a first, a middle and a last attempt, a step with and without a successor, and a cap
that is met.  `Reverification` has the code's own bound of 3 attempts.  `Watch` pages after 2 failures
where the script needs 3 (`FAILURES_TO_PAGE`).  `Secrets` uses an accumulator of 16 bits
for JavaScript's 32; 12 suffice for what is live at once and 11 fail, so the width is
not what makes it pass.  Two workers, or two calls, are needed for every race; where only one
is used (sender health, credentials in `Live`) the race is with another actor.  Bounds that
exist only to keep exploration finite are `MaxDraft`, `Event` (which outside events a run
explores), `MaxFault`, `MaxCrash`, `MaxBroken`, `MaxLost` (how often something fails),
`MaxSave`, `MaxBuys`, `MaxRequest`, `MaxClock`, `MaxBackup`, `MaxKey`, `MaxMail`,
`MaxEmails`, `MaxRequested`, `MaxPassword`, `MaxSecret`, `MaxStep`, `MaxVersion`,
`MaxPieces` and `MaxBytes`; each stands in a guard.  `MaxSecret` counts secrets and
recovery codes; 2 are the secret and the codes of one enrollment, which two overlapping calls
confirm and disable.  The four campaigns of a plan, two of them of one sender, are one more
than its limits and an overlap of two requests allow.  The two weekly caps of
`DiscoveryEnroll` are equal so that both bite.

**Fairness.**  Only `Live` assumes any, each component its own.  Crashes, people,
pauses and webhooks are never fair.

| Component | Fair | Because |
|---|---|---|
| `OutreachSend`, `DiscoveryRun` | worker steps, the clock, the sweepers (WF); a claim per row (SF) | a worker that runs goes on; the due query orders by `scheduledAt` and the claim of runs by `createdAt`, so a row that is claimable again and again is not passed over for ever |
| `Bookings` | passes of the reconciliation, their reading, the time of a booking passing (WF) | `tick` reconciles in every round; Calendly answers in the end (`MaxBroken` interruptions) |
| `MailSync` | the pollers' steps, the end of a lease, the poll coming due, the sent copy appearing (WF) | a lease is 120 s and renewed per message and receipt; a copy that never appears stops the mailbox and is an alert |
| `Reverification` | the sweep, the clock, the worker (WF) | `tick` calls all three |
| `SenderHealth` | ages and the look (WF); measuring and writing (SF) | a look that fails is made again an hour later; DNS does answer in the end |
| `Credentials` | the steps of whoever runs (WF), and new calls | vendors are called in every pass |
| `Watch` | the loop and its restart, the checks, a notice being refused (WF), a notice getting through (SF) | `restart: unless-stopped` in `docker-compose.selfhosted.yml:71`; the loop sleeps 5 s, the heartbeat counts for 120 s; the monitor runs from cron |

`EveryRowResolved` asks for the gates to stay open eventually, since rows rightly wait
while they are closed; `InboxHandled` for the mailbox to stay connected.

## 5. Proofs

`*_proofs` modules, checked by TLAPS with Z3, Zenon and LS4, for every value of the
constants.  Assumptions on constants are the named `ASSUME`s of the modules, all evaluated
by the runs: of the core, attempt bounds and sequences of at least one, natural caps,
distinguished "nobody" values that are not elements of the sets they stand beside, and
finitely many prospects; of `Services`, one named assumption per component, which say that
bounds and limits are natural numbers, that there are finitely many handlers and workers
(their calls are counted) and that `None` is not a record of the component.  Those about
questions say what the world is like: no clock is more than 14 hours from UTC, a calendar
has a last day (`RulesAssumption`), what an operator's tables equate means the same
(`TablesAssumption`), cells are texts (`LeadsAssumption`), "nothing" is not a text
(`TextsAssumption`), a byte is one and the accumulator of the secrets has twelve bits or
more, where JavaScript's has 32 (`SecretsAssumption`).  Workers, contacts, callers and
texts of the core need not be finite.

**`MailReceipt_proofs`.**  `Typing` and `BoundContent` (`DeliveredAsBound`) hold
however calls overlap; the invariant of the second is `Bound`: the hash is fixed by the
first call, every running call has that hash, and every draft was made from it.  The
rest is proved from `SafeInv`, an implication: *while no receipt has been reset, or if
calls are serial*, there is at most one creator of a draft (`OneCreator`), the one
draft in use is the one the row names and it is not on the wire while the row says
DRAFT (`OneDraft`), what is accepted was sent (`AcceptedIsSent`), and a serial call
that resets does so before a draft is known (`OneCall`).  At-most-once alone is not
inductive: without `OneDraft` a step could submit a second draft.  From it follow
`SerialAtMostOnce`, `SerialReported`, `OverlapAtMostOnce` (two deliveries need a reset),
`OverlapNeverResubmitted` and `SerialImplements`, the refinement of `AtMostOnceSend`
(assuming `Serial`), step by step: a `GraphSends` is the
delivery, a reported acceptance is an acknowledgement, all else stutters.

**`OutreachSend_proofs`.**  Every safety property of the passing runs.
- `Quota`: only a claim adds a reservation, and it counts the *other* rows' first, so
  the set grows by at most one below the cap (lemma `Reservations`).
- `Budget`: `calls[r]` plus the number of workers that have claimed `r` and not called yet is at most
  `attempts[r]`.  The count of those workers (`Engaged`) is what makes it inductive: it
  pays for the attempt that `RecheckWaits` gives back.
- `Claimability`, from `RowInv`: while a worker holds a row, `attempts` is what the
  worker read plus one (`Counted`), so the catch block's decision on its stale count is
  right; a row that does not exist has no attempt and no holder (`Fresh`).
- `Terminality`, `NoGrowth`, `Ordering`, from `RowInv` and the lemma `Lifecycle`, which
  lists all the ways any step can change a row.
- `Suppression`, `NoChasing`, from `PersonInv`: suppression and the invitation stop
  the enrollment in the same transaction, which is what keeps a later completion from
  queueing the next step.
- `Reviewing`, from `ReviewInv`: approvals, rows cleared for the provider, accepted rows
  and existing follow-ups are all traced back to an operator; the last part carries the
  inheritance along the sequence.

**`DiscoveryRun_proofs`.**  `Typing`, `Coverage` (from `Backed`: a worker asks for no
more than the ledger entry of its run unless an answer is already stored), `Ownership`, `Suppression`,
`Caps` (with the finiteness of `recent`), `Finality` (from `HolderRuns`: whoever has the token of a run
finds it RUNNING).  `Spending` (`SpendCapHolds`): `Spent` is the sum of a fold over the
ledger's keys.  A new entry is at most what the cap leaves beside all that is entered
(`ReservationFits`), an entry that exists is used again and not added to, and settling only
lowers one.

**`SetLemmas`.**  The fold that `Spent` and the allowances of `Plans` are made of.  A fold
picks elements in an order of its own; the lemmas show that the sum exists
(`SumsUpToExist`, by the least counterexample, since no induction scheme is available),
that it does not depend on the order (`SumsAnyOrder`), that a member can be taken out
(`SumOfSplit`) and what one changed member does to it (`SumOfChanged`).  The same for
sequences joined one after the other (`FlattenJoins`, `FlattenPrefixes`), which are the texts,
files and lists of the modules.

**`Messages_proofs`**, what is sent and what comes back.
- `Composed`: every step of `Delivery` is a step of the queue, of the receipt or of
  both, so that `Delivery` implements both specifications and what holds of either alone
  holds in the composition.
- `Delivering` (`DeliveredAsRecorded`), from `DeliveryInv`.  A reset needs a receipt left
  uncertain without a draft, and that takes a call that ended; every ended call and every
  call under way has used up an attempt (`UsedUp`, the attempts less the one that a
  recheck may still give back), so that up to the second attempt a call that resets runs alone
  (`OneCallLeft`), and `Single` holds: one creator of one draft.  The third attempt can
  overlap with a reset, and the finding `MailReceiptTwice` is what then happens.  For the
  text, `CopyInv` says that a mail comes from two templates and a value: what is rendered
  has a footer or a link of its own, and so is given none again, a filled text has no brace
  left, and the markup of an escaped value is not markup.
- `Inbound` (`InboundFaithful`), from `BookingsInv`: an appointment is dated by the newest
  event of its log (`Shown`); and `MailInv`: of the messages up to the link a poll would
  go on from, each was handled or is still before that poll (`PollInv`).  That holds of
  every poll, also of one that lost its lease.
- `SecretsRead`, cited by `Admitting`: encoder and decoder are followed together, a byte at
  a time.  `Meets` says that of all bytes but the last everything is read back, and
  that of the last the decoder holds the bits it was given and the encoder the rest, for each
  of the five ways in which bytes and letters can meet.  Both accumulators are taken modulo
  their width; what the next group needs is within the lowest twelve bits (`Wide`), which is
  where the assumption comes from.

**`Workspace_proofs`**, what a workspace keeps.
- `Keeping` (`DataKept`), from `LinksInv`: who is off a list was written to from it, and a
  link once refused was signed with a key that does not come back; `PrivacyInv`: while the
  live database serves, everyone erased is gone from it (`Gone`), and in a restored one
  everyone of the ledger who is not still to be replayed; and what `Retries_proofs` shows
  of the import.
- `Restoring`, `Testing` (`CampaignKept`, `TestedCopyKept`), from `CampaignInv`:
  `VersionsKept` (a version is stored once its number is reached, and the current one is the
  campaign as it is) and `EditorsInv` (a call about to record a winner found it applied).
- `Admitting` (`AccountsKept`), from `TeamInv`: what a call carries between its statements is
  of the kind its point says, whose request or account exists, and an account in the
  workspace of a request was made by its approval; and `AccountsInv`: whatever was accepted
  is spent (`SpentOf`), a link by its mark, a recovery code by its absence, a code by the
  last step of its account, unless that was written back.  The first attempt to prove it
  failed because `OneTimeSecrets` was too narrow: two enrollments that overlap, or one that read
  the account before a code of the secret was accepted, make that code good again, since
  `lib/identity.ts:112-114` writes the step without a condition.
- `Retrying` (`RetriesBounded`) and `Typing`, which need lemmas of all the others.

**`Limits_proofs`** (`Limiting`, `LimitsKept`), from `ChatsInv` (requests so far are below
what the current message and attempt allow), `ChargesInv` (the events of a day and the calls
between count and event exceed the limit by at most the other handlers), `BudgetsInv`
(whoever passed a count in this hour is in its row, and the counts are made in their order)
and `PlansInv`: until the plan changes, what is active or allowed, with the senders it
needs, exceeds the limit by at most the other handlers, mails by the other workers, and
what the runs reserve, a sum of `SetLemmas`, not at all.

`Capping` and `Deciding` (`DecidedAsMeant`), the rest of the same module.  A rule is a
function, so that there is no invariant to strengthen but what can be asked
(`Askable`, `Figures`); the work is in the lists.  The pattern, ramp step or check that
decides is the first or the last of those that apply (`FirstSign`, `RampStep`, `Reasons`), a
minimum that `Least` shows to exist.  `Capping` compares any two senders, of whatever
figures, and not only neighbours as the run does.  That a prospect is not relabelled follows from
`TablesAssumption`: what the operator's tables equate means the same, and no word is
spelled like a head count.  A walk over the calendar, and the list of an operator's own
rules, are recursive functions: that they have the value the property needs is shown by
the least day, or the shortest list, for which it would not.  Of the clock, each
correction tries one of two instants, by the offset before the change or after it, and the
three ways in which they lie around the change are the three cases of `LocalHour`.  The first attempt failed for a reason of the models': guards of
a `CASE` that overlap (a test of a key not saved, say) leave the value open in TLA+, where TLC
takes the first, and the order of the code's checks was lost.  They are `IF`s or disjoint
now, in `Probes`, `Copy`, `Plans` and `Accounts`.

**`Retries_proofs`**, for `Retrying`: `AlertsInv` (whoever delivers holds the
lease, and nobody who looked before has the attempts he would claim) and `VerificationInv`
(every call made for the pending request is counted with its contact); `Gatekeeping`
(`GatewayOnce`) from `AnswersInv` (a key in flight has no result, and whoever was told was
told the result) and `BillInv` (of a person nobody excused, at most one job asks, and whoever was
bought is marked and not asked for again).  The import of leads, for `Keeping`: `LeadInv` (the
rows reported and those still to write are those of the table), and `FileInv`.  `FileLaid`
says where in the text each row, cell and character of the file lies, and
`Reading` what the reader holds at each of these places: the rows before, the cells
before, and of the cell the characters before, a quote counted once.  Each turn of the loop
goes from one such place to the next, so that at the end of the text the table is the file.

**`Typing`** (`Typed`, at the end of `Workspace_proofs`).  A lemma per component
(`AccountsAreTyped`, ...), each beside the component's other proofs.  Several `TypeOK`s
are not inductive as they stand: what a call has read is typed with it (`AccountsTyped`), a
backup holds typed rows and a restore replays entries of its ledger (`PrivacyIsTyped`), a
link names the list and the reader of its message (`LinksAreTyped`), a recomputation of a
sender's health carries what it has measured (`HealthInv`).

**Only model-checked.**  Liveness, which needs ENABLED: the properties of `Live`, and so all
that is said of `Watch` and the promises of `SenderHealth` and `Credentials` beyond their
types.  The findings of section 6 are counterexamples.  Every invariant and every action
property of a passing run is a theorem, as is the refinement.

## 6. Where the code and its text disagree

- **A message can be delivered twice** (`MailReceiptTwice`).  The reset of an uncertain
  receipt (`lib/m365/send.ts:65`) updates by key alone.  A call that read an
  AMBIGUOUS row without a draft can reset it after another call has reset it, made a
  draft and submitted that; the first then creates and submits a second draft.
  Overlapping calls for one key exist because a lease is two minutes from the start of a
  pass and is not renewed.  A condition on the status in that one update removes the race: it is the only one
  (`OverlapAtMostOnce`), and it takes three attempts (`DuplicateTakesThree`).
- **Old approvals survive a material edit** (`OutreachStaleApproval`).
  `lib/campaignVersions.ts:60` promises that queued sends must be approved again, but
  only rows that are QUEUED at that moment are revoked.  A row that is SENDING goes back
  to QUEUED with its approval after a failed attempt, and passes it to its follow-up.
- **A retry can send a different request under the same key** (`DiscoveryResettled`).
  `settleProviderSpend` runs before the run is marked SUCCEEDED; if the worker dies in
  between, the retry reuses the *lowered* reservation as its limit and the gateway
  refuses it with 422 until the attempts are used up.
- **A fresh answer does not release what waits for it** (`FreshEvidence`).
  `lib/reverification.ts:18` refuses evidence dated after the moment its pass began, and
  the vendor is asked during the pass.  The attempt is spent; the stored answer is taken
  by a later one, if there is one.  `docs/OPERATIONS.md:24` says that valid fresh evidence
  releases deferred messages.
- **A replaced key can stay in use** (`SettingsAuthoritative`).  Keys are pushed again
  only when the gateway says it has none (`lib/providerCredentials.ts:86`).  After a push
  that fails the gateway goes on with the old key, although `:74` calls the Settings page
  authoritative.

Some definitions state what a comment or a plan promises and what TLC refutes on a small
instance; they stand beside the property that does hold, marked as refuted, and no run
has them: `AtMostOneLiveReset` (two links issued at once), `SeatsWithinPlan` (enabling a user
counts no seat), `ExperimentsWithinPlan` (a stopped test is started again), `LimitHolds`
(two AI calls at once), `ConfirmedBeforeAdvance` and `EveryNoticeAlerted` (the mailbox's
order between two statements), `NeverBoughtTwice` (a crash, or two jobs at once),
`ExternalLeftAlone` (a recomputation writes over a newer external event),
`UnsubscriptionSurvives` (a restore forgets opt-outs after the dump), `ImportedOnce` (rows
without a domain), `GoodSendsDoNotBlock` (one bounce in 20 blocks a sender that 19
did not), `ReadyMeansServing` (a step that always throws silences those behind it),
`OnlyDeliverable` (an answer without a result is valid), `RejectedIsWrong` (Hunter's 403
is its rate limit), `SyncedMeansHeld` (one vendor's key suffices), `RollingHour` (the hours
are the clock's), `AcceptedRenders` (a placeholder across subject and body), `TypeKept`
(a plain text with markup in a value), `LinkInEveryMail` (an author's own line replaces
the link), `LinkLasts` (a replaced key ends old links, as `docs/SECURITY.md` says).

Noted while modelling: a receipt left CREATING by a crash is never resumed (safe, and
left to an operator); `POST /api/automation-runs` can requeue a run that was claimed
between its read and its upsert (harmless, see `FinishedStays`); a follow-up inherits the
approval of the step before it although no one has seen its text; the QUEUED branch of
`tick`'s exhausted sweeper of outreach rows never finds anything (`Claimability`);
`docs/RELEASE_ACCEPTANCE.md:53` wants sending to stay blocked when the external health
feed stops, and after 36 hours without it the code computes the health itself;
`gateway/README.md:47` says that dummies already returned are remembered, and
`dummyDiscover.ts:49` returns them always; a comment at `lib/ai/client.ts:100` says that a
wait beyond the deadline becomes an immediate retry, and the code throws.

## 7. Abstractions

- **Time.**  Leases, backoffs, schedules, the 24-hour and 7-day windows and the
  cooldown are sets that clock actions move in any order: every timing of the code is a
  behaviour of the model, and some the clock would not produce as well.  Where the code
  excludes one it is excluded: a lease of `Alerts` outlives the request it covers (10 s
  against 60 s), so that only a dead worker's lease ends.
- **Transactions** are atomic, as PostgreSQL provides under the advisory lock and
  the row locks (`FOR UPDATE`); a transaction that fails is undone.  Calls without a lock read
  in one step and write in another.  Whether a commit whose answer is lost
  took effect is modelled for providers, not for the database.
- **A failed write in a catch block** leaves the worker where `Crash` leaves it.
- **`OutreachSend`**: the sender's, campaign's and tenant's daily caps are one cap, since every
  row of the modelled campaign counts towards all three; rows without a campaign or contact, the
  EMAIL_SENT ledger entry, experiments and rendering are left out; a missing step and a
  blank text are one set `Unreadable`; a lease token, random per claim, is the worker that wrote it.
  The dummy mode's reset of an existing row and its receipt (`worker.ts:106-117`) is left out.
- **`DiscoveryRun`**: one prospect costs one unit, the limit of 100 per run is not
  reached, and reading the weekly room and reserving the spend is one step; ICP edits
  between attempts, the tenant's suspension apart from the campaign's state,
  and the month boundary are left out.  The gateway keeps its answers there; its restarts
  are in `Gateway`.
- **`MailSync`** logs and counts what `handleProviderEvent` does to people, which
  `OutreachSend` models.
- **Cryptography** is symbolic: a signature is the record of what was signed and its key.

## 8. Not modelled, and plan

Not modelled: the user interface and themes, the database schema and deployment (their
unique keys and locks are part of the modules that use them), the assistant (fixed text),
the statistics of experiments (floating point), hashing and encryption, scoring and the
appointment engine (they order what is shown), the export of a subject, eviction of the
gateway's file, log and wording.  What is left out of each modelled part is in its note
in `PROJECT.json`.

Planned next:

1. What a recomputation of `SenderHealth` may not overwrite and whose key a call of
   `Credentials` uses, as invariants and theorems.
2. Abstract specifications of the bounded retries (`Reverification`, `Alerts`,
   `AiCalls`) and of the allowances of `Plans` and `Throttle`, which are alike, as refinements.
3. The reset of a row and its receipt in the dummy mode, composed with `Delivery`.
4. Appointments entered by hand and the window of a reconciliation in `Bookings`;
   eviction in `Gateway`.
