# Verification of ARBOR

TLA+ models of the parts of ARBOR (The Collaboratory's member site, staff
workspace, card readers and releases) in which several actors change the same
data. TLC checks each model on small instances; TLAPS proves the safety
properties of the most important ones for every value of the constants.

The backend is one Express process (two during a release) over PostgreSQL 16.
Concurrency comes from overlapping HTTP requests, the notification timer,
webhooks of Stripe and Brevo, readers at doors and machines, and operators'
SQL. `transaction()` (`backend/src/db.ts`) runs at PostgreSQL's default READ
COMMITTED, so correctness rests on row locks, advisory locks, conditional
UPDATEs, exclusion constraints and triggers. Around it are programs with state
of their own: the pages of the site, the relay controller, set-up agent and
network bridges of the readers, and the deployment service.

1. [Inventory](#inventory)
2. [What is modelled](#what-is-modelled)
3. [Runs](#runs)
4. [Fairness](#fairness)
5. [Proofs](#proofs)
6. [Findings](#findings)
7. [Seen while modelling](#seen-while-modelling)
8. [Plan](#plan)
9. [Not modelled](#not-modelled)

Paths below are relative to the repository's root.

## Inventory

Every component is listed in `PROJECT.json` with its sources; the hazards
listed there name the line at which each one bites.

| Component | State | Operations | What is hard | What makes it correct |
| --- | --- | --- | --- | --- |
| Reservations | `reservation`, with exclusion constraints and the cooldown trigger | create, edit, cancel, class and override bookings, settle and release of a hold, direct SQL | checks and write in one transaction, four kinds of writer, rows from before the cooldown rule | active bookings of a resource are apart; an edit replaces what its editor saw |
| Equipment card checkout | `app_equipment_checkout`, `payment`, the reservation's status; a Stripe session | checkout, webhook, reconcile, cancel | lost answers, late and repeated events, idempotency keys that expire, crashes between Stripe and the row | a slot is given away only when it cannot be charged; a charge ends in a booking |
| E-mail notifications and their scheduling | `app_notification_outbox`, `app_brevo_delivery_event`, `app_notification_preferences` | enqueue, claim, recheck, send, record, retry, sweep, unsubscribe; the scan for what expires | crash after the provider accepted, slow workers past their lease, callbacks before the answer, dates that move while a worker has the reminder | no mail twice; the record is true; an opt-out stops mail; a reminder is true when it is taken up |
| Sessions, sign-in, password reset | `app_refresh_family`, `app_refresh_token`, `app_session`, `app_password_reset`, the password and status of `"user"` | login, refresh, logout, reset, block, open and close another account | password checked outside the transaction, replayed tokens, blocking beside issuing | a reset, a block and a replay end what they should, whatever overlaps |
| Registration and confirmation | `app_pending_registration`, `app_email_confirmation` | register, confirm, resend, correct, prune | two registrations of one address, a corrected address, a link used twice | one account per address, proven by its owner |
| Visits and minor supervision | `app_facility_visit`, `app_minor_sponsor` and its requests and attempts | start and end a visit, ask, accept, decline, withdraw and reassign sponsorship | the sponsor leaves while the minor arrives; guesses at once | a minor is inside only with the sponsor inside; guesses are bounded |
| Reader access, equipment maintenance | `app_device_access_event`, `app_access_reader`, `equipment`, `app_equipment_outage` | a decision within 1.8 s; out of service, back | revocation beside the decision, an answer that is still on the wire | no power without the rights it rests on, one lease later at the latest |
| Access cards and readers | `app_access_card`, `app_card_enrollment`, `app_access_reader`, `app_reader_setup_job` | scan, assign, replace, revoke, reactivate; guided set-up | overlapping assignments, answers lost between server and agent | a fingerprint opens for one member, a scan serves once, what is complete is paired |
| Reader device | the relay's timers, the agent's jobs and files, the bridge's view of a reader | lease, renewal; poll, decide, deliver; restart | timers that fired, requests given up that still arrive | power ends with its lease and belongs to the card on the reader |
| Day passes, membership billing, studio rentals | `app_pass_checkout`, `app_membership_billing`, `app_studio_rental`, each with a table of the Stripe events it has seen | checkout, invoice, refund and expiry events, cancellations, the desk | events before or inside the transaction they are about, swallowed by their own dedupe row | what is given is paid for once; what is given back can no longer be charged |
| Training classes | `app_training_class`, `app_training_enrollment`, the fee | schedule, enrol, withdraw, attend, cancel | the last place, one fee for several classes | capacity is kept; the fee is owed once |
| Staff console | accounts, roles, issued access, `app_issuance_request` | profile, status, roles, issuance, retried requests | administrators who demote each other; actors demoted while they wait | an administrator remains; access is issued once |
| Policies, waivers, certifications | `waiver`, `user_waiver`, `user_certifications` | publish, retire, withdraw; approve, revoke, renew, give a validity | times that pass between steps, approvals beside revocations | what binds moves on; a revocation stands |
| Release automation | route, journal, configuration, status, slots, timers | activate, verify, roll back, recover, retire | death between any two files | the public route is served, and there is a way back |
| Frontend | what a page knows: token, session, data, a scan, an attempt | calls that share a renewal, reads that repeat, scans, bookings sent again | answers out of order, pages left before them | a page shows what is current and leaves nothing open behind it |
| Catalogue and account records; reports, notices and audit; HTTP layer; migrations and scripts | their records | queries, single statements, parsing | little interleaving of their own | conditions used by the parts above |

Components meet in five ways. **Shared rows**: checkout, classes, overrides and
staff all write `reservation`, so `Bookings` contains every writer and
`EquipmentBilling` zooms in on one row. **Calls inside a transaction**: business
transactions enqueue notices and are modelled as the two steps `Draft` and
`CommitDraft`; password reset revokes the families that `Sessions` models.
**Callbacks**: Stripe and Brevo call back at any time, more than once, in any
order. **Triggers**: the cooldown trigger is part of every write in `Bookings`,
the revocation trigger part of `SetActive` in `Sessions`. **Messages**: pages,
readers and the set-up agent see the server through requests whose answers can
be lost, late, or for somebody who no longer waits.

## What is modelled

### Bookings

`Bookings.tla` is the table `reservation` and all who write it:
`services/ReservationService.ts`, `models/ReservationModel.ts`,
`trainingClasses.ts`, `deviceAccess.ts` (supervised access),
`billing/equipment.ts` (through `Settle` and `Release`) and direct SQL, against
the constraints and the trigger of `010_room_reservation_compatibility.sql`.

| Model | Code |
| --- | --- |
| `rows` | committed rows, with `cooldown_enforced` as `enforced` |
| `tx` | open transactions: the row seen, the row to be written, which locks are held |
| `BeginCreate`, `BeginUpdate` | the service's transactions up to the write: resource `FOR UPDATE`, checks, `expectRevision` |
| `BeginClass`, `BeginOverride` | writers that lock the resource and leave overlaps to the database |
| `SqlWrite` | `INSERT`/`UPDATE` by an operator: no lock, no check, any member, window and status |
| `Write` | the statement: the trigger on committed rows, then the exclusion constraints on every version |
| `Cancel`, `CancelClass`, `RevokeOverride`, `Settle`, `Release` | one statement each, under the row's lock |
| `Abort` | a refusal for a reason the model leaves out, a constraint violation, a lost connection |

A GiST exclusion constraint also sees rows that other transactions have written
and not committed, and waits for them; a trigger sees committed rows only. The
model keeps this difference (`Versions` against `rows`), because it decides
which layer can be relied on for what.

### EquipmentBilling and SlotHold

`EquipmentBilling.tla` follows one paid reservation through
`billing/equipment.ts`, with the part of Stripe Checkout the code relies on:
idempotency keys kept for 24 hours, sessions that close at `expires_at`, a
payment at any time while the session is open. A call of `checkout`, `webhook`,
`reconcile` or `cancelPending` is a process with a step for each request to
Stripe and each transaction, and can stop after any of them (`GiveUp`).
`age` stands for the four periods the code and Stripe tell apart: fresh (a
session can still be created), late, stale (after 23 hours the code sends
nothing), forgotten (after 24 hours Stripe no longer knows the key).

`SlotHold.tla` is what the reservation promises: held until charged or no
longer chargeable, then booked or released. `EquipmentBilling` implements it
under `hold <- HoldState, charged <- Charged` (property `HoldSpec`).

### NotificationOutbox

`NotificationOutbox.tla` is the outbox of one member. `Draft`/`CommitDraft` are
`enqueueNotification` inside a business transaction that read the preference
earlier; `Sweep` and `Claim` are the two claiming statements of
`runNotificationBatch`; `Check`, `Send`, `Record`, `ApplyUnsubscribe`, `Retry`,
`Reject` and `Doubt` the rest of it, one action for each statement that commits
alone; `Crash` loses the process. `Send` has every outcome `transport.ts`
classifies, including acceptance whose answer is lost. `Sweep` may come while
the worker is only slow: the lease (two minutes) bounds nothing the worker
does. `Receive` and `CommitEvent` are the unsubscribe webhook's transaction,
with its read of the outbox and its commit as separate steps.

### Sessions

`Sessions.tla` is the sign-ins of one account. A call is one request: `login`
(`Verify`, `Upgrade`, `VerifyAgain`, `LockAccount`, `RevokePrevious`,
`SignIn`), `refresh` (`Present`, `ShareAccount`, `LockFamily`, then `EndReplay`
or `Exchange`) or `confirmPasswordReset` (`Open`, `OwnAccount`, `SpendLink`,
`ChangePassword`). What a request has read is kept in its record and may be out
of date. The locks are derived from where the calls are: `FOR SHARE` on the
account in sign-in and renewal (`Sharing`), `FOR UPDATE` in a reset (`Owning`),
the family row (`Holding`). `SetActive` is `StaffService.accountStatus` (or any
other UPDATE of the status) with the trigger of `019_resource_access.sql`.
`knew` and `shown` are history: which password a family was opened with, and
which tokens were answered.

Two simplifications widen the model. `establish` looks at the account once more
before its transaction and may refuse; here such a call goes on and is refused
inside the transaction, or by `Abort`. `active` is the pair of account status
and facility access; a reset asks for the first only, so links are sent and
used whether the account is active or not.

`BrowserPage.tla` is the page on the other side: the calls of `lib/api.ts`,
which share one renewal, the session that `AuthContext.tsx` shows, and the
account that staff open for a member (`accountMode.ts`), with a second tab
behind the page. A call in flight is a record that remembers what it was sent
with. `PageData.tla` (`lib/useApi.ts`) is what a page shows of a resource that
it reads again and again; `ScanPage.tla` (`lib/useCardScan.ts`) a page that
opens card scans and is left before their answers. They step beside `Sessions`
in `MCSessions`, where `part` says which of them a behaviour is about.

### Payments

`PassBilling.tla` is one day pass with Stripe: `Checkout`, deliveries of events
(`LockAndIssue`, `ListRefunds`, `CommitIssue`, `ApplyRefundEvent`),
cancellation, the desk, free access. A delivery's writes are private until
`CommitIssue`; an event leaves `event` when the transaction of its dedupe row
commits. `Dashboard` says when refunds are made by hand: `"apart"` from a
delivery under way, or at `"any"` time.

`MembershipBilling.tla` is one subscription: the billing row, a membership and
payment per paid invoice, the desk's memberships, failed payments, refunds and
two-step cancellations, with Stripe's idempotency key that remembers the first
answer. Time is the billing month.

`StudioRentals.tla` is the rentals of one studio's dates: hold, checkout,
delayed payment, confirmation, expiry, cancellation and refund by overlapping
calls that may stop anywhere, against the exclusion constraint on dates.
`TrainingClasses.tla` is classes for one certification, lock by lock, with the
fee that is billed at the first enrolment and settled or voided by staff.

`BookingRetry.tla` is a page that sends a booking again after an answer was
lost (`EquipmentPage.tsx`, `StudiosPage.tsx`), with the server's look under the
request key behind its lock (`ReservationService.create`,
`StudioService.create`). `kind` says which of the two it is.

`MCCharges` runs them as the scenes `ledger`, `cancels`, `studios`, `seats`,
`fees` and `orders`. A scene leaves part of its module aside: `ledger` the
second month and the cancellations, `cancels` the refunds and the desk, `seats`
all classes but one, `fees` all members but one. The theorems about the module hold without that.

### Doors and machines

`Visits.tla` takes every arrival, departure, booking and change of a sponsor
link as a transaction that takes its locks in one step and writes in another.
`Straddle` says whether a transaction may begin on one day and act on the next.
`SponsorAttempts.tla` is the budget of sponsor requests: written down before it
is answered, matched afterwards, dropped in between.

`ReaderAccess.tla` is one tap: the deadline, the rows locked one by one
(`FOR SHARE`), the instant the decision is made for, the grant, the answer on
the wire and the relay; against staff who take away a row, and against the
machine's outage. `CardEnrollment.tla` is scans and assignments of cards,
followed lock by lock. `RelayLease.tla` is the relay's timers.

`ReaderSetup.tla` is guided set-up: jobs in the database, the agent's loop, its
worker's queue, and the chip, profile and backup they leave. Reports and their
answers are lost or late; the agent dies. `Overtaking` says whether staff may
start another try before the agent is done with the last one.

`ReaderBridge.tla` and `ReaderGateway.tla` are the two ways of a reader on the
network: a bridge that asks the reader and sends it decisions with an end in the
reader's own clock, and a gateway that readers poll. The firmware is not in the
repository; it is what those programs take it for.

`MCFacility` runs them as the parts `visits`, `requests`, `access`, `cards`,
`relay`, `setup`, `bridge` and `gateway`.

### Office

`StaffConsole.tla` is the writes under `arbor-staff-writes`: who asks was
authenticated when the request arrived and is read again under the lock.
`Certifications.tla` is one member's record of one certification, with the
times of training, revocation and validity. `PolicyLifecycle.tla` is the
versions of one agreement and which of them binds. `ExpiryReminders.tla` is the
reminders about one source while staff move its date.
`PendingRegistration.tla` is sign-ups, corrections and confirmations under the
advisory locks on addresses.

`Release.tla` is the deployment service: a tick's steps between two writes, the
route, journal, configuration and status files, the slots and the timers that
stop an old process. `FrontendRelease.tla` extends it with the releases of the
front end that an owner makes from a workstation: the standby that is warmed up
while the checks run, the evidence they leave and its quarter of an hour, the
promotion, and the cleanup a failed client asks for, late or twice. `MCOffice`
runs both with the five above.

## Runs

| Run | Asks | Bounds |
| --- | --- | --- |
| `bookings_desk` | do the service's checks hold until the write, and does an edit replace what its editor saw? | 2 transactions, 2 rows (one grandfathered), 2 members, 1 machine, 3 windows, 3 revisions |
| `bookings_sql` | do the constraints and the trigger alone keep bookings apart and admit no new exempt row? | 1 service transaction and 1 of direct SQL, 2 rows (one grandfathered), 2 members, 1 room, 2 windows |
| `equipment` | is a slot given away only when it cannot be charged, is `SlotHold` implemented, is every hold with a session decided and every charge booked? | 2 checkout calls, 1 webhook or reconciling read, 1 cancellation |
| `outbox` | no mail twice, a true record, opt-outs kept, every notice settled | 2 workers, 2 notices (one exempt from the preference), 2 attempts, 1 webhook |
| `outbox_unsubscribe` | does every unsubscribe reach the preference? TLC finds that it does not | 1 worker, 1 notice, 1 webhook, nobody crashes |
| `sessions_safety` | do resets, blocks and replays end what they should; do pages show what is current? | 2 calls, 2 families, 3 tokens a family, 2 resets, 2 links; page: 2 calls, 2 sign-ins of 2 renewals, 1 lost answer; data: 2 resources, 3 versions of which one is refused, 3 reads; scans: 2 scans, 4 generations of the page, 1 lost call |
| `passes` | is a pass issued once and only for money that stays, and does every event settle? | 2 deliveries, 1 caller, 1 cancellation, 1 refund, refunds by hand apart from deliveries |
| `pass_early_refund` | does a refund made during a delivery reach the pass? TLC finds that it does not | the same, refunds at any time, 2 of them |
| `visits_midnight` | do visits move forward? TLC finds that one may not | 2 transactions, 1 adult, 2 days, transactions over midnight |
| `facility` | do doors and machines follow the rights they rest on? | 2 adults, 1 minor, 2 buildings, 2 transactions, 2 days, none over midnight; 4 tries; leases of 2 ticks; 2 scans, 2 cards of one fingerprint; 2 set-up jobs, 1 crash, no retry before the agent is done; reader link: 2 cards, 2 taps a session, 3 polls, 1 fault, 1 session kept |
| `charges` | is everything paid for once, and the ledger right? | one month with its refund and the desk, or two with 2 cancellations; 2 rentals, 2 calls; 2 members, 1 place, or 1 member, 2 classes; 2 slots, 2 keys, 3 sends |
| `office` | do the office's records stand, and does a release leave a checked revision served? | 3 users of whom 2 administer, 2 transactions, 1 request id; 3 versions of an agreement; 2 dates; 2 addresses, 3 links; 2 revisions, 3 moves of main, 2 crashes, 1 edit; local releases: 2 moves, 1 crash, no cleanup while an activation is interrupted |

They reach between 20 thousand and 3.4 million distinct states, the longest in
three minutes with two workers.

Why the bounds are enough to be interesting: separation, locks, a double send
and a replay each relate two rows or two actors; the second row, worker or call
is the one that does the damage. Three windows make overlap, adjacency and
exactly the cooldown occur. Three tokens let a replay hit the newest token, the
one before it and an older one. Two notices let a worker's second claim meet an
earlier one. Two resets let a sign-in be outrun by one reset, and an old link
meet a new one. Three sends of a booking let one be late, one be lost and one
be for other details. Two taps in a session let a late decision meet the wrong
one. Three administered users are the least that can leave nobody in charge.
The proofs remove the bounds for safety. The bounds that stay in guards are
constants named `Max...`, with `Ends`, `Horizon`, `Ticks`, `Revisions` and
`Month`.

The suites `MCSessions`, `MCFacility`, `MCOffice` and `MCCharges` check several
components that share no row that matters to their properties. A variable says
which of them steps in a behaviour, so the run is the sum of its parts and not
their product. Their properties are conjunctions with the names of the parts'
own; a part's type invariant is a conjunct of the property that speaks of it.

Symmetry is used where the modules do not order the values: members, rows,
transactions, calls and families, cards and administrators.

`CHECK_DEADLOCK FALSE` stands where behaviours end: ids, revisions, keys and
days are used up, every notice is settled, every transaction is over. `equipment`
and `passes` check deadlock.

Each property has a mutant in `PROJECT.json`: a definition whose comment begins
"A slip", written next to the one it stands for, with which TLC must find the
property violated. They show what each property is sensitive to: a dropped
lock, a check on committed rows only, a retry after a lost lease, an answer
taken by whoever no longer waits for it.

Two assumptions about how things happen are constants, because what the code
promises holds only under them: `Straddle = FALSE` (no arrival waits over
midnight; `visits_midnight` shows what happens otherwise) and
`Overtaking = FALSE` (staff retry a set-up once the agent is done with the last
try), and so is `Overlapping = FALSE` (a page's buttons for changing
accounts are not used while such a change is under way). The last two are
discussed under [Seen while modelling](#seen-while-modelling).

## Fairness

Safety properties are checked with and without it alike; it is stated for three
specifications.

`equipment`: `WF(Expire)` and `WF(GrowOld)`: Stripe closes sessions and
time passes. `WF(StartWebhook)`: Stripe redelivers an event until it is
acknowledged, and `webhook` fails the delivery if anything in it fails.
`WF(StartReconcile)`: reads of equipment and reservations call `reconcile`,
which takes any overdue hold. `SF(Retrieve)` and `SF(ApplyAndFinish)`: an
observer may die or Stripe be unreachable any number of times, not every time.
Nothing is assumed about checkout calls, cancellations, payment or eligibility.

`outbox`: `WF(Sweep)` and `SF(Claim)`: `startNotificationRuntime` runs a
batch every interval in each process, `ORDER BY` the due time, so a notice that
keeps returning to pending is claimed again. `WF` on a worker's steps: a
statement finishes or its process is gone, and `Crash` is always possible.
`WF(CommitDraft)`: business transactions end.

`passes`: `SF` on the steps of a delivery (`LockAndIssue`, `ListRefunds`,
`CommitIssue`, `ApplyRefundEvent`, `FetchRefund`): Stripe delivers again until
one delivery of the event commits, and not every one of them fails.
`WF(GiveUp)`: a call that cannot go on ends.

## Proofs

Eight modules named `...Proofs` define inductive invariants, prove that the
initial states have them and that every action keeps them, and derive the
theorems. There is one lemma per action, and a lemma for each operator that
several actions use.

**Bookings** (`TypeCorrect`, `ApartAlways`, `ExemptionEnds`,
`CheckedIsAccepted`). `BookingsApart` speaks of committed rows, but a commit
publishes a version written earlier. So the invariant says that all *versions*
of different rows are apart, that one transaction at a time has a version of a
row, and that a version still exempt repeats the booking it replaces
(`ExemptWrites`); the last is why a trigger that reads only committed rows is
enough. `EditorsSaw` adds what an editor knows (`EditorsKnow`): a row keeps its
revision as long as nobody changes it, so whoever saw the newest one saw this
row. `CheckedIsAccepted` and `EditorsSaw` assume `SqlTx = {}`: operators take no
resource lock and leave the revision alone. The other theorems hold with any
writers. Assumed: windows are non-empty intervals of integers, and the
cooldown is a natural number.

**EquipmentBilling** (`TypeCorrect`, `ReleasedNeverPayable`, `RowsAlwaysAgree`,
`KeepsHold`). What a call has read of Stripe can be old when it is used. It
does no harm because calls act only on final states: `complete` and `expired`
stay so, and a create request that was refused is refused for ever, which needs
the 23-hour limit. `CallsKnow` says so for every call. `KeepsHold` is the
refinement of `SlotHold`: initial states map to initial states, each step to a
step or a stutter. No assumption on constants.

**NotificationOutbox** (`TypeCorrect`, `MailedOnce`, `RecordsTrue`,
`OptOutIsHonoured`). Only a pending notice is claimed, and a claim takes it out
of pending, so at most one worker can still send it (`OneWorker`); `InFlight`
says what that worker knows of the provider's answer, `RowsKnow` what the row
says when nobody holds the notice. Assumed: `MaxAttempts` is positive.

**Sessions** (one theorem for each property of the run). `Credentials`: what a
request has read of the account is still so while it holds the lock, since
those who change the account own the row. `Chain`: the consumed tokens of a
family are those before its newest, and a renewal that holds the family knows
whether its token is one of them. `Locks`: no two calls hold locks that
conflict. `Answered`: a token that was answered is consumed, or its family
over. `RightPasswordPasses` needs that the legacy format never comes back.

**The pages** are proved in the same module, which extends `MCSessions`, each for
its own specification; `PagesAreSound` puts them together.

* *A page and its calls* (`PageIsTrue`). A change of account is under way alone,
  and a login beside nothing at all (`PageChanges`). Whoever's answer will still be
  taken up, a change or the latest read of the session, asks for a sign-in that has
  not ended (`PageAnswers`), and the cookie and every token to come are of that
  sign-in (`PageStands`), so the page cannot show one and send another. What the
  page knows of an opened account is what the server has, but for a change that was
  answered and not taken up (`PageActing`). One call renews at a time, and with the
  newest token there is unless somebody else disturbed it (`PageRenewals`).
  `PageFamilies` and `PageTokens` tell used sign-ins from those to come and tie the
  access token to the cookie. Assumed: `~ Overlapping`, as in the run.
* *The data of a page* (`DataIsNew`). The answer of one read at most will be taken;
  that read is of the resource the page is for, and not older than the last answer
  the page has had (`DataReads`).
* *A page that scans* (`ScansAreShown`). Unless a call was lost, every open scan is
  the one that is shown, is being called off, or is known to a call that was
  answered and will call it off (`ScanKnown`).

**PassBilling** (`PassesConsistent`, `PassesStand`, `PassesAgree`). A process
can be late with what Stripe told it of a refund. It does no harm because a
refund's status moves one way (`Later`), so the row always tells of something
that was so (`RefundTells`), and because a process that writes the row has
locked it (`OneLock`). `PassesConsistent` and `PassesStand` hold whoever refunds
the payment and however often. `PassesAgree` assumes one refund of the payment,
and none between `refunds.list` and its commit; only then is a refund of which no
event is left the one that the row tells of (`Synced`). Both assumptions are
needed: see [Findings](#findings) and
[Seen while modelling](#seen-while-modelling).

**Facility** extends `MCFacility`, so that its theorems speak of the suite's
properties: each part's invariant is proved for the part's own specification,
and kept by the steps of the others, which leave its variables alone.

* *Visits* (`MinorsAreSupervised`, `OnlyStaleVisitsEnd`, `VisitsStand`). A
  minor's arrival and booking look at the sponsor's visit and write later. The
  invariant (`VisitsInv`) says that whoever is between the two excludes those
  who could end that visit or change the link, and that what it saw is still so
  (`InCompany`). Assumed: `~ Straddle`, since an arrival that outlasts its day
  ends visits it should not (`visits_midnight`), and `VisitsAssumption`.
* *Sponsor requests* (`AttemptsLimited`, `AttemptsStand`). What a request has
  counted stays so until its own try is written, since nobody else writes for
  its e-mail or its adult (`AttemptsCounted`). A try is one request's to mark,
  and one that missed is never marked (`AttemptsMarked`), so whatever counts
  against a limit once was counted. Assumed: `AttemptsAssumption`.
* *Reader access* (`PowerFollows`, `PowerStands`). Rows that a decision or a
  member of staff has read stay as they were read (`AccessLocks`), the device
  never holds the relay for longer than the grant that was saved (`AccessGrant`),
  and no grant is saved while a condition does not hold (`AccessBroken`).
* *Cards* (`CardsCorrect`, `CardsStand`). What a transaction has found of its
  scan and its card is so until it commits, because they are locked
  (`CardsInv`).
* *The set-up of a reader* (`SetupIsTrue`, `SetupStands`). The port serves one
  try at a time: of any two jobs one has not begun or is over and the agent done
  with it (`SetupOne`), so the executor's queue holds one task at most
  (`SetupTask`) and nothing is queued behind it that could undo what was confirmed.
  What a task has done so far is known from where it is (`TaskFits`), and whoever
  claims that a job is complete, the row, what is staged or a report on its way,
  does so while the port is paired for it and no task but a resumption is left
  (`SetupPaired`). A chip whose key belongs to a job without profile and without a
  task is told of, and a backup never restores the key of another try that is not
  told of (`SetupTold`). Assumed: `~ Overtaking`, as in the run, and
  `SetupAssumption`.
* *The readers' link* (`BridgeGrants`, `GateGrants`, `LinkStands`). What anybody
  on the way holds of a tap, a view, a poll, a decision or a command, is still so,
  unless the tap was decided or another one came (`BridgeReads`, `GateReads`): it
  is of this session of the reader at most, and of its scan at most. Time is carried
  by the same facts: the reader's own clock was told no later than the view was
  received, and the lease runs from before the decision was asked for
  (`BridgeView`, `BridgeJob`, `GateHand`). The reader waits for one answer of the
  gateway (`GateReplies`), and what the gateway decided of a session is remembered
  until the session is forgotten (`GateAsked`). Assumed: `LinkAssumption`.
* *The relay* (`Timed`). The invariant (`Timers`) ties every timer to the
  generation of its lease: older ones do not wait any more, later ones do not
  exist, one that fired was due. From it, a relay that is on has a timer that
  will end it, and it is switched off by no timer before the newest lease has
  run out. Assumed: the bounds are natural numbers.

**Office** extends `MCOffice` in the same way.

* *Releases* (`Sound`, `ReleasesStand`). The files are written in an order that
  lets each of them be trusted for what the journal says: a pending journal names
  a slot that still serves (`PendingJournal`), otherwise the status agrees with
  the route (`Told`); the lock makes what a tick remembers true while it runs
  (`Recovering`, `Deciding`, `Activating`, `Undoing`). Assumed (`Bounds`): the
  first revision is one, the bounds are natural numbers, and `None` is no phase
  of the journal.
* *Releases of the front end* (`LocalReleases`, `LocalReleasesStand`). They share
  the steps of an activation, so `Safe` is kept by the same lemmas; `Told` is not
  kept, since the owner's commands do not write the status, and nothing here
  needs it. What is added: whoever is past the gates activates a revision that
  passed the checks (`Vetted`), an owner's command is about one revision to its
  end, and a standby is warmed up apart from the route (`Commands`). Assumed:
  `Cautious`.
* *The staff console* (`DeskCorrect`, `StaffStand`). The transaction that runs is
  the one that holds the lock (`DeskAsked`), so the administrators it counted are
  those there are when it commits; an id has brought something exactly if it is
  saved (`DeskIssued`).
* *Certifications* (`CertificationsCorrect`). Training that was compared with the
  last revocation under the lock is still newer when it is written, and only the
  step that sets a validity exceeds the bound on revisions (`CertAsked`,
  `CertRecorded`).
* *Agreements* (`AgreementsMove`, `AgreementsStand`). What binds is computed, so
  the property speaks of the whole history. A version that has bound took effect
  in the past (`BoundHasCome`); it stays in force until it is retired, and whoever
  withdraws a version retires what it had replaced.
* *Reminders* (`RemindersCorrect`, `RemindersWereTrue`). One worker at most sends
  about a date, and what it sends was not sent before (`RemSent`); whatever stood
  since a worker took it up is in its history (`RemHeld`).
* *Registrations* (`RegistrationsCorrect`). The link of a request that waits was
  mailed to where the request is now (`RegMailed`), and what a transaction has
  locked comes before what it still wants (`RegOrdered`), which excludes circles.
  Assumed: addresses are ordered like positive integers.

`RecordsAreSound` puts certifications, reminders and registrations together.
`OfficeBounds` collects the assumptions: bounds that are natural numbers, and
names of nobody (`"none"`) that are no one's.

**Charges** extends `MCCharges` in the same way. Each part is an exchange with
Stripe, or with a page, whose answers are old when they are used.

* *Memberships* (`MembershipsCorrect`, `MembershipsStand`, `BillingStands`,
  `DatesStand`). What a process was told of a session or an invoice is final
  (`ProcessRelies`). What it was told of a refund may not be, but a refund moves
  one way (`Follows`), and what is noted of it either is what it was last, or an
  event is left that will say so (`RefundsNoted`). Two processes never issue at
  once, nor write about the same month's refund (`LocksApart`).
  Assumed: `MonthsAssumption`.
* *Studio rentals* (`RentalsCorrect`, `RentalsStand`). Calls may stop anywhere, so
  what ties a rental to its session and its refund (`RentalAgrees`) can rest on
  no call; what a call in progress found (`CallRelies`) and what Stripe has told
  (`StripeTold`) stay true of Stripe, and only one delivery at a time writes about
  a rental (`DeliveriesApart`). Assumed: `Card` is a set of rentals.
* *Orders sent again* (`OrdersCorrect`). A key means one slot, to the page, to its
  requests and to the booking (`KeysMean`), and the lock on the key keeps what a
  request found under it (`RequestsStand`); so a conflict is somebody else's.
  Assumed: keys are counted.
* *Classes* (`ClassesCorrect`, `ClassesStand`). The sets of rows that transactions
  have locked are disjoint (`TransactionsApart`); a place that an enrolment found
  is there when it commits because the class is locked, and a fee that it found
  missing still is because the member is (`Enrols`). That nobody owes for a class
  they left needs that a bill named by a seat was billed (`SeatsUsed`, `FeesOwed`).
  Assumed: members are finitely many, and `"none"` is the name of nobody and
  nothing.

Only model-checked: liveness (`SessionSettles`, `ChargeBooks`, `NoticeSettles`,
`EventsSettle`) and anything with ENABLED, which are out of the prover's reach.
Every other property of a passing run is a theorem. Where one needs an assumption
about how people act (`~ Straddle`, `~ Overtaking`, `~ Overlapping`, `Cautious`,
`SqlTx = {}`, one refund), the assumption is a hypothesis of the theorem, named
above, and the run makes it too. No module with a theorem,
nor any other, declares a RECURSIVE operator; there is no induction over data. `UnsubscribeApplied`,
`RefundedGrantsNothing` and `VisitsMoveForward` are refuted.

## Findings

`outbox_unsubscribe`: an unsubscribe can be lost. The webhook's transaction
stores the event and looks in the outbox for its message id; the worker stores
the message id and looks for an event (`notifications/worker.ts`, after
"A callback can arrive before the HTTP send response"). Both run at READ
COMMITTED and share no lock. If the webhook reads the outbox before the
worker's UPDATE commits, and the worker reads the events before the webhook
commits, each misses the other and the preference stays on. Nobody needs to
crash; only a second delivery of the same callback would repair it, and the
first was acknowledged. A lock both take (an advisory lock on the message id)
would close the gap.

`pass_early_refund`: a refund can be dropped. A delivery lists the payment's
refunds inside its transaction and commits later; the event of a refund made in
between finds no committed checkout with that payment, returns, and its dedupe
row is committed (`billing/passes.ts:183`). The pass is issued and stays.

`visits_midnight`: an arrival that began before midnight and waits for the
visitor's lock ends a visit opened after midnight as stale and opens one dated
yesterday, which no sponsor check sees (`minorSupervision.ts:71`).

## Seen while modelling

Smaller things that the models showed and no run states, either because no text
of the repository promises otherwise or because an assumption above leaves them
out.

* **Two refunds of a pass.** If the refund of a cancellation succeeds and fails
  later, and the payment is then refunded again, the event of the second refund
  can come before that of the first one's failure. `applyRefund` ignores it, since
  the row says that the payment is refunded (`billing/passes.ts:163`); the failure
  then puts the ledger back to paid. With `Refund = {r1, r2}` TLC finds it.
* **Set-up.** The server lets staff start another try as soon as the last one is
  over (`readerSetup.ts`), while the agent may still work on it, or have its
  recovery queued on the port (`setup_agent.py:116-130`, `186-203`). That recovery
  can run after the new try was confirmed, and puts the chip back under a reader
  that staff see as complete; or the new try saves as the chip's own settings what
  the old one wrote, and restores them. With `Overtaking = TRUE` and two jobs TLC
  finds both. If the agent
  dies after pairing and before the profile is saved, and the job is then
  cancelled, the chip keeps the new key.
* **Release.** A death between the journal's `rolled-back` and the stop of the
  failed slot leaves that process running (`blue_green_release.py:239-242`).
  Failing to write metrics after the commit rolls a committed release back
  (line 229). A death between two files can make every later tick refuse until
  an operator looks.
* **Local releases.** A cleanup that arrives while an activation is interrupted
  looks at the route only (`local_frontend_release.py:206`) and can stop the
  standby that the activation would go back to, which
  `docs/local-frontend-releases.md:90` excludes; with `Cautious = FALSE` TLC finds
  it. A promotion does not write down what its recovery found committed (lines
  309-312), so that revision is deployed once more, into the other slot.
* **Open accounts.** When the member becomes restricted, the middleware lets
  the request go on as the staff member's own (`middleware/auth.ts:72`), while
  the bar still names the member until the next read. A second tab, or a lost
  answer to opening or closing, has the same effect. With `Overlapping = TRUE` a
  late answer shows a signed-out user again. A renewal that began before a new
  login may replace its credentials when it is answered.
* **Page data.** A background read that is under way when staff begin to edit
  still replaces the form (`useApi.ts:67` guards its start only).
* **Scans.** A cancellation that is lost is not repeated: the reader waits for a
  card until the scan's two minutes are over (`useCardScan.ts:13`).
* **Network readers.** A gateway's grant is counted from the answer's arrival, so
  it may outlast the server's lease by the time the answer takes. A tap whose
  decision failed is not asked again.
* **Bookings sent again.** A studio booking retried after its hold ran out is
  answered with the expired rental and shown as held (`StudiosPage.tsx:164`). A
  machine booked without a card keeps no request key, so a retry after a lost
  answer conflicts with the member's own booking.
* **Payments.** A repeated answer to a cancellation revives a membership row
  (`billing/service.ts:99`); a refund that fails late, or a pass revoked by
  staff, can be written over (`passes.ts:157-163`); a crash before a studio's
  session id is saved leaves the dates held (`studios/service.ts:717`).
* **Lock orders.** Enrolment locks the member and then the class, withdrawal the
  other way round; bookings, payments and staff edits take users, resources and
  reservations in several orders. PostgreSQL breaks such a circle by failing one
  of the two, which the models allow as `Abort`.

## Plan

In this order:

1. A module of the lock orders above, in which a wait for a lock is a state.
2. The canary path of `auto_release.py`.
3. The forms of the staff pages that carry a revision, beside the rows they edit.

## Not modelled

* Over half of the implementation's lines are the markup of pages, queries,
  e-mail templates, reports and parsing. They have no state of their own that
  another part relies on, and what they compute appears as a condition, or not
  at all. Migrations run before the service, under one advisory lock;
  `Init` of the modules starts from the tables they leave.
* Prices, eligibility, permissions and waivers appear as refusals (`Abort`,
  `eligible`), not as computations.
* PostgreSQL itself: locks, READ COMMITTED visibility and exclusion constraints
  are modelled as documented.
* Clocks: each module keeps the periods its code tells apart, not the times.
* Hash functions and token secrecy: a token is its identity.
* The firmware of readers, which is not in the repository.
