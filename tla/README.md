# energy-iq-be: a TLA+ specification

energy-iq-be is a NestJS API: users register by e-mail or Google, verify their
address with a one-time code, sign in with JWTs, connect an inverter and read its
metrics. This directory models its stateful core: the authentication endpoints and
the state they share, onboarding and inverters, the e-mail queue and its processor, and
the dashboards. TLC checks small instances; TLAPS proves every safety property the
passing runs check, and the refinements, for instances of any size.

## Inventory

| Component | State | Operations | Interacts with | Hard behaviour |
|---|---|---|---|---|
| Authentication service (`modules/auth`) | none of its own; locals of each request between two awaits | register, login, verifyEmail, resendVerificationEmail, forgotPassword, resetPassword, refresh, logout, Google callback | users table, Redis, mail queue, JWT library | any two requests interleave at every await; counters and keys are read, then written awaits later; a request may die between two writes |
| Users service and table (`modules/users`) | one row per user: unique citext e-mail, password hash, Google id, verified flag, onboarding columns, refresh token hash | create, findOrCreateByGoogle, update, updatePasswordHash, setEmailVerified, setRefreshTokenHash, remove, connectUserInverter | PostgreSQL, inverters | check-then-insert, unconditional upsert, updates of rows removed meanwhile, two writes without a transaction |
| Redis service (`common/redis`) | `otp`, `otp_attempts`, `otp_resend_attempts`, `password_reset_token` per address, each with a TTL | get, set, delete, expiry | Redis | keys overwritten and deleted by overlapping requests; expiry at any moment |
| E-mail producer (`email.service.ts`) and contact form | jobs in the BullMQ queue | six kinds of `add` | Redis queue database | the other half of "store and mail" may not happen |
| E-mail processor (`email.processor.ts`, `queue.config.ts`) | job attempts, template cache | process, one handler per job | Resend API | 3 attempts with backoff, stalled jobs run twice, retries out of order, answers lost |
| Google strategy, JWT strategy and guards | none | validate, canActivate | Google, JWT library | none beyond the services they call |
| Inverters and Victron adapter | inverter rows: owner, serial number, active flag | connect, deactivate, find | VRM API, users table, metrics (cascade) | lookup and insert awaits apart; a connect racing the removal of its user; owner checked before the write |
| Inverter metrics | metric rows (only read here) | dashboard, energy usage | PostgreSQL (rows go with their inverter by cascade), clock | time windows taken at different moments, dashboards that overlap, rows that arrive late or are deleted between two reads, month arithmetic |
| HTTP pipeline | throttler counters, in the library | guard, validate, transform, filter | every controller | none shared between requests |
| Health, well-known | none | constants | | none |
| Migrations, seeds, configuration | schema, the administrator's row, values read once | run at deployment | PostgreSQL | none at run time |

What makes the components correct: an address names at most one account; only the
owner of an address verifies it or sets its password; only verified accounts have
sessions; a one-time secret is told to its owner before, or as soon as, it counts
and never counts after its use; the limits on codes hold; an inverter belongs to one
existing, verified user, and what a user is shown of the onboarding is true; every
queued mail is sent or kept as failed, and copies are accounted for; every aggregate
covers its window. `PROJECT.json` lists each hazard with the properties aimed at it.

## Modules

| Module | What it is |
|---|---|
| `AuthStore` | The users table, the Redis keys, the outbox and the tokens clients hold; one operator per awaited driver call |
| `AuthService` | The authentication handlers: requests in flight, one action per stretch of a handler between two awaits, expiry, the clock and failures |
| `AccountLifecycle` | Abstract: accounts and proofs of ownership, without requests, Redis or mail |
| `AuthProperties` | Properties of `AuthService` and the refinement mapping to `AccountLifecycle` |
| `Onboarding` | Users, inverters and tokens as onboarding sees them: connect, deactivate, verify, sign in, remove |
| `Ownership` | Abstract: who owns an installation and who has completed, without rows or requests |
| `OnboardingProperties` | Properties of `Onboarding` and the refinement mapping to `Ownership` |
| `EmailQueue` | Jobs, the waiting list, locks, attempts and workers; the processor's handlers |
| `EmailProperties` | Properties of the queue |
| `AuthMail` | `AuthService` composed with `EmailQueue`: its outbox is the producer of the queue |
| `InverterMetrics` | Rows, their removal, the clock, dashboards read by read, and the chart as a function of one read |
| `MetricsProperties` | Properties of dashboard and chart against a reference definition |
| `MCAuth`, `MCAuthMail`, `MCOnboarding`, `MCEmails`, `MCMetrics` and their `.cfg` | Instances for TLC |
| `AuthProofs`, `SecretProofs`, `ContractProofs` | TLAPS proofs about `AuthService` |
| `FewSlotsProofs` | TLAPS proofs of what `AuthService` guarantees with one or two requests in flight |
| `MailProofs` | TLAPS proofs about `AuthMail`: the composition, and the resends it counts |
| `OnboardingProofs`, `QueueProofs`, `MetricsProofs` | TLAPS proofs about `Onboarding`, `EmailQueue` and `InverterMetrics` |

Definitions named `...Not`, `...Any`, `...Late` and the like, marked "Slip", are the
mistakes the properties must be able to notice; the specifications do not use them.

### Authentication: state and code

| Variable | Code |
|---|---|
| `users[id]` | row of the `users` table; `Unborn` before the uuid is generated, `Gone` after DELETE |
| `otp`, `otpAttempts`, `otpResendAttempts`, `passwordResetToken` | the Redis keys `otp:`, `otp_attempts:`, `otp_resend_attempts:`, `password_reset_token:` |
| `outbox` | jobs put on the mail queue; in `AuthMail` each is a job of `EmailQueue`, added in the same step |
| `signed`, `now` | refresh tokens given out, and the second in their `iat` |
| `req[s]` | the request in slot `s`: the await at which it is suspended and the locals read afterwards |
| `issued`, `spent`, `misses`, `revoked`, `faults` | history the properties need; no guard of a handler reads it, and `faults` only bounds `Fail` |

A handler is a chain of actions, named for the code that runs when its `pc` is
reached. `verifyEmail`, for example, is `VerifyEmail` (findByEmail, early return when
verified), `ReadAttempts`, `CompareOtp`, then either `CountMiss` or `MarkVerified`,
`DropCode`, `DropCount`, `MailWelcome` and `StoreSession`. The calls in between
(bcrypt, JWT signing) touch no shared state, so they add no interleaving of their own.
The first awaited read is taken together with the arrival of the request, because
a request may arrive at any moment anyway; one that is refused by this read changes
nothing and is left out.

* An address stands for its class up to letter case: the column is `citext`, and
  `RedisService` lower-cases keys.
* Passwords, codes and tokens stand for their bcrypt hashes. For the refresh token
  this would hide what the library does, so `BcryptPrefix` keeps it: bcrypt reads 72
  bytes, of a JWT the header and the first part of `sub`, the same for all
  refresh tokens of a user.
* Codes may repeat (six digits); reset tokens are fresh (256 bits).
* TTLs are nondeterministic: a key may expire whenever it exists.
* `Fail` stands for a rejected driver call and for the end of the process alike.
  Either way the rest of the handler does not run.
* Names, roles and `lastLoginAt` play no part. `DELETE /users/:id` needs a valid access
  token of anybody and is always enabled.
* Bounds: `MaxTime` ticks, `MaxFaults` failures, `Slots` requests at once, and
  `SpareId` (a row is removed only while an id is left, so that a registration never
  waits for an id the database would simply generate).

`AccountLifecycle` is instantiated as `Contract` with `accounts <- AccountsOf(users)` and
`proofs <- issued`: a row is an account without its Google id, onboarding step and token
hash, and a code stored, a link mailed or a Google account vouching for an address is
a proof.

### Onboarding: state and code

| Variable | Code |
|---|---|
| `users[u]` | the columns `email_verified`, `onboarding_step`, `onboarding_complete` of the row |
| `inverters[i]` | owner, serial number and `is_active` of the row |
| `holders` | users that hold an access token |
| `req[s]` | the request in slot `s`, as above |

`connectUserInverter` is `Connect`, `VerifySystem` (the adapter's calls to VRM, with
their outcomes), `FindSerial`, `InsertInverter` (the unique constraint and the foreign key
decide) and `CompleteOnboarding`. `deactivateInverter` is `Deactivate` (the lookup and the
comparison of the owner) and `DeactivateUpdate`. `VerifyEmail`/`MarkVerified` and
`Remove`/`RemoveDelete` are the handlers above reduced to these columns;
the removal cascades. Registration, the Google upsert and a sign-in make one write to
these columns each and are one step. Brands other than Victron are refused before
anything happens. Access tokens never expire in the model, so it has every
behaviour of a token that does. An access token is not looked up anywhere: a connect
may run for a user that is gone.

`Ownership` is instantiated as `Promise`: the accounts are the live rows, the owners of an
installation are the owners of the rows with its serial number, active or not.

### E-mail queue: state and code

`EmailProcessor` is in the repository, BullMQ is not: the handlers
(`HandleTemplated`, `HandleContactUs`, `Send`) are translated, the queue
(`state`, `wait`, `lock`, `attempts`, `stalls`) is modelled from its configuration and
marked external. A job is named by its kind and contents. `Send` has three outcomes:
Resend accepts, Resend refuses or cannot be reached, or accepts and the answer is lost; the
SDK returns the last two as an error, which the handler throws. A worker whose lock
was lost can still finish its handler, but neither complete nor fail the job. Completed
jobs are kept for ever here; BullMQ keeps the last 100, which no code reads. In `AuthMail`
a mail equal to an earlier one (a code generated twice for one address) is not a
second job.

### Metrics: state and code

| Variable | Code |
|---|---|
| `rows`, `removedAt[i]` | every row ever inserted, and when the inverter of a row was deleted: the table holds the rows of the inverters that are there (`Own`) |
| `dash[s]` | the dashboard in slot `s`: the await at which `getDashboardMetrics` is suspended with its locals, or its answer until the slot is used again |
| `now`, `ticks` | `new Date()`, and the bound on its moves |

Time is counted in hours in a calendar of months without daylight saving. `amount` stands
for the summed columns, each sum takes one of them; the columns only copied into the response go
with the latest row, represented by its timestamp. The dashboard is three awaited
reads (`ReadLatest`, `ReadToday`, `ReadMonth`), each at its own moment, and nothing
serialises dashboards: any number of slots may be between the reads, and be answered in any
order. The moments of the reads are kept as history. The chart is one read
and pure code after it, so it is the operator `EnergyUsage` on states. `GetStartDate` keeps what
JavaScript's `setMonth` does: the day of the month overflows into the next month. Rows
are inserted by a writer outside the repository, at the moment they are measured or later.
`RemoveOwner` is what `DELETE /users/:id` (`RemoveDelete` of `Onboarding`) does to this table:
the foreign keys cascade from the user to its inverters and on to their rows. A
query selects rows by their positions in the table; `reduce` and the grouping loop are
recursive functions over positions (`Sums`, `Grouping`), with the intermediate result
after each row. Keeping the deleted rows in `rows` is bookkeeping: it gives the reference sums something to
count, and no query sees them.

## Runs

| Run | Instance | Shows |
|---|---|---|
| `otp` | 1 address, 2 ids, 2 codes, limit 2, 2 slots, 1 failure | `TypeOK`, `SessionOnlyIfVerified`, `LiveCodeReachesOwner`, `MissesBounded`, `OwnerConsents`, `KeepsContract` for register, login, verify and resend |
| `reset` | a verified account, 3 links, 2 passwords, 2 slots, 1 failure | `SpentTokenNeverLive`, `StoredTokenWasMailed`, `OwnerConsents`, `KeepsContract` |
| `serial` | 2 addresses, 2 ids, 2 codes, 2 Google accounts, limit 5, 1 slot | what the checks of the handlers achieve without concurrency: `GoogleIdNamesOneRow`, `GoogleLinkStable`, and five wrong codes at most (`MissesBounded`) |
| `accounts` | seeded account, 2 ids, 2 Google accounts, 2 seconds, 2 slots, 1 failure | `SessionOnlyIfVerified` and `KeepsContract` for Google, register, verify, login, refresh, logout and removal |
| `live` | `AuthMail`: 1 address, 1 code, limit 2, 2 slots, 1 failure, 1 worker, 2 attempts, fairness | `RegisteredUserGetsCode`, `RegisteredUserIsReached`, `LiveCodeIsDelivered`, `ResendsBounded` |
| `onboarding` | 2 users (one seeded), 2 inverters, 2 serial numbers, 2 slots, 1 failure, fairness | `TypeOK`, `OneRowPerInstallation`, `OwnersAreVerified`, `StatusTruthful`, `KeepsOwnership`, `ActiveChangesByOwner`, `StepFallsOnlyByLateVerify`, `ConnectedUserCompletes` |
| `emails` | 2 jobs, 2 workers, 2 attempts, 1 stall, fairness | `TypeOK`, `CompletedWasSent`, `CopiesAccountedFor`, `OutcomeStands`, `OvertakenOnlyInTrouble`, `EveryJobSettles` |
| `metrics` | 2 inverters, 2 dashboards at once, 2 rows, 1 tick of an hour, a day or a week, months of 31, 31, 28 and 31 days, rows inserted at once or five days late, removals at any moment | `SumsFollowCalendar`, `MonthIncludesToday`, `LastUpdatedMonotone`, `ChartConserves`, `PeriodsNested`, `ShortChartsGroupByDay` |
| `relink` | 2 Google accounts, 2 slots | `GoogleLinkStable` fails |
| `resend` | 1 slot | `ResendOnlyWhenNoActiveCode` fails |
| `revoke` | 1 slot, 2 seconds | `RevokedTokenRejected` fails |
| `chart` | as `metrics`, 1 slot, 3 ticks | `ChartsGroupByDay` fails |

The passing runs explore between ten thousand and one million distinct states.
Slots, ids, codes, tokens, passwords, Google accounts and inverters are only compared for
equality; runs without liveness use them as symmetry sets.

Why the bounds are enough:

* Two slots give every interleaving of a pair of handlers, and each hazard is a
  race of two requests and an environment step. Two ids let an address be registered
  again after removal. One failure ends a request at each of its awaits.
* Limit 2 separates "at the limit" from "first miss"; `serial` uses the real 5.
* Onboarding needs two users that want one installation and two installations for one
  user; two inverter rows allow either, and deactivation with a second connection.
* Two workers are what it takes for a job to be run twice at once, two jobs for one to
  overtake the other, two attempts to tell a retry from a failure, one stall (BullMQ's
  default) to tell a job put back from one given up.
* Two dashboards of one inverter are what it takes to be asked for and answered in different
  orders, two inverters to mix up their rows or to lose one and keep the other. The clock of
  `metrics` starts in the last hour of January 31 or in the first of February 1. Its one tick
  may pass between any two of the reads, inserts and removals, and turns the day, the month or
  the week, or stays within the first day of a month. Rows, reads
  and removals fall before or after it; what spans three hours or more is left to the theorems, which bound
  neither ticks nor slots. `PeriodsNested` is evaluated at
  every hour from each state's `now` to the end of the calendar, which includes March 29 to 31,
  where `setMonth` overflows.

Deadlock is checked in the authentication runs: some request can always
arrive, a link can expire or be redeemed, or the system has a pending step. The runs
`onboarding`, `emails`, `metrics` and `chart` do not check it, because these systems may come to
rest: all users are removed and none is left to be created, every job has been added
and settled, or the clock and the table have used up their bounds. In `emails` and
`onboarding` that nothing waits for ever is the liveness property.

**How many codes can be tried or sent.** `MissBound` and `ResendBound` quantify what
happens because the counters are read and written back in separate calls: with one request
at a time it is the limit L. With two in flight the late write of one can set the counter
back once from each value it passes through, and TLC confirms L(L+3)/2 as the exact maximum
of both for L = 2 (without failures, for `MissBound`). A request that dies after its
comparison skips its count, so each failure adds one wrong code; a resend counts before it
sends.

### What the failing runs show

* `relink`: two callbacks for one new address with different Google accounts both pass
  the conflict check of `findOrCreateByGoogle`; the second upsert replaces the link of
  the first, which `CONFLICTING_GOOGLE_ACCOUNT` in `sys-msg.ts` says is refused. In
  `serial` the same property holds, so only the overlap breaks it.
* `resend`: `auth.controller.ts` and `docs/API.md` describe a resend only when no code is
  active; the handler never looks at the key.
* `revoke`: `docs/API.md` says logout revokes the refresh token. It does until the next
  login of the same user: the new hash matches the old token too.
* `chart`: the comment in `getEnergyUsage` says "Group by day"; the groups are weekday
  names. The weekly window begins in the middle of a day a week ago, whose rows fall
  into today's group, and the monthly one adds up four or five weeks. No row is lost or
  counted twice (`ChartConserves`), and the hourly and daily charts are right
  (`ShortChartsGroupByDay`).

### What the passing properties say about the code's weak spots

* The unique serial number and the foreign key, not the handlers, are what make
  `OneRowPerInstallation` and `OwnersAreVerified` hold: both are checked with slips that weaken a
  constraint or a guard.
* `ConnectedUserCompletes` excuses a request that dies between the INSERT and the UPDATE of
  `connectUserInverter`. Its user keeps an inverter, stays incomplete and, by
  `ActiveChangesByOwner` and the lookup of inactive rows, cannot connect that installation again.
* `StepFallsOnlyByLateVerify`: the step shown to a user can fall from 3 to 2, in one way only.
* `MonthIncludesToday` has two exceptions, and the code reaches both: between its two reads
  the month may turn, and the user may be removed with all rows. `LastUpdatedMonotone` orders dashboards by
  when they are asked for: of two that overlap the first may be answered last, so a client can
  see the last update go back, and after a removal it is null. No document claims otherwise.
* `PeriodsNested` bounds the monthly window by the length of a month. It accepts that on
  March 31 the window begins on March 3, and so misses two days of the very month.
* `OvertakenOnlyInTrouble`: of two codes queued for an address the older can arrive
  last, but only after a crash, a stall or a failed attempt, or while two workers hold them.

## Fairness

* `AuthService` and `Onboarding`: weak fairness of `Continue(s)` for every slot. The event loop
  resumes a suspended request once its awaited call settles, and the drivers settle
  every call (ioredis gives up after `maxRetriesPerRequest: 3`). Arrivals, expiries, ticks and
  failures are not fair; nobody has to send a request. A request cut short is counted in
  `faults`, and the liveness properties promise nothing after it.
* `EmailQueue`: weak fairness of `Work(w)` (a living process goes on, a dead one is started
  again), of `Promote(j)` (a backoff ends), and of `Stall(j)` while no process works on `j`
  (BullMQ's periodic check of expired locks). Crashes, and stalls of a living worker, are not
  fair. No bound on crashes is needed: each costs the job a stall, and stalls are limited.

## Proofs

Every theorem is about all values of the constants, under the named assumptions of the
modules: limits and bounds are natural numbers, the sentinels `None`, `Unborn` and `Gone` are
not members of the data sets, seeded users are users, `Workers` is finite, every job has a kind.

### AuthService

1. `AlwaysTyped`. `TypeOK` is not inductive: `CountMiss` writes `count + 1`, which stays in
   range only because `ReadAttempts` let the request through below the limit, and every
   late write needs its locals set. The invariant proved is `Typed`: `TypeOK` and, for
   each slot, `LocalsOK`, which lists for each await the locals the rest of the handler
   uses and the bound on `count`.
2. `SessionsAreVerified`. `Secured` strengthens `SessionOnlyIfVerified`. `RowsSecured`: rows with a
   session or a Google link are verified. `KeysSecured`: what Redis holds was issued for its
   address. `Vouched`: a suspended request that names a row and an address names a matching
   pair, the row it will give a session is verified if it still exists, and the secret it
   will act on was issued. What carries `Vouched` over the steps of the other requests is
   `Evolves` (proved of every step as `StepEvolves`): ids are not reused, addresses do not
   change, nothing is un-verified, and `issued` only grows.
3. `OwnersConsent` follows from `Typed /\ Secured` step by step: the steps that verify a row or
   change its password are those of a request that `Vouched` speaks about.
4. `TokensWereMailed` and `SpentStaysSpent`, from the invariant `Linked`. `LinksFresh`: the token of
   a link under way is nobody else's, and between its mail and its storing neither
   spent, stored nor presented. `LinksStored`: a stored token was mailed to that address, is stored
   once and not spent, and the token a reset holds is stored, if at all, for the
   address of that reset. The last part is why deleting "whatever token the address has by now"
   does no harm.
5. `CodesReachOwners`: `LiveCodeReachesOwner` is inductive next to `Typed`. A step keeps every code
   told (`StepToldStays`), and the only step that stores a code is about to mail it.
6. `ServiceKeepsContract == Spec => KeepsContract`. With `Typed /\ Secured` as the
   invariant, each action maps to one action of the contract or to a stutter:

   | Action | Contract |
   |---|---|
   | `StoreOtp`, `MailResetLink`, `Google` | `Prove` |
   | `RegisterInsert` | `Open` (unverified) or none |
   | `GoogleUpsert` | `Open` (verified) or `Verify` |
   | `MarkVerified` | `Verify`, or none when the row is gone |
   | `ResetUpdate` | `ChangePassword`, or none when the row is gone |
   | `StoreSession`, `Logout` | `OpenSession`, `CloseSession`, or none |
   | `RemoveDelete` | `Close`, or none when it is gone already |
   | all others | none |

### Onboarding

The invariant is `Typed /\ Sound`: the four state properties and what makes them inductive.
`HoldersVerified`: whoever holds a token has had a row, verified if still there.
`SerialsUnique`. `Vouched`, for each suspended request: a connecting user holds a token, one about
to be completed owns an inverter unless removed, and the inverter about to be deactivated is
the requester's unless gone. `Evolves` carries `Vouched` over the other requests' steps: a
primary key is not reused, no token is taken back, an inverter does not change hands, and a
user that stays keeps the inverters it has. From it: `OnboardingTyped`, `InstallationsHaveOneRow`,
`VerifiedOwners`, `StatusNeverAhead`, the action properties `LateVerifyOnly` and `DeactivatedByOwner`,
and the refinement `OnboardingKeepsOwnership`:

| Action | Ownership |
|---|---|
| `Register`, `GoogleSignIn` of a new user | `Open` |
| `InsertInverter` | `Claim`, or none when a constraint refuses it |
| `CompleteOnboarding` | `Complete`, or none when the row is gone or complete already |
| `RemoveDelete` | `Close`, or none when the row is gone |
| all others | none |

### E-mail queue

`Typed` adds to `TypeOK` that busy workers have a job, that a job that may still run has
attempts and stalls left (without it the counters could pass their limits), that the active
jobs are those with a lock, and that the list names each waiting job at most once. `Counted`
adds to `CompletedWasSent` that a resolved handler has sent its mail, and, for the copies, that mails
sent *and handlers running* are together at most the failed attempts, stalls and the one
run that counts; the properties as stated do not survive the step that takes a job. `OutcomesStand` follows from
the lock: no step moves a job without a lock out of "completed" or "failed".

`MailsKeepTheirOrder` is about `TrackedSpec`, which numbers the jobs as they are added.
The invariant is `InOrder`: behind a job that waits for its first attempt stand all jobs
added later, and none of them has been tried. It needs that the list names every waiting job
(`Enlisted`), that a job which was put off or given up has failed or stalled (`Troubled`), and that a
busy worker holds the lock of its job unless the job has stalled (`Owned`). A stalled job
goes to the front of the list, so it is the jobs behind it that must be untried, not the ones in front.

### Few requests at once

`MissesBounded`, `ResendsBounded` and the Google properties depend on how many requests
overlap. `WrongCodesAreBounded` and `ResendsAreBounded` assume `FewSlots` (one or two slots), the
Google theorems `Serial` (one slot); everything else is arbitrary, the limit included.

The counters are read, compared and written back awaits later. Write L for the limit. The
proof gives each state a potential `Fits(left, n, holders, r)`: `left` is what the bound still
allows, `n` the counter, and `holders` are the requests between their read and their write.
The counter alone allows `Tries(n)` more: L - n with one slot, (L - n)(L - n + 3)/2 with two. A
request that holds the count c may let the other one use up the `Rest`, and then set
the counter back to c + 1, so `Rest(n) + 1 + Tries(c + 1)` must fit as well; of two holders the one
with the lower count can outlast the other. Each step that counts a try lowers `left` by one
and each part of `Fits` by one, and a request that reads the counter adds a holder whose part
is no more than `Tries(n)` was. For wrong codes (`Budget`) a request between its comparison and its write
is one try ahead of the counter, and one that dies there costs a fault. For resends
(`ResendsWithin`) the mail follows the write. The same lemmas (`FitsLess`, `FitsRead`, `FitsWrite`,
`FitsClear`) serve both counters.

With one slot, `OneRowPerGoogleId` and `LinksAreStable` rest on `Ready`: what
`findOrCreateByGoogle` has found out (no row is linked to the account, the row of the address to none)
holds until it acts on it. `relink` shows that two slots break it.

### The whole

`SystemRunsService` and `SystemRunsQueue`: every behaviour of `AuthMail` is one of `AuthService` and one of
`EmailQueue`, so the theorems about either part hold of the composition. The second needs
that each mail in the outbox is a job the queue knows (`Known`) and that a handler step queues at most one.

`CodesAreDelivered` joins the two: `LiveCodeReachesOwner` puts the mail of a stored code into the outbox,
`Handed` (no mail of the outbox is absent from the queue, for nothing in the queue forgets a job) makes it
a job, and `CompletedWasSent` says that a completed job was accepted by Resend. It rests on
`QueueAssumption`, the assumptions of `EmailQueue` for the mails as jobs.

### Metrics

The calendar is any sequence of at least two months of 28 to 31 days; amounts and lags are any natural
numbers; there may be any number of rows and of dashboards at once. The sums and the grouping are recursive functions.
That they are defined, and what they satisfy, is proved by well-founded induction on
positions with sets in place of predicates (`Upward`, `Iterated`, both from `WFMin`), which gives `SumsFacts`,
`SumsMonotone`, `TotalMonotone`, `TotalOfNone` and `TotalAppended` (an appended row adds to a total or leaves it as it is). `MonthExists`:
each moment is in exactly one month; `SameDayStart` and `SameMonthStart`: being of the same day or
month as a later moment is not preceding its start.

* `PeriodsAreNested` is about the calendar alone: `MonthBack(t)` is `t` less the length of the previous
  month, overflow or not.
* `IInv` serves the others, and speaks about each slot by itself (`RequestInv`). `Bracketed`: a sum
  read at some moment is at most the sum of the rows inserted up to it; at least the
  sum of those created before that hour, if the inverter was there; and 0 if it was removed before that hour.
  What happens later keeps all three: a row is created, and an inverter removed, later or in that
  very hour (`Onward`, proved of every step but those of the request itself; `Kept` carries a request over it). From it
  `DashboardFollowsCalendar`. `MonthOK`: if the inverter is still there when the month is read, today's rows are among
  this month's unless the month has turned; if not, it was removed since the read of today or
  that read found nothing. From it `DashboardMonthIncludesToday`.
* `UpdateOK`: the timestamp a dashboard has read is that of a row. While the inverter is there that row is
  too, so whoever asks finds it or a later one: `LastUpdateNeverGoesBack`.
* `ChartsConserve`: after each row the `Height` of the chart, the sum of its seven bars, is the
  running total of the rows selected so far (`ReadingAdds`, `ChartGrows`).
* `ShortChartsByDay` assumes `Prompt`: rows arrive within five days of being measured. Then a window of a day
  spans less than a week of measurements. The chart would put later rows into a wrong group.

### Only model-checked

Liveness (`RegisteredUserGetsCode`, `RegisteredUserIsReached`, `ConnectedUserCompletes`,
`EveryJobSettles`), which is out of the prover's reach. That the bounds L and L(L + 3)/2 are reached
is TLC's observation: the theorems say that they are not exceeded.

## Not modelled

* HTTP pipeline: guards, validation, interceptors, exception filter and `StandardResponse` map one
  request or outcome to one response and keep nothing between requests; redirect checks are a
  function of a URL. Throttler counters live in the library; rate limits bound how often a
  request arrives, not what it may do. There is no state or interleaving for a model to explore.
* Victron adapter: the HTTP calls' text and the encryption of the token, which nothing
  decrypts. Its outcomes are part of `VerifySystem`.
* Redis: the map of clients, one per database, and its shutdown are connection handling.
* Google strategy: the exchange with Google; the guard on the verified address is in `Google`.
* Health and well-known endpoints are constants; configuration is read once; migrations and
  seeds run at deployment (their constraints and the seeded row are in the models).
* Token signatures, and the expiry of access tokens, are taken as given: clients present only
  tokens that verify.
* `getPowerConsumption` is empty and `activateById` and `sendLinkExpire` have no caller (the job of
  the last is a kind of `EmailQueue` all the same).

## What is left

1. Bounds of wrong codes and resends for more than two requests in flight.
2. Order of guards and envelopes of the HTTP pipeline as pure operators, should they come to
   keep state.
