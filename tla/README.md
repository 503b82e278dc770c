# SlimShot server: TLA+ models, checks and proofs

SlimShot is one NestJS process that serves an app and an admin API, with
Postgres (through Prisma, at READ COMMITTED), Redis (caches, counters, one-time
codes), BullMQ (caption, push and backup jobs), an S3-like object store and a
few HTTP services (speech-to-text providers, AdMob, Google, Firebase). This
directory holds the specifications of the parts of it in which money, identity
or stored data depend on the order of steps of several actors.

Paths below are relative to the repository. `credits_sytem.md` (sic) is its
design brief for credits; `README.md` and `implementation.md` describe an
earlier version, so the code is what the modules follow.

## The system

State lives in three places. Postgres rows survive everything; a statement is
atomic, and `$transaction` groups statements. Redis values survive the process.
Temp files and in-memory caches belong to one process. Every request handler is
a sequence of awaits, and any two handlers interleave at their awaits.

| Part | State | Operations | Talks to | What is hard |
|---|---|---|---|---|
| Ledger (`credits/ledger.service.ts`) | `User.creditBalance`, `CreditTransaction` rows | `post` | every part that grants or charges | concurrent posts, retries of one key, status changes in between |
| Reconciliation | none | compare balance with ledger sum daily | ledger, audit | runs at any moment |
| Admin users | `User.accountStatus` | suspend, unsuspend, adjust, remove | ledger, deletion | two admins, an account that changes under them |
| Captions (`captions/`) | queue record, temp audio, charge and refund rows | start, status; worker; sweeper | ledger, pricing, providers, BullMQ, file system | crashes between charge and queue, retries, stalled jobs, resends under one key |
| Providers (`providers/`) | encrypted keys, which one is active, a cache for 60 s | set, remove, activate, deactivate, getActive | captions, audit | a cache filled with a value read before a change |
| Pricing and settings (`credits/`) | `PricingRule` versions, settings row and its copy for 30 s | create and activate a rule, price, update settings | captions, rewards, claims | integer edges, two activations at once, the cache |
| User sessions (`accounts/user-tokens.service.ts`) | `UserSession`, `UserRefreshToken` | start, rotate, logout, revoke, guard | sign-in, deletion | a refresh racing another refresh, a logout or a deletion |
| One-time codes (`accounts/otp.service.ts`) | a code hash and an attempts counter in Redis | send, verify | sign-in, web deletion | parallel verifies, a resend during a verify |
| Sign-in and profile (`accounts/`) | `User`, `Device` | email and Google sign-in, link, username | tokens, codes | two first sign-ins, writes to an account being deleted |
| Deletion (`accounts/account-deletion.service.ts`) | all of a user's rows | deleteAccount, web deletion | ledger, tokens, codes | a grant between its read and its update |
| Claims and referrals (`accounts/claim.service.ts`) | `BonusClaim`, `Referral` | eligibility, claim | ledger, devices | one bonus per device and identity, the referral cap, two row locks |
| Rewards (`rewards/`) | ad sessions in Redis, the ledger's reward rows | ad session start, AdMob callback, daily claim | ledger, settings | repeated callbacks, caps counted over other rows |
| Admin sessions (`auth/`) | `RefreshToken` lineages, login counter | login, rotate, revoke | audit, Redis | rotation that is not one statement |
| Ingest and fonts (`ingest/`, `fonts/`) | `UploadSession`, `Asset`, `FontAsset`, `AssetFile`, objects | tickets, finalize, versions, covers, previews | object store, catalog cache | long checks between read and write, failed steps, objects without a transaction |
| Assets (`assets/`) | `Asset.status`, `deletedAt` | publish, unpublish, remove, file | ingest, cache | writes what it read about |
| Categories (`taxonomy/`) | `Category` | create, hide, remove, reorder | catalog cache | tree rules under concurrent edits |
| Catalog (`catalog/`, `core/cache/`) | pages in Redis under a generation | list, look up, download | assets, categories | pages loaded before an edit and kept after it |
| Backups (`backups/`) | `BackupSettings`, objects, temp dumps | daily check, run, request, delete, clear leftovers | object store, BullMQ, pg_dump | interrupted runs, deletions that cross them |
| Push (`push/`) | `Device.pushToken`, `PushMessage` | set or move a token, send, deliver | BullMQ, Firebase | tokens that move between batches, repeated runs |
| Rate limits (`core/rate-limit/`) | fixed-window counters in Redis | hit | codes, rewards, claims | counters left without an expiry |

The rest (guards, DTO validation, error mapping, media probes, envelope
encryption, admin reports, deployment scripts, the generated Prisma client) has
no state of its own or only formats data, and is not modelled.

What makes each part correct:

- **Ledger**: never overdrawn; one row per key; the cached balance is the ledger
  sum at every moment; a closed account does not move; every call ends.
- **Captions**: a result is paid for; a failed job is refunded, once, and never
  by more than was taken; audio exists while a job needs it and not for ever.
- **Sessions**: a session that was ended stays ended; of two refreshes of one
  token at most one is honoured.
- **Codes and limits**: a limit ends with its window whatever dies in between.
- **Logins**: wrong passwords are tried within a budget; an ended lineage is dead.
- **Pricing**: a job has one price, the one its rule says at every boundary, and
  an activation never leaves none.
- **Push**: a message reaches every install once.
- **Sign-in**: of racing sign-ins of one person one makes the account and is told so,
  and the limit of sign-ups from one address cannot be raced past.
- **Backups**: automatic ones keep their interval; the newest cannot be deleted.
- **Deletion**: a deleted account holds no credits and no personal data.
- **Claims, rewards**: one bonus per identity, caps hold under concurrency, a
  repeated callback pays once.
- **Caches** (providers, settings, catalog): once a change is answered, no later
  read uses what it replaced; failing that, stale copies run out.
- **Ingest, assets**: what is catalogued is stored; a published font has a file and
  a preview to be shown by; a failure never takes back a success.

## Plan

1. `CreditBook`, `Ledger`, `LedgerProofs`: the credit ledger. *Done.*
2. `CaptionJobs` on top of `CreditBook`: paid jobs. *Done.*
3. `UserTokens` with `UserTokensProofs`; `Rewards`; `Accounts`. *Done.*
4. `Library` (ingest, fonts, covers, publication) and `Catalog` (the cached lists
   over assets and categories), with `MCAssets`. *Done.*
5. `AdminTokens`, `Providers`, `Settings`, `Pricing`. *Done.*
6. `Codes` (one-time codes and the rate limiter), `Push`, `Backups`. *Done.* Parts
   that share no state share a run, as `MCAssets` does.
7. `SignIn`: sign-in and linking of accounts. *Done.* Then deadlines and paging that
   the modules leave out.
8. Proofs: `LedgerProofs`, `UserTokensProofs`, `RewardsProofs`, `CaptionProofs`,
   `AccountsProofs` (accounts, one-time codes), `LibraryProofs`, `BackOfficeProofs`
   (backups, administrators, pricing, providers, settings) and `AppProofs` (sign-in,
   push, catalog). *Done.*
9. What the parts promise, without their statements: `Escrow` of captions, `SessionKeys`
   of sessions, `Enrolment` of claims, each implemented by its part, as `CreditBook` is
   by the ledger, and each refinement proved. *Done.*

Runs are few on purpose: a module gets one run in which its safety and its
liveness are checked together, a second one only where one instance cannot show
both, and a run that is meant to fail for each finding. Parts that share no row
and no key share a run: its module picks a `part`, and every behaviour is of one.

## Modules

### `CreditBook`: what the ledger promises

`status`, `balance` and `entries` are `User.accountStatus`, `User.creditBalance`
and the `CreditTransaction` rows. `Post` is one successful `LedgerService.post`
as callers may think of it: atomic, at most once per key, refused when the
account is closed to it or the balance does not cover it. `Move` is a guarded
status change. It is the interface every other module builds on.

### `Ledger`: how the ledger keeps it

One action per statement of `post()`: the lookup of the key (45-47), the
guarded `UPDATE ... WHERE` (65-74), the second read that names the refusal
(95-112), the `INSERT` with its unique key (83-92), the commit, and the look for
the winner after a unique violation (53-59). `rowOwner` and `keyOwner` are the
row lock and the uncommitted unique-index entry, so an `UPDATE` waits for a
matching locked row and re-checks its `WHERE`, and an `INSERT` waits for a
pending key. `End` is a request that is over or whose process or connection
died: an open transaction rolls back. `inTx` is a post inside the caller's
transaction, which must not swallow a unique violation; the caller's other
statements are left out, and so is what follows the post inside its
transaction (it can only delay or undo the commit, which `End` covers).

### `CaptionJobs`: charge, job, refund, sweeper

An upload is the awaits of `CaptionsService.start` (find, charge, store,
enqueue, and the catch block's discard and refund). A job is BullMQ's record of
it (`job`) with the worker's position in `process()` (`phase`) and what it
decided (`outcome`). `file` is the temp audio of a job id and `doomed` the files
the sweeper has checked and not yet deleted. BullMQ is external, modelled from
how the worker uses it: a job id is added once, attempts are counted when a run
returns, a job whose worker died is requeued once and then failed without
`process()`. `Faults` switches faults on per run: a request cut off, a worker
death, an `add()` whose reply is lost, an `rm` that fails, a refund that cannot
be posted. Time is abstract: a finished job may be pruned, and a file become old,
at any moment, except that a file does not become old while the request that
wrote it has still to issue `queue.add`.

### `Escrow`: what captions promise

Credits are taken for a job once (`Take`) and then spent on a result (`Deliver`) or all
given back (`Return`); `Elsewhere` is the rest of the server, which gives a user credits or
closes the account. `CaptionJobs` shows it the ledger's rows (`TakenFor`, `Refunded`) and
`served`, without uploads, queue, files or reasons.

### `UserTokens`: sessions and rotating refresh tokens

`session` and `token` are the `UserSession` and `UserRefreshToken` rows, each
absent, live or revoked. `rotate` is three reads, a conditional `UPDATE` that
claims the token, the `UPDATE` of `lastUsedAt` and the `INSERT` of the next token;
`revokeSession` and the token part of `deleteAccount` are transactions that lock
the rows they revoke, in opposite orders, so they can deadlock (`Deadlock` is
Postgres aborting one). `from` and `late` are kept for the properties: the token
a token replaced, and whether it was issued after its session had ended.

### `SessionKeys`: what sessions promise

A session is begun (`Begin`), whoever is owed its next key gets it once (`Hand`), a key
that is turned in opens nothing any more (`TurnIn`), and a session that is closed (`Close`)
is entered by no key, new or old. `UserTokens` shows it `OpenSessions`, `EndedSessions`, the
tokens that could be exchanged (`UsableKeys`: live, of a session that is), the requests that
are about to insert a token (`OwedSessions`) and the tokens that exist (`PastTokens`). A late
token (`late`) is in `past` and never in `keys`.

### `Rewards`: rewarded ads and the daily claim

Both pay inside a transaction that first locks the `User` row; `rowOwner` is that
lock. `session` is the Redis key the app polls, which only the callback's outcome
overwrites. AdMob is external: it repeats a callback until it is answered 200, in
any order and overlapping itself. `clock` counts ticks, `DayTicks` to a UTC day;
a claim uses the time at which it was called, an entry the time at which it was
inserted.

### `Accounts`: claim, username, deletion

Each statement of `ClaimService.apply` that can wait is an action: the `UPDATE`
of the own row, the unique index of the username, the two `BonusClaim` keys, the
inviter's row `FOR UPDATE`; the posts, the `Referral` row and the commit are one,
because by then every row they write is locked. `rowOwner` and `keyOwner` are
row locks and uncommitted unique keys, `Blocker(r)` the request that r's next
statement waits for, and `Deadlock` a ring of those. `Whose` is the catch block
that asks who has the username and otherwise tries again without the bonus.
`deleteAccount` reads the account without a lock, forfeits what it read and
erases the row.

### `Enrolment`: what claims promise

Claims happen one at a time: each takes a username and perhaps the bonus of its mailbox
and install, and pays for the referral whole or not at all, the inviter only below the cap.
Of the variables of `Accounts` it sees what is committed: who has claimed, usernames, the
`BonusClaim` keys (`Mailboxes` and those of installs), the inviter each account has named and
the ledger's bonus, invitee and inviter rows. Locks, waiting, deadlocks and second tries do
not appear in it.

### `Library`: uploads, versions, covers, publication

`status`, `deleted`, `details`, `files` and `session` are the `Asset`,
`FontAsset`, `AssetFile` and `UploadSession` rows, `stored` the bucket; a key is
named after the upload session that signed it, or is that of a preview the server
draws. A request (`call`) is one of `finalize`, `removeCover`, `refreshPreview`,
`publish`, `unpublish` and `softDelete`, one query, transaction or storage call to
a step. At READ COMMITTED a transaction that finds rows and then replaces them is
two steps (`ReadCovers` and `SwapCover`, `ReadPreviews` and `SwapPreview`,
`ReadOriginals` and `AddVersion`). `Cut` ends a request at any of its awaits,
which stands for a death, a failing query and a storage removal that fails and is
ignored. `Dashboard` is the one assumption about those who call: no finalize is sent
while one of the same upload, or of another main file of its asset, is in progress
(`Alone`), as from a client that waits for its answer. The services do not ask
for it, and what breaks without it is a finding and a gap below. Every other order of
calls is allowed: `unpublish` of any asset, as the code has it, and a version of a font
that has none yet.

### `Catalog`: the cached lists

`history` holds each content the database has had: which categories exist, which
are hidden, their parents, where items are filed and which are published.
Administrators commit a change and bump `generation` in a second step, or never
(`EditEnds`: Redis is down or the process dies). An app reads the generation, looks
its page up, and on a miss loads it in one query or two and stores it under the
generation it read. `settled` is kept for the property: the number of contents the
last bump came after.

### `Providers`, `Settings`: rows and the copies of them

Both services keep a copy in the process, which changes clear after their commit
and which runs out by itself. What a row held is the number of the change that
made it (`changes`, `updates`), so a copy is stale when its number is lower. In
`Providers` a change is `setKey`, `removeKey`, `deactivate` or the transaction of
`activate`: `SwitchOff` locks the active rows, `SwitchOn` needs its row by id and
the partial unique index, and either may fail. `cleared` is the last change whose
request has cleared the cache. In `Settings`, `update` begins with a `get` and so
may fill the copy itself.

### `Pricing`: what a job costs

`priceFor`, `blockProblems` and `tierProblems` are operators (`PriceFor`,
`BlocksAreValid`, `TiersAreValid`). A duration is in ticks, several to a millisecond, so
that it need not be a whole number of them: `Milliseconds` is `Math.round` of
pricing.ts:38, from which blocks are counted, and tiers compare the duration as it is
(line 41). What is left out is the error of binary floating point itself.

The rules of a feature are versions. `createRule` is the read and the `INSERT`.
`activate` is the lookup and two `UPDATE`s: the first finds the active rows of its
snapshot (`FindActive`), waits for them and locks what still is active (`RuleOff`); the
second turns on its own row and nothing else (`RuleOn`), where the partial unique index
(`OnlyOne`) refuses it when another row is left active. `ActivateFails` rolls back.

### `AdminTokens`: administrators

`refresh` holds the `RefreshToken` rows, `failures` and `expires` the Redis
counter of an email. A login reads the counter, compares a password and counts or
clears, each a step; a refresh reads its token, retires it and issues the next one,
each a statement of its own; reuse and logout revoke a lineage. `guesses` and
`unsaid` are kept for the property.

### `Codes`: one-time codes and rate limits

Every Redis command of `send`, `verify` and `RateLimiter.increment` is a step, keys
expire at any moment, and a request may die between any two commands. One counter
per email stands for the three limits of `send`, which are taken one after the
other and are alike.

### `Push`: notifications

Devices are numbered in the order of their ids. `deliver` takes batches after the
last id it took, sends, drops what Firebase calls dead and ends with one UPDATE.
`setToken` is one step, because `pushToken` is unique: of two transactions that
race for a token one fails as a whole. A message is to every install.

### `Backups`: schedule, runs, deletions

A worker runs one job at a time: the daily check, which asks whether an automatic
backup is due, or a requested run. The run is create, dump, upload, remove the
file, record. `Restart` is a death anywhere and the boot that follows; a job the
process died with is run once more. A deletion lists the bucket and then deletes.

### `SignIn`: finding, linking and making accounts

`email` and `sub` are the two unique columns of `User` that a sign-in looks for.
Each caller is an install; its sign-in is the lookup by Google account, the lookup
by email, then the `UPDATE` that links or the count of its IP address and up to
three `INSERT`s with a lookup after each that fails, then the `UPDATE` of the
install and the start of a session, any of which may be the last before the
process dies. A drawn referral code may be taken at any `INSERT`. `told` is kept
for the property.

### The MC modules

`MCLedger` (`Ledger`, `Pricing`, `Providers`, `Settings`), `MCUserTokens` (`UserTokens`,
`AdminTokens`, `Push`), `MCRewards` (`Rewards`, `CaptionJobs`, `Backups`), `MCAssets`
(`Library`, `Catalog`, `SignIn`) and `MCServices` (`CaptionJobs`, and small instances of
`UserTokens`, `Rewards` and `Codes` for their liveness) each explore parts that share no
row: a behaviour is of one part, and the others rest in their initial states. An MC
module extends its parts, so that the properties of a run are the definitions the
theorems speak of and TLC evaluates each part's assumptions on its constants; only the
small parts of `MCServices` are instances. `Absent` declares `None`, which several parts
share. `MCCaptionJobs` has the keys and prices of captions that two runs use.

## Runs

| Run | Instance | Shows |
|---|---|---|
| `ledger` | 2 users, 3 keys, 2 requests that post again and again (debits of one grant, a key used by two users, a post in a caller's transaction), all status changes; 5 rules, 3 versions, 2 administrators, durations of every quarter of a millisecond from 0 past the last bound (two milliseconds to a second); 2 providers, 2 changes; 3 updates of the settings | the ledger matches its balances and implements `CreditBook`, posts never wait in a ring, every call ends, prices are right, there is one price at any moment, one provider of a capability is active, stale copies end |
| `services` | 1 caption job id, 2 uploads of it, cuts, one worker death; 1 session, 2 tokens, 2 requests; 2 users, an ad and a callback for another user's session, one cut; 2 requests for codes at a limit of 1 | no free result, no unrefunded failure, audio while needed and not longer, every charge settles, captions implement `Escrow`; a replaced token that comes back ends the session, deadlocks included; a paid ad is shown in the end; limits end |
| `user_tokens` | 1 session, 3 tokens, 3 requests, cuts; 2 logins at a budget of 2 over 5 failures, a lineage of 2 tokens; 3 installs, 3 push tokens, batches of 2 | a token is replaced once, a late token is worth nothing, sessions implement `SessionKeys`; the login budget; a message reaches who kept a token once |
| `rewards` | 1 user, 2 ads, claims, 2 requests, 3 days of one tick, one cut; 3 days of two ticks, intervals of 1 and 2 days, 2 deletions, 2 stored backups when a run begins, any number of restarts; 2 uploads at prices 1 and 2, every fault, one dead worker | the cap, what the app is shown, the spacing of claims and of automatic backups, the newest backup stays; refunds are backed by an equal charge |
| `accounts` | 3 accounts on 2 mailboxes, 4 claims that share an install, a name, an inviter or name each other, a rename, a deletion, a grant, 2 requests | one bonus per identity, the referral cap over what was paid, true answers, claims implement `Enrolment`, no request waits for ever |
| `assets` | a sound with two covers, two fonts, or a font and a version; 3 uploads, 2 previews, 2 requests; 2 administrators, 1 app, 2 categories, 1 item, 2 edits; 2 installs, 2 emails, 2 Google accounts, 2 accounts, one erased, a limit of 1 | catalogued files are stored, a published font can be shown, failures take nothing down; served pages are as new as the last answered edit; an account is new once, the sign-up limit holds |
| `captions_stalls`, `accounts_deletion`, `assets_retries`, `assets_unpublished`, `providers_stale`, `admin_lineage` | as small as the case allows | the findings below |

Bounds. Every request can be called again after its reply, so two requests give runs of
any length in which two calls overlap; three are used where a third could matter and the
state space allows it (`user_tokens`). Uploads under different keys meet only in the
user's balance, which the ledger covers, so captions use one job id; a captioning that
costs nothing posts nothing, and as it may be repeated for ever under one key it
multiplies the states a hundredfold: the instances price every upload. `MaxStalls` (worker
deaths), `MaxCuts` (requests that die in `Rewards`) and `MaxClock` (ticks) bound counters;
BullMQ's `attempts` (2) and stall limit (1) are constants of the code. `rewards` puts one
tick to a day and an interval of one tick, so every comparison of times happens on its
boundary. `Tokens` bounds how often a session is refreshed. Safety runs use the symmetry
of interchangeable requests and tokens; runs with a liveness property use none. `assets`
is bounded further: sounds and fonts share no row, so `OneKind` explores them one at a
time, with the three uploads that give each its second cover, its second font or its
version; lists share no page, so `OneList` explores one per behaviour, of each form.
`MaxFailures`, `MaxUpdates`, `MaxChanges`, `MaxTime` and `MaxStored` bound counters of the
smaller parts: a login counter that is used up twice over, one change that crosses a read
and one that follows, two automatic backups and the interval between them, and a bucket
with a backup to keep and one to delete. `LastAccount` is an account and the one that is
made once the first is erased or lost to another address; `OneErasure` erases no second
account, which would leave nothing to sign in to. Durations are on a bound, or less than
half a millisecond, half, or more past it. Three installs are two batches, the first full.
Two requests and two edits are what a race takes. `MaxVersion` is the number of uploads
and so cuts nothing off; `MaxEdits` counts committed changes.

Fairness. Node runs every continuation whose promise has settled and Postgres
answers, so the steps of a started request are fair; where a step can wait for a
row lock or a pending unique key, Postgres serves the waiters in order, hence
strong fairness (`Proceed` in `Ledger`, `Lock` in `Rewards`, `Step` in `Accounts`,
the revoking statements in `UserTokens`). Postgres' deadlock detector is weakly
fair. AdMob repeats an unanswered callback (strong fairness of `Deliver`). BullMQ
serves its queue and checks for stalled jobs, the sweeper runs on a timer, and
time passes. Starting a request, changing an account or a provider, and all
faults are not fair. A copy kept in a process runs out, and a Redis key with an expiry goes.
`Codes` assumes that a process does not die at the same command every time
(strong fairness of `CheckWindow` and `OpenWindow`). In `services` a behaviour is of
one part, so one fairness condition speaks of a step of each of several parts.
The session part of `services` has no cuts: a revocation whose connection
dies is not repeated by anyone. `ChargesSettle` exempts jobs an upload of which
was cut after its charge (`abandoned`) for the same reason.

## Proofs

`LedgerProofs` proves, for any users, keys, amounts, requests and inputs, that
`Ledger` keeps `IInv` and from it `TypeOK`, `Solvent`, `RunningBalance`,
`OneEntryPerKey`, `AnswersAreTrue`, `AppendOnly`, `ClosedAccountsDoNotMove`, and
that `Ledger` implements `CreditBook` (`BookSpec`). Assumed are only
`LedgerAssumption` (amounts are nonzero integers, there are inputs and they are
well typed, `Nobody` is no request). The run leaves `AppendOnly` and
`ClosedAccountsDoNotMove` to the proof: on its instance `BookSpec` implies both.

The properties are not inductive on their own. That a commit keeps the balance
equal to the last row needs to know that the `draft` it writes was computed from
the balance still stored, and that is true because the row is locked. Hence
`IInv` adds: who holds which lock in which step (`Locks`); an open transaction's
draft is the stored balance plus its amount, and the row still satisfies the
`WHERE` clause (`Drafts`); a pending key has no committed row (`Pending`); an
answer is there only after the step that gave it (`Replies`). The refinement
then needs one step per action: only `Commit` and `MoveStatus` change the mapped
variables, and `Drafts` and `Pending` are the guard of `CreditBook!Post`.

That posts cannot deadlock among themselves (`NoRing`) comes from the order in which `post`
takes its two locks, the account's row and then the key. Who waits for a row is waited for
by nobody (it has nothing yet); who waits for a key has its row, and whoever has the key has
both and waits for nothing. A chain of waiting posts so ends after two steps. It speaks of
`post` alone: a caller's own statements may close a ring, and in `Accounts` they do.

`UserTokensProofs` proves, for any users, sessions, tokens and requests, that
`UserTokens` keeps its `IInv` and from it `TypeOK`, `OneHeir`,
`LateTokensAreBarren` and `OneLiveToken`. `OneHeir` is not inductive: two requests
could both be about to issue for one token. `Exclusive` excludes that (a session
has one live token or one request between its claim and its insert, never both),
`Held` ties what a request remembers to rows that still exist, `Rows` says that a
replaced token is revoked, and `Late` that no request gets past its reads with a
token of an ended session.

`ImplementsKeys` refines `SessionKeys`: the claim of a token is `TurnIn`, its insert `Hand`,
a commit that revokes `Close`, and every read, lock and rollback a stutter. It needs one
more invariant, `Locking`: a transaction that has come past the session's row has it locked
or found it revoked, and the tokens it has locked are of what it ends, so that what its
commit revokes is what is open then, not what was open when it looked.

`RewardsProofs` proves `CapHolds`, `ClaimsAreSpaced` and `ShownIsPaid` for any users,
ads, callbacks, cap, interval and length of a day. `CapHolds` holds because what a
request counted under the row lock is still true when it posts (`Checked`): entries of
a user are only added by who has the row (`Locked`), and an ad counted on one day and
paid on the next is counted to a day with fewer entries. That two claims are an interval
apart needs that claims are numbered without a gap and that no entry is from the future
(`Chained`, `Dated`).

`CaptionProofs` has four invariants, each on top of the one before. `IInv`: whatever an
upload or the worker may refund was taken (`UploadBacked`, `JobBacked`), hence
`RefundsAreBacked`, with no condition. `SteadyInv`: of an id that costs something one
upload ever passes its charge. `LoneInv`: that upload is over once its job is in the
queue, hence `PaidJobHasAudio`. `GoneInv`: credits are given back only when the audio
is gone for good, hence `NoFreeResult`. `FailedIsRefunded` is inductive over `SteadyInv`.
The conditions are not there to help the prover: TLC refutes the property without each.
`SteadyPrices` (an id is free in every send or in none): a rule that changes between two
sends of one key queues a job with 0 credits that the other send paid. `MaxStalls <=
MaxStalledCount`: `captions_stalls`. `"lostReply" \notin Faults`: an `add()` whose reply
is lost refunds a job that runs. `"rm" \notin Faults`: audio that could not be deleted and
a death after the refund give a result after it. All four are among the findings and
gaps below. `ImplementsEscrow` puts the results together under the conditions of
`NoFreeResult`, but for `MaxStalls`: only `Charge` of the first upload is `Take`, a result
`Deliver`, a refund `Return`, and everything BullMQ, the sweeper and the faults do is
a stutter. `Escrow` promises nothing about a job that is neither served nor refunded, so the
limit on deaths is not needed; that every charge settles is liveness.

`AccountsProofs` proves the three invariants of the `accounts` run for any accounts,
identities, calls and cap, with deadlocks, cuts, deletions and changes of names in
between, and that claims implement `Enrolment`. `IInv` ties each request to what it has
locked (`Held`) and to what it read and wrote since (`Own`), and says that an account
whose claim has not committed has neither bonus nor inviter (`Unclaimed`). `SignupBonus >
0` and `InviterCredits > 0` are conditions because an administrator may set either to 0
(`credit-admin.dto.ts` asks for 0 or more): the ledger then has no row for a claim that is
answered `granted`, and no row by which referrals could be counted, so the properties say
nothing of the code. For the refinement `InviteeCredits > 0` is the third, for the same
reason.

A commit is one `Claim` of `Enrolment` although its statements ran among those of others.
That takes a second invariant, `Settled`. `Bare`: a transaction holds the key of a mailbox or an
install only for a bonus. `Decided`: what a claim is to
pay at its commit is what its bonus, its inviter and the cap then ask for, because the inviter's
row has been locked since the referrals were counted. `Paid`: an inviter was paid for a
claim exactly when its `Referral` row says so, thus what the code counts, rows, is what
`Enrolment` counts, payments. The one-time codes of the same module have their types proved
(`CodesTyped`): a counter stays in its range and an expiry is kept only with its counter.

`LibraryProofs` has two invariants, for any sounds, fonts, uploads, previews and
requests. `Base` holds whatever is sent, and however often: a font that has a preview
keeps one, with a current file and its details (`FontShows`), because a preview is drawn
only of a font that has a file, a version replaces files of its own font and a redraw
previews of its own (`Showing`, `Rows`), each new preview being its request's alone
(`Private`). Hence `PublishedFontsShow`, since `publish` asks for the preview
and nothing else ever takes the last of the three away. The other, `IInv`, assumes
`Dashboard`, without which `assets_retries` refutes `FilesAreStored`. It is about the
rows (`Sound`: a row's object is in the bucket; `SessionsOK`; `HasDetails`), about one
request (`Local`: what it read is still true, what it will replace is closed, what it
refused is not catalogued) and about two (`Apart`: they work on different uploads, and
neither deletes what the other has drawn). From it follow `FilesAreStored` and
`FailureSpares`. No theorem says that what is published has a file: sounds do not
(`assets_unpublished`).

`BackOfficeProofs` has five parts. Backups: `NewestStays` and `AutosAreSpaced` for any
intervals of whole days and a slack below a day (`BackupsAssumption`; `backup-rules.ts`
has 1, 7 and 30 days and an hour); the newest backup stays because a deletion picks one
that was older than another in the list it read (`Older`). Administrators: `LoginBudget`,
from `Counted`: passwords tried are at most the failures counted, being counted, or never
said (`unsaid`), and a comparison starts only below the budget. Pricing: `JobsStayPriced`
for any number of administrators: one version at most is in use (`PricingInv`), because
the index keeps a second row from being turned on whatever the first `UPDATE` found, and
never none again, because the two `UPDATE`s commit together. `PricesAreRight` for any
rules whose fields are integers (`PricingAssumption`, as the DTO validates them), any
durations and any ticks: rounding to a millisecond and then up to a block counts the
blocks a duration is in by half a millisecond (lemmas on quotients), and of the tiers that
cover it there is a first one (a least element of a nonempty set of numbers). Providers:
`OneActive`, for any kinds, administrators and jobs: `SwitchOn` passes the partial unique
index only when every other active row is one its own transaction has switched off.
Providers and settings: no copy and no reader is ahead of the committed changes
(`ProvidersTyped`, `SettingsTyped`). That they lag behind is the finding
`providers_stale`.

`AppProofs` has three more. Sign-in: `FirstSignIns` for any callers, accounts and limit.
`NewOnce` says that what a visit believes to be new was told to nobody; `WithinLimit`
that visits which have been counted and not yet inserted, with the accounts that earn,
are at most the counter and at most the limit. Push: `ReachedOnce` for any number of
installs and any batch (`PushAssumption`: of one or more). A batch is the first installs
after the last id (`BatchesAreFirst`), so a run has passed nobody who keeps a token
(`Covered`) and has sent to nobody it has yet to come to (`Once`). Catalog: `EditsShow`
for any administrators, apps, categories, items and starting contents. A generation
stands for one moment (`SameSince`), so a page stored under it is right for everyone
who reads it under it (`PageOK`); a bump makes a generation nobody has yet.
How a list is computed from a content plays no part: the proof leaves `ShownUnder`, which
walks the tree, unexpanded but for its range.

Model-checked only. Liveness (`EveryCallEnds`, `ReuseEndsSession`, `PaidIsShown`,
`ChargesSettle`, `AudioGoes`, `RequestsEnd`, `WindowsEnd`, `CopiesCatchUp`), which needs
fairness and ENABLED, out of this prover's reach. Induction over data: that a balance is
the sum of its rows, which the daily reconciliation compares, is a fold;
`RunningBalance` is its proved, sum-free form. Every invariant and action property of a
run that passes, and every refinement, is a theorem. The other way round, `Solvent`,
`OneEntryPerKey`, `OneLiveToken` and the types of all modules but `Ledger` are proved and
no longer run.

## Findings

- `captions_stalls`: BullMQ fails a job whose worker died twice without calling
  the worker, so its charge is neither refunded nor audited.
- `accounts_deletion`: `deleteAccount` forfeits the balance it read without a
  lock; credits granted before its last update stay on the deleted account. A
  change of the username that was let in before the deletion breaks the same
  property, by leaving a name on the erased row.
- `assets_retries`: a finalize that is sent again while the first one reads the file
  back works on what the first one has catalogued. For a cover it swaps the row
  for an equal one and deletes the object both name; for a new font it refuses its
  own face as taken, marks the font failed and deletes its file.
- `assets_unpublished`: `unpublish` asks for no status (asset.service.ts:197). A draft
  whose file never came, or an asset whose finalize failed, becomes `ready`, and `publish`
  then takes it, though "Only a fully processed asset may go live" (line 32). A font is
  saved by the preview `publish` asks for (`PublishedFontsShow`); a sound goes live with
  no file.
- `providers_stale`: `getActive` stores what it read before a change cleared the
  cache, so "the very next job" (provider-credentials.service.ts:34-36) and those of
  the next 60 seconds use the replaced key or provider. `CopiesCatchUp` shows that
  it ends there.
- `admin_lineage`: a refresh that read its token before the lineage was revoked
  retires it again and issues the next one, so a lineage killed for reuse or by a
  logout has a working token (token.service.ts:77-78).

Known gaps, seen while modelling and not listed as findings:

- A process that dies between the charge and `queue.add` leaves a charge without a job, and
  an `add()` whose reply is lost refunds a job that still runs; no document promises
  otherwise.
- A job whose audio could not be deleted and whose worker dies between the refund and its
  return is run again by BullMQ: a result after a refund. `services` therefore has no
  failing deletions.
- Two deliveries of one AdMob callback that overlap a suspension can end with `rejected`
  shown for a paid ad (the slower one writes last); `PaidIsShown` assumes an account that
  stays active.
- A claim that loses a username to an account that lets the name go again before the claim's
  catch block looks for it is applied without its bonus, although no other claim took it.
  `accounts` has a rename to a name but none away from it.
- A resend between the first send's charge and its `queue.add` is answered 409 as if its key
  had been spent; when a pricing rule changes between two sends of one key, a job can be
  queued with 0 credits while the other send paid, and its failure refunds nothing. TLC
  shows both; no run keeps them.
- Two versions of a font finalized at once, which `Dashboard` excludes, get one number and
  are both current (fonts.service.ts:193); a finalize sent again that fails late marks
  failed an asset that is ready. `PublishedFontsShow` is proved with both, `FailureSpares`
  without.
- Two covers finalized at once, which `Dashboard` allows, leave two: the transaction that is
  to prevent it (ingest.service.ts:458) reads at READ COMMITTED.
- finalize does not ask whether its asset was deleted meanwhile, so a deleted font can take
  a face and keep it for ever; so can one whose `softDelete` dies between its two writes. "A
  deleted font frees its family and style" (asset.service.ts:229).
- A finalize that dies between the creation of a sound's file and the end of its session
  leaves a sound no later finalize can finish: its key is taken.
- A category removed while an asset or a child moves in loses it silently: the foreign keys
  are set to null.
- A process that dies between `INCR` and `EXPIRE` of the login counter
  (login-attempt.service.ts:49-50) leaves it without an expiry; the rate limiter repairs
  such a counter, this one is repaired only by a later failure, which a locked-out email
  cannot have: it stays locked out.
- One-time codes: the `INCR` of a guess that read the code before the last wrong one deleted
  it re-creates the counter, without an expiry; a resend resets the counter; a deletion that
  comes late takes a code that was sent meanwhile; and two verifications of the right code
  at once both succeed. Parallel guesses can so exceed the budget that the comment at
  otp.service.ts:82 speaks of, across a resend.
- A process that dies between the `PushMessage` row and `queue.add`, or a worker that dies
  twice, leaves the message "sending" for good. A run that is repeated sends again to who
  was reached before (`ReachedOnce` allows it).
- Linking a Google account writes its subject on a row that was erased meanwhile
  (accounts.service.ts:73), and the next sign-in with that Google account finds the erased
  row. A sign-in that loses a first sign-in to another Google account of the same address is
  let in without the ACCOUNT_LINK_CONFLICT of line 71, because the lookup at line 106 does
  not ask. `SignIn` has both behaviours.

## Not modelled

- **Reports and lists** (admin statistics, search, audit log, history, paging,
  links): they read and change nothing that the modules have.
- **Data transformations**: media probes, WAV parsing, encryption, validation of
  requests, provider HTTP adapters. The modules keep their outcomes.
- **Timers and bootstrap**: `ReconciliationService`'s timers, the creation of the
  first administrator, seeds and connection set-up.
- **The generated Prisma client, schema, migrations, scripts and containers.** The
  generated client is about 44,000 of the repository's 56,000 implementation lines;
  all hand-written TypeScript without tests is under 13,000, of which controllers,
  DTOs and configuration are the larger part.
