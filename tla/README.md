# ky-server-base in TLA+

A verification project kept beside the Go server in `src/`: TLA+ models of the
parts where the order of statements matters, TLC runs on small instances, and
proofs that TLAPS checks for every size. `PROJECT.json` maps every definition to
the source lines it models.

## The system

ky-server-base is one Go process over one SQLite or PostgreSQL database. HTTP
handlers run concurrently and share state almost only through the database:
each handler is a sequence of separate statements and short transactions, and
other handlers run between any two of them. A second process (`init-admin`,
`deposit`, `restore`) may use the same database.

| Component | State | Operations | Interacts with |
|---|---|---|---|
| KySignOn sign-in (`api/sso_handlers.go`, `sso/`) | PKCE cookies, ID token claims, `users`, `sessions` | start, callback: exchange, lookup, adopt, provision, role sync, issue | the provider, SCIM, logout |
| Back-channel logout (`api/sso_handlers.go`, `sso/backchannel.go`, `store`) | `sso_logouts`, `sso_subject_logouts`, `sessions` | verify token, prune fences, write fence, delete sessions | callbacks still running |
| Accounts and sessions (`auth/session.go`, `api/password_handlers.go`, `store`) | `users`, `sessions` | login, authenticate, change password, sign out | init-admin, SCIM, role sync |
| init-admin (`cmd/server/main.go`) | `users`, `sessions` | read, reset or create an administrator | the running server |
| Login gate (`auth/pow.go`, `api/server.go`, `api/auth_handlers.go`) | `Server.attempts`, `PoWSpent` (memory) | puzzle, attempt windows, spend | concurrent logins, restarts |
| SCIM users (`scim/handler.go`, `store`) | `users`, handler mutex | create, take-over, PUT, PATCH, DELETE | sign-ins on the same rows |
| SCIM groups (`scim/handler.go`, `store`) | `groups`, `group_members`, handler mutex | create, PUT, PATCH, DELETE | SCIM user deletion |
| Backup (`api/backup_handlers.go`, `backup/`, `cmd/server/main.go`) | settings rows, a pinned key file | pair, pin, unpair, schedule, run, drill, export | scheduler, shutdown, recovery service |
| Shutdown (`cmd/server/main.go`, `api/server.go`) | detached-handler counter, scheduler channel | stop, wait, give up | backup |
| Start-up (`cmd/server/main.go`, `store/factory.go`, `store/migrations`) | `schema_migrations`, the username index, `users` | migrate, build index, bootstrap administrator | other processes on the same database |
| Restore (`cmd/server/main.go`) | the data directory, the schedule | write files, turn deposits off | the server started on the copy, the original |
| Request gate (`api/server.go`, `auth/session.go`, `config/config.go`) | none | CSRF, origin, preflight | every handler, the browser |
| Client address (`auth/clientip.go`, `config/config.go`) | none | trusted proxies, forwarded entries, limiter key | the login gate |
| Settings, audit, listing, configuration, web interface | rows of their own | single statements | - |

What is hard: a callback inserts a session and checks the logout fences in a
later statement while the logout writes its fence and deletes sessions in later
statements; logout tokens are repeated, delayed and dated in whole seconds; a
password is verified against a row that may be gone when the session is
inserted; request authorization joins two rows read at different times; SCIM
writes compute new rows from old reads while sign-ins link, rename nothing but
change roles; in-memory limits are checked, left and counted later; processes
that start together look up the same missing migration, and a restore is two
steps of which the second may never happen.

What makes each part correct:

* a logout that answered 200 is final, ends nothing else and refuses nobody else;
* a session row always belongs to an active account with the password it was
  granted for, and replacing a credential revokes at one instant every session
  it granted or may yet grant;
* an administrator's request is let through only while the account is an active
  administrator, and init-admin makes nobody one who was not, unless told to;
* limits hold up to the requests in flight, and tables stay within their caps;
* local accounts are out of SCIM's reach, a linked account keeps its subject,
  names stay unique, and no stale write restores what another took away;
* a server that stops lets counted backup work finish, or says that it gave up, and
  stops in any case; a pinned key and a delivered capsule are on record;
* a group loses only the members somebody asked to remove, and answers with the
  members it stored;
* migrations take effect once and in order whoever runs them and dies, nobody
  works on an older schema, and servers end up serving;
* a restored copy makes no scheduled deposit in the original's name;
* a sign-in is counted to the client that sent it, and no page of another origin
  gets a state-changing request to a handler.

## Modules

| Module | Models |
|---|---|
| `Revocation` | the abstract promise: tokens are granted once, a revocation condemns a set at once, condemned tokens are never usable |
| `SsoLogout` | sign-in callbacks and back-channel logouts; implements `Revocation` |
| `Accounts` | logins, request authorization, password change, init-admin; implements `Revocation` |
| `ClientAddress` | `ClientIP`, `RateLimitKey`, `ParseTrustedProxies`, and the requests a client can send through proxies |
| `RequestGate` | what `ServeHTTP` refuses, the cookie rules of the configuration, and the browser |
| `LoginGate` | attempt windows, the puzzle and the spent set; composes `ClientAddress` and `RequestGate` |
| `Provisioning` | SCIM user writes and KySignOn account lookup, adoption, provisioning |
| `BackupWork` | pairing, pinning, unpairing, schedule and deposits, and `runServer` stopping around them |
| `ScimGroups` | POST, PUT, PATCH and DELETE of groups, statement by statement |
| `SchemaUpgrade` | the abstract promise of opening a store: versions take effect once, in order, and nobody has a store open before the last |
| `Startup` | migrations, the username index, the bootstrap administrator and restore, by several processes; implements `SchemaUpgrade` |
| `MC*` | symmetry for TLC; the `.cfg` files give the constants |
| `SsoLogoutProofs`, `AccountsProofs`, `LoginGateProofs`, `ProvisioningProofs`, `ScimGroupsProofs`, `BackupWorkProofs`, `StartupProofs` | theorems about the module each is named after |
| `ClientAddressProofs` | that `ClientIP` finds the client; `LoginGateProofs` builds on it |

An action is one SQL statement, one transaction or one critical section, with
everything it does. A handler's control state (`lpc`, `opc`, `rpc`, `apc`,
`hpc`, `wpc`) says which statement is next; its record holds what it read. A
definition whose name ends in `_Something` and whose comment says "Faulty
variant" is not part of the specification: it is what a plausible mistake in that
code would look like, and is used to confirm that a property notices it.

**`SsoLogout`.** `StartLogin` to `CheckFences` follow `handleKySignOnCallback`
and `CreateSession`; `ReceiveLogout` to `DeleteSessions` follow
`handleKySignOnBackchannelLogout` and `EndSSOSession` or `EndSSOSubject`. A
session row is named by the sign-in that made it. The provider is external: it
signs people in under sids it has not ended, sends logout tokens and sends them
again. Time is whole seconds, the precision of `iat`; `Tick` does not pass the
end of a running callback's window, which stands for the 300-second PKCE cookie
and the 10-second exchange. Any statement may fail, and a crash drops every
handler. The account lookup is one step, since `Provisioning` takes it apart.

**`Accounts`.** A stored hash is salted, hence never repeated: a counter. Row
states are those an older installation can hold, in every combination. SCIM and
provisioning appear as single steps on linked accounts only. `init-admin` is
another process and survives the server's crash.

**`LoginGate`.** The limiter map is a function over the keys it holds, read with
`At`, which is the zero window for an absent key as in Go; its
iteration order is a choice. `allowAttempt` reads the clock before it takes the
lock, so its reading may be a tick old; `spend` reads it inside the lock. A
solution is "of a puzzle that was handed out": the HMAC and the hash search are
trusted. `accepted` is a history variable. The model is of `Captcha.Provider` set to
`pow`; with another the puzzle is skipped and the windows work as here. The requests that arrive (`SignIns`) are
those `RequestGate` lets through, under the keys `ClientAddress` finds for them; a
request's job remembers who really sent it and from what kind of page.

**`ClientAddress`.** An address is a holder's block (an IPv4 address, or an IPv6
/64 with two hosts) and a spelling (IPv4-mapped or not). The operators follow the
code: the list is unmapped and a prefix that trusts everybody refused, the walk goes
from the right over all header lines. A mapped prefix shorter than 96 bits, which
`unmapPrefix` returns as it is and which then matches no IPv4 peer, is not listed. External: a client sends no, a garbage or a
forged header, from any address of its block; each of up to two listed proxies adds
the address it was called from, with or without a port, to the last line or in a new
one.

**`RequestGate`.** A deployment is any the configuration accepts: https or not,
secure and domain cookies, a proxy that rewrites `Host`, or a plain-HTTP app reached
under a second name. External: browsers send `Origin` with every POST,
`Sec-Fetch-Site` only where the destination is not plain HTTP, withhold Lax cookies
from other sites, protect `__Host-` names and ask before they send a header of
their own.

**`Provisioning`.** One action per statement of `Create`, `kyIdentityAccount`,
`takeOver`, `update`, `Delete` and of the callback from `GetUserBySSO` to
`CreateSession`, which keeps the role and the status of the row it found (`Glimpse`).
Usernames are taken up to letter case; `Init` allows older
accounts that differ only in case. A PATCH is the set of attributes its operations
leave changed. E-mail and display name, which nothing compares, are left out.

**`ScimGroups`.** `Patch` reads the group twice, once to apply its operations and
once inside `replace`, each time with one statement for the row and one for the
members; the checks, the deletes and the inserts are one statement per member. The
foreign keys of `group_members` are on, as in the default DSN. A request may be
cancelled at any statement, and the next one may repeat it.

**`Startup`.** `Start` to `CreateIndex` follow `store.New`, `migrations.Run` and
`EnsureUsernameIndex`; `CountUsers` and `Bootstrap` follow `runServer`; `RunTool` is a
command such as `init-admin` on the open store. A migration's SQL is data: what
counts is whether it fails on a schema that already has it (`Guarded`: `ADD COLUMN`
without `IF NOT EXISTS`). `schema` is the order of the commits, `recorded` the rows of
`schema_migrations`. Transactions see committed tables; the primary key waits for
another transaction's row and fails once it has committed, a busy SQLite database may
fail a statement. `Init` is any installation the code can have left: a prefix of the
versions, accounts whose names differ only in case, the index or not. `RestoreFiles`
fills an empty directory; `enabled` and `newest` are history variables for what the
schedule of the copy does to KyRecovery. The three schedules are `"default"` (no row:
the environment's interval, a day unless set), `"on"` and `"off"`.

**`BackupWork`.** `pc` is where a request or the scheduler stands. `Dispatch` is
`ServeHTTP` with `tracked`, `Done` and `Broadcast` the two halves of
`detachedCounter.done`, `CheckCount` one turn of `WaitDetached`; `Signal` to `Exit`
are `runServer` and `waitForBackupWork`. `n` is the counter of the code, and `TypeOK`
says that it is the number of requests inside a tracked handler. `late` is a history
variable: requests that were still being read when the drain gave up and were
dispatched after `WaitDetached` returned, which `Excused` admits. recoveryclient
and KyRecovery are external: a claim and an upload take any time and may fail, the
key file is created exclusively before its rows, a receipt follows the upload. Any
statement may fail (`Fails`): the open store refuses it, as a busy database or a full
disk does and as `TestRunReportsAnUnrecordedReceipt` makes it do, the store is closed,
or its context is cancelled (`CutOff`). `refused` is a history variable: which of
the key's row, the receipt and the audit row of detached handlers and of the
scheduler's last run an open store refused (the properties tell no other failure
apart). The
settings are written row by row, so a refused write may leave the key ID without the
rest or half a pairing, which is none. What an audit row says is kept as far as
`receipt_unrecorded` goes (`Outcome`). Unpairing and setting the schedule run on the
request's own context, so their audit row may be lost with the connection. The process
ends only by its own exit: a kill leaves the store as some earlier step did, and nothing
reads it until the next start (`Startup`).

## Runs

| Run | Instance | Shows |
|---|---|---|
| `logout_repeated` | 1 sign-in, 2 logouts, 1 sid, 1 subject, 1 account, window 1 < fence 2, 3 seconds | `EndedStaysEnded`, `JustifiedRefusal`, `OnlyNamedSignInsEnd`, `RefinesRevocation` |
| `accounts` | 1 account, 2 sign-ins, 2 requests, 2 operators, 4 passwords | `LiveSessionsAreCurrent`, `AdminOnly`, `ResetIsNotOvertaken`, `NeverSilentlyAdmin`, `RefinesRevocation` |
| `login_gate` | 2 handlers, 2 clients, cap 3, 3 puzzles, prune threshold 1, an IPv4 and an IPv6 proxy, every accepted deployment | `TablesBounded`, `GuessesBounded`, `SpentOnceWhileValid`, `CountedToSender`, `NoForeignRequest` |
| `directory_sign_in` | 2 accounts, 2 names, 1 subject, 1 SCIM request, 1 sign-in | `OwnAccount`, `NoNewClash`, `LocalUntouched`, `SubjectStable`, `ScimGrantsNoAdmin`, `MutexReleased` (liveness) |
| `directory_busy` | 1 account, 2 names, 2 SCIM requests, 1 sign-in | the mutex discipline in `TypeOK`, `OmittedSurvives` |
| `directory_second_row` | as `directory_sign_in` | violated: see Findings |
| `groups` | 2 users, 2 groups, 2 names, 1 POST, 2 PUT or PATCH | `OnlyAskedOrLateRemovals`, `AnswerIsStored`, `RenameSurvives`, `OnlyManagedJoin`, the mutex discipline in `TypeOK` |
| `groups_create_race` | 2 users, 1 group, 1 POST, 1 PUT or PATCH | violated: see Findings |
| `backup_stop` | 2 requests of any kind, the scheduler, both deadlines | `StoreOutlivesWork`, `NoLostWakeup`, `PinIsRecorded`, `DepositIsRecorded`, `PairingHasKey`, `ShutdownEnds` (liveness) |
| `pin_unaudited` | 1 request | violated: see Findings |
| `startup` | 2 servers, 1 command, 2 versions of which the second cannot be repeated, 2 rows, 2 names, 2 crashes or failures | `IndexNeverRefused`, `RefinesUpgrade`, `QuietUntilEnabled`, `ServersServe` (liveness) |
| `restore_dies` | 1 server, 1 version, 1 crash | violated: see Findings |

The type invariants of `SsoLogout` and `Accounts` are proved (`TypeCorrect`) and have no
run; those of the other modules say more than types (who holds a mutex, what a counter
counts, that no version past the last is tried) and are checked.

Bounds. The clock, `MaxHash` and `MaxCount` bound counters; each sign-in and
logout of `SsoLogout` and `Accounts` runs once, handlers of `LoginGate`,
`Provisioning` and `ScimGroups` are reused without limit; ids are not reused, so
a `ScimGroups` run may stop when every id has been deleted. The bounds are chosen so that the cases
happen: in `logout_repeated` a fence is written, expires, is pruned and written
again while a copy of the older token is on its way; in
`login_gate` more keys than the cap allows are live; in `directory_sign_in` a
row is created by SCIM, adopted, demoted and patched from a stale read; four
passwords allow a change and two resets over the initial one; in `backup_stop` two
handlers and a scheduled run are anywhere in their work when the signal comes,
any of their statements is refused, and a request that was still being read is dispatched after the wait; in `startup`
three processes are inside the same migration, one may die in it or lose it while
another goes on, and a name can be created between the clash query and the index. Two
faults let a process die and the next count of accounts fail. `CountedToSender`
and `NoForeignRequest` are about the requests, not about their number: every list of
the proxies, every spelling and every forged header of one entry is among them, and
two hops are what it takes for a trusted entry to be walked over. The
argument for larger instances is the proofs: every safety property above that is
not violated is a theorem for all values of the constants. Symmetry is used on handlers
and on other sets no definition chooses from, and not in the runs that check
liveness; there `MCBackupWork` takes the two requests, which nothing tells apart, in one
order of their kinds.

Fairness. Only `MutexReleased`, `ShutdownEnds` and `ServersServe` need it. For `MutexReleased`,
`FairSpec` asks that a SCIM request
that holds the mutex takes its next read or write: a goroutine that is
runnable is run, and statements return. Nothing is asked of other requests, of
clients, of sign-ins or of the directory. For `ShutdownEnds`, `Fairness` asks that `runServer`
is run when it can go on (`Stop`) and that its two timers fire; handlers, the
scheduler and KyRecovery may hang for ever. For `ServersServe`, `FairSpec` asks that a
process that can go on does, that a server that is down is started again (the
deployment says `restart: unless-stopped`), and that a restore that has written its
files goes on to the setting or reports, and that the operator it tells to turn
deposits off does; crashes are bounded, commands need not be run. Everything else is safety and holds without it.

## Findings

* `directory_second_row`. The comment on `AdoptSCIMUser` says sign-in never
  creates a second row for the same person. A SCIM create with the same
  externalId and another userName, between the adoption lookup and the insert,
  leaves two rows. `OwnAccount` still holds: every sign-in lands on a row of its
  own subject.
* `groups_create_race`. The comment on `groupResourceHandler` says it serializes
  membership writes. `Create` does not take the mutex: a PATCH whose first read
  precedes and whose second read follows an insert of the POST deletes that row,
  whatever the PATCH was about. `OnlyAskedOrLateRemovals` (`groups`) shows that this
  is the only way to lose a member nobody asked to remove.
* `pin_unaudited`. The comment in `handlePairRemoteRecovery` says a pinned key is
  recorded whatever happens next, so that no write-once pin is missing from the audit
  trail. The file comes before the settings rows, and when the store refuses a row the
  handler answers 500 and returns without an audit row; the pin stays. `handlePinKey`
  does the same. `PinIsRecorded` (`backup_stop`) shows that, apart from that and from a
  refused audit row, only work the log reports as abandoned or that was dispatched after
  an expired drain goes unrecorded; a dropped connection never does it.
* `restore_dies`. The comment in `restore` and the recovery document say a restored copy
  starts with scheduled deposits off. The files are complete before the setting is
  written: a command that dies in between leaves a copy that deposits under the
  original's pairing. After a restore that ended, or that reported and was followed
  by hand, `QuietUntilEnabled` holds.

Two limits the models show without a run of their own. A puzzle solution is
spent once while it is valid (`SpentOnceWhileValid`), but `VerifyPoWSolution` and
`spend` read the clock separately: two overlapping requests that pass the first
comparison in the puzzle's last second and reach `spend` in the next both pass.
And a user deleted between `checkMembers` and the insert leaves a group with its
old members gone and only some of the new ones.

## Proofs

`SsoLogoutProofs` assumes what `SsoLogout` states as assumptions, chiefly that
the fence outlives the callback window (5 minutes against 10 in the code). Sets
of sign-ins, logouts, sids, subjects and accounts are arbitrary.

* `TypeCorrect`: `TypeOK`.
* `Invariance`: the inductive invariant `Inv`. `EndedStaysEnded` is not inductive:
  it does not say why a callback that has yet to check its fences will find one.
  `Inv` adds it. `ClockInv`: a running callback is inside its window.
  `ProviderInv`: a sign-in of a sid began before any logout of the sid was issued.
  `SidFenceInv` and `SubjectFenceInv`: once a logout has written its fence, the
  fence (or a later one over it) outlives the window of every sign-in the logout
  names, or that window is over; so an overwrite, a prune or an old copy of a
  token cannot uncover a sign-in. `AccountInv`: the account of a running callback
  stays linked to the subject of its token, so that the fence join finds it.
* `LogoutIsFinal`: `EndedStaysEnded`. `Refinement`: the step-by-step
  correspondence with `Revocation`. `LogoutIsPrecise`: `OnlyNamedSignInsEnd`.
  `RefusalIsJustified`: `JustifiedRefusal`, from a second invariant `OriginInv`
  (every fence in a table came from a logout with that data).

`AccountsProofs`, for every `UserIds`, `Logins`, `Requests` and `Operators`
(the first two not empty) and every `MaxHash`:

* `TypeCorrect`, and `Invariance` (`Spec => []Inv`). `LiveSessionsAreCurrent` is
  not inductive without `SessionInv` (a session row is inserted by a sign-in's
  last step, so the sign-in no longer changes the row it remembers). `TokenInv` (a
  request's token was handed out) and `FreshInv` (while the session is in the
  table, the row a request read is the row in the table) are what the second
  `GetSession` of `AuthenticateRequest` buys. `HashInv` (no handler holds a hash
  newer than the last one stored) makes a replaced hash different from every
  verified one. `BirthInv`: an account that was read exists or was deleted, and a
  role follows a token on linked accounts only. `OperatorInv`: what init-admin
  checked still holds when it resets.
* The steps are not analysed action by action for each of these. Five lemmas say
  what any step may do: `RowsGuarded` (a row changes only together with the
  deletion of its account's sessions), `SignInsSteady` and `LoginsRead` (what a
  sign-in remembers), `RequestsSteady` (what a request remembers) and
  `RowsWritten` (a row is born, follows the directory, or gets a new hash). The
  invariants follow from those.
* `SessionsCurrent`: `LiveSessionsAreCurrent`. `AdminGate`: `AdminOnly`, from
  `FreshInv` at the second read. `ResetHolds`: `ResetIsNotOvertaken`.
  `NoSilentAdmin`: `NeverSilentlyAdmin`, from `OperatorInv`. `Refinement`: every
  step grants one session, revokes exactly the sessions of one account (`Revokes`)
  or keeps every hash and every account (`KeysKept`).

`BackupWorkProofs`, for every finite set of requests:

* `TypeCorrect`: `TypeOK`, the counter's cardinality included.
* `Invariance`: the inductive invariant `Inv`. `StoreOutlivesWork` alone does not say
  what a stage of the stop leaves to the next. `StageInv`: the wait's goroutine is
  started with the cancellation, and each stage is left with its work finished or
  abandoned after the deadline. `WaitInv`: when `WaitDetached` has returned, only
  requests dispatched since are counted, and only an expired drain leaves any.
  `KindInv`: the statements of a pin, a pairing or a deposit run in tracked handlers,
  hence detached. `KeyInv`: key file, key row, pairing, in that order. `PinInv` and
  `DepositInv`: whoever has created the key file or delivered a capsule is on its
  way to the rows that record it, has written them, was refused one of them or is
  excused. A statement on the way is detached, so it fails because the open store
  refused it or because the store is closed, and `StoreOutlivesWork` makes the latter
  an excuse (`FailureExplained`). What was refused stays known until the same actor's
  next run, which a handler that pins never starts (`RefusedStays`, `PinKnownStays`).
* `StoreWaits`: `StoreOutlivesWork`. `NoSleepOver`: `NoLostWakeup`. `PinsRecorded`:
  `PinIsRecorded`. `DepositsRecorded`: `DepositIsRecorded`. `PairingKeyed`:
  `PairingHasKey`.

`StartupProofs`, for every number of versions, any set of them that cannot be
repeated, every set of servers, commands, rows and names, and any number of crashes:

* `TypeCorrect`: `TypeOK`; that nobody works on a version past the last is part of it
  and needs the loop's invariant.
* `Invariance`: the inductive invariant `Inv`. `Prefix`: `schema_migrations` holds the
  versions that took effect, and these are the first ones in order. `LoopInv`: a
  process has everything before its version on record, and has left the loop only
  past the last one. `CommitInv`: whoever is about to commit a version is the only
  one, and the version is not on record; with `LoopInv` and `Prefix` it is the next
  one (`CommitNext`), which is why a look-up outside the transaction does no harm.
  `QuietInv`: after a restore that ended well only an administrator leaves the
  schedule other than off.
* `IndexAllowed`: `IndexNeverRefused`, since an insert takes only names no row has
  (`InsertNoClash`) and a restore finds every process down. `UpgradeRefined`:
  `RefinesUpgrade`; a process opens only with the whole prefix on record (`LoopDone`).
  `QuietCopies`: `QuietUntilEnabled`.

`ProvisioningProofs`, for every set of accounts, names, subjects, SCIM requests and
sign-ins and every number of retries, with `KY_SCIM_ALLOW_ADMIN` and automatic
provisioning on or off. `ProvisioningAssumption` says that the markers (`NoUser`,
`NoSubject`, `Omitted`) are none of the values they stand beside.

* `TypeCorrect`: `TypeOK`, which includes that the mutex is held exactly between the
  reads and the write of an update or take-over.
* `Invariance`: the inductive invariant `Inv`. `OwnAccount` does not say why the row a
  sign-in found keeps its subject. `LoginInv`: the account found carries the subject or
  is gone for good. `WriterInv`: a request at work has an account that is not local,
  and the row it is about to write still has the name it read, because whoever renames
  holds the mutex. `LocalInv`: SCIM manages no local account.
* The lemmas say what any step may do to one row: `StepRows` (it is created, deleted,
  changed while it is SCIM's, or keeps its subject: `RowsEvolve`), `OneName` (at most
  one row gets a name, and nobody had it), `UpdateWrites` and `TakeOverWrites` (what a
  committed write leaves of the row).
* `SignInOwnAccount`: `OwnAccount`. `LocalAccountsUntouched`, `SubjectsStable`: from
  `StepRows`. `NamesNeverNewlyClash`: from `OneName`. `ScimNeverGrantsAdmin` and
  `NothingOmittedIsLost`: from the writes.

`ScimGroupsProofs`, for every set of users, groups, names and requests:

* `TypeCorrect`: `TypeOK`, with the mutex.
* `Invariance`: the inductive invariant `Inv`. `RowsInv`: a member row belongs to a
  user that exists (the foreign key). `AddOK`: who is about to be inserted is still to
  be checked, or was managed then and can only have been deleted since. `CreatorOK`: a
  POST has a group of its own. `WriterOK`: the name a request writes back is the stored
  one or one it was sent; before it compares lists, a stored member missing from its new
  list is one it asks to leave or came late; afterwards the difference it has yet to
  write leads from the stored rows to the list it will answer (`DifferenceOK`).
* `OnlyManagedAccountsJoin`: `OnlyManagedJoin`. `RemovalsAskedOrLate`:
  `OnlyAskedOrLateRemovals`. `AnswersAreStored`: `AnswerIsStored`, which is
  `DifferenceOK` with nothing left to write. `RenamesSurvive`: `RenameSurvives`.

`ClientAddressProofs`, for every set of clients and proxies that have no block in common,
any of them IPv6, and a header entry that is no address (`GarbageAssumption`):
`CountedToOwnKey` says that `KeysFor(c)` holds nothing but `OwnKey(c)`. `FirstHop` and
`SecondHop` give the header lines after one and two proxies, `PartsAfterOne` and
`PartsAfterTwo` what splitting them yields, `ProxiesTrusted` and `ClientsNotTrusted`
which addresses a list that starts a server trusts, and `WalkEndsAt` where the walk
from the right ends. Longer chains would need an induction over the header.

`LoginGateProofs`, for every finite set of handlers, puzzles and clients, every limit,
window and cap:

* `TypeCorrect`: `TypeOK`.
* `Invariance`: the inductive invariant `Inv`. `GuessesBounded` is not inductive: it
  forgets the requests that have passed the check and are hashing. `GuessInv` adds them
  to what a live window has counted; each moves from one side of the sum to the other
  when it fails. `SpentInv`: a puzzle accepted while valid is in the spent set with its
  own expiry for as long as it is valid, so a prune keeps it. `SenderInv`: a request in
  flight is counted to its sender and comes from no other site's page, by
  `CountedToOwnKey` and by `NoForeignPage`, which goes through every kind of page and
  accepted deployment. `TypeInv` adds that the clock has started and the map is finite.
* `RoomMade`, `BumpEffect` and `BumpFacts` say what one call of `allowAttempt` does to
  the map: its own window is bumped, another is untouched or dropped, and the cap holds.
* `TablesStayBounded`: `TablesBounded`. `GuessesStayBounded`: `GuessesBounded`.
  `PuzzlesSpentOnce`: `SpentOnceWhileValid`. `SignInsCountedToSender`:
  `CountedToSender`. `ForeignRequestsRefused`: `NoForeignRequest`.

TLC confirms each inductive invariant on the instances of the runs as well.

Only model-checked: liveness under fairness (`MutexReleased`, `ShutdownEnds`,
`ServersServe`), which this prover does not reach; and the four violated properties,
which are about single behaviours.

## Not modelled

The parts of backup that write nothing but an audit row (export, drill) and the
`deposit` command, another process with its own store whose runs only the external
recovery client could order. Combining shares and unsealing a capsule, which
recoveryclient does before the files appear. Listing, filters, settings, audit and the
rest of the configuration are single statements or pure parsing; security headers other
than the CORS ones are constants. OIDC discovery, key-strength checks, SAML and the
generic OIDC provider, sealing, the capsule format and the recovery client are
third-party or outside `src/`. The web interface is browser code. Store methods
no handler calls (`UpdateUser`, `UpdateUserProfile`, `DeleteUserSessions`,
`CleanExpiredSessions`, `GetUserByEmail`, `GetUserGroups`) are left out.

## Plan

1. Done: `Revocation`, `SsoLogout`, `Accounts`, `LoginGate` with `ClientAddress` and
   `RequestGate`, `Provisioning`, `ScimGroups`, `BackupWork`, `SchemaUpgrade` and
   `Startup`, with the proofs of every safety property the runs check and of the three
   refinements.
2. Left: the safety half of the liveness properties as theorems (that whoever holds the
   mutex of `Provisioning` has used up a try with every failed write, and that no stage
   of the stop waits for something only a later stage does).
