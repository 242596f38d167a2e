# Verification of accounts-api

accounts-api keeps DIMO user accounts: an account has at most one e-mail address and at
most one Ethereum wallet, a referral code, perhaps a referrer, a country and a time at which
it accepted the terms. A Go service (fiber for HTTP, gRPC for other services) serves any
number of concurrent requests from one or two replicas; all state is in one PostgreSQL
database. This directory holds TLA+ modules that model it, TLC runs on small instances, and
TLAPS proofs. Paths below are relative to the repository.

## The system

| Part | State | Operations | Talks to |
|---|---|---|---|
| Schema and statements: `migrations/`, `models/` | tables `accounts`, `emails`, `wallets`; constraints: primary keys, unique `referral_code`, `emails.account_id`, `wallets.account_id`, cascading foreign keys, `referred_by` implies `referred_at` | `Insert`, `Update`, `Delete`, queries with eager loading | PostgreSQL |
| Account handlers: `controller.go`, `crud_handlers.go` | none of their own; locals of a request | `CreateAccount`, `GetUserAccount`, `UpdateUser`, `DeleteUser`, `AcceptTOS` | tables; Customer.io |
| Email handlers: `email_handlers.go` | locals | `LinkEmail` (unconfirmed), `LinkEmailToken` (confirmed, replaces the unconfirmed row) | tables; Customer.io |
| Wallet handler: `wallet_handlers.go` | locals | `LinkWalletToken` | tables; Customer.io |
| Referrals: `referral_handlers.go` | locals | `SubmitReferralCode`, `GenerateReferralCode` | tables |
| Customer.io client: `services/cio` | a queue in memory, per process | `SetEmail`, `SetWallet` | Customer.io |
| Connection pools of the Writer and the Reader handle | open connections, per process | `BeginTx`, queries | PostgreSQL |
| Claims: `getUserAccountClaims`, `emailPattern` | none | token to credential | JWT middleware |
| gRPC: `internal/rpc` | none | `ListAccounts`, `GetAccount`, `TempReferral` (reads) | tables (Reader handle) |
| Start of a pod: `migrate`, `main`, `healthCheck` | `accounts_api.migrations`, the schema, the ports that are open | migrations, listening | goose, PostgreSQL, Kubernetes |
| Email service, routes, error handler, settings, charts, generated code | settings | routes, error handler | everything |

Handlers never talk to each other. They meet in the tables, and that is where the hard
behaviour is:

- Three handlers (`CreateAccount`, `LinkEmail`, `LinkEmailToken`) run a serializable
  transaction, three (`DeleteUser`, `LinkWalletToken`, `SubmitReferralCode`) run at read
  committed, and three use no transaction at all. The statements of all of them interleave.
- A handler reads (the link, then the account, then the other link: three queries), decides,
  and writes later. At read committed the rows may have changed in between.
- A handler may return, lose its connection or die with its process between any two
  statements; a commit may succeed without anyone being told.
- Statements wait for each other's row, unique index and foreign key locks; requests also wait
  for connections of two bounded pools, and keep one while they wait for another.
- The reading calls are up to five queries, each in a snapshot of its own.
- Messages to Customer.io are reordered, delayed or lost with their process.
- `updated_at` comes from the clock of a process, not from the order of commits.
- Two pods migrate the schema at the same time and may die in the middle.

What makes each part correct:

- *Schema*: whatever clients do, the constraints hold over the committed rows.
- *Handlers*: an account can always be reached; a mailbox or wallet belongs to one account; a
  link that was made stays while the account lives; a success answer is not undone; nobody's
  update is overwritten by a stale one; every request is answered; no transaction outlives its
  request.
- *Referrals*: both parties have wallets, nobody refers itself; the code also says that
  referrals are not circular and that an account enters one code only.
- *Customer.io*: it is not told of an e-mail that is not linked, nor of a wallet that is another
  account's; every wallet, and every e-mail linked to an account with a wallet, is told unless
  something loses the message; it ends up with the account's e-mail.
- *Reads*: no link is reported for the wrong account; who has the identifier all along is found;
  a reply is not older than its call.
- *Pools*: connections come back; nobody waits in a circle.
- *Start*: nobody serves on an older schema; a pod that dies in a migration comes up.
- *All of it*: each request takes effect at most once, at one moment, on the account its token
  denotes; its answer is justified by what the accounts were at some moment of the request.

## Modules

### `Store.tla`: the tables and their sessions

The committed tables (`accounts`, `emails`, `wallets`: functions from keys to rows, `None` for
no row) and, per database session, the rows it has written and not committed
(`accountWrites`, ...; `Kept` for a row it has not written), its isolation level, and the keys
a serializable session has missed since its snapshot. One action per statement of the
generated `models` package that the handlers use, each split into who it waits for
(`...Blocked`, `...Busy`), when it is refused (`...Refused`) and what it writes, and `Begin`,
`Commit`, `Rollback`. `DeleteAccount` carries the cascades: the account's e-mail and
wallet go, and accounts it referred keep `referred_at` and lose `referred_by`.
`UpdateAccountNow` is the UPDATE outside a transaction of `UpdateUser` and `AcceptTOS`.

PostgreSQL is not in this repository. What the model says of it is marked external in
`PROJECT.json`: uncommitted writes are visible to their session only; a statement waits while
another session has written the row, the unique key or the referenced row; a serializable
session is refused a row committed after its snapshot. A statement takes all its locks in one
step. Two sessions that wait for each other are broken up by `StatementFails` (PostgreSQL's
deadlock victim), as is any serialization failure that comes from PostgreSQL's predicate locks.

`StoreNext` lets any session run any statement, so what holds of it holds of the handlers.

### `Accounts.tla`: the nine handlers

A *session* here is one request slot: the goroutine and its database session. `ask` is the
request it serves: handler, credential of the token, argument of the body. `pc` names the
statement it runs next, `local` holds the Go variables it carries from one statement to the
next, `answer` what its client got, `identified` the messages given to Customer.io.
`scenario` is no state of the service: clients of one behaviour send the requests of one set of
`Scenarios`, so that one run covers several sets whose union would be too large.

| Code | Actions |
|---|---|
| `getUserAccount` (controller.go:120-152) | `FindLink`, `LinkNotFound`, `LoadAccount`, `LoadNothing`, `LoadPeer` |
| `CreateAccount`, `createUser` | `BeginCreate`, `DrawCode`, `InsertNewAccount`, `InsertFirstWallet` / `InsertFirstEmail`, `Tell`, `CommitRequest`, then `getUserAccount` again and `AnswerLoaded` |
| `GetUserAccount` | `getUserAccount`, `AnswerLoaded` |
| `UpdateUser`, `AcceptTOS` | `getUserAccount`, `UpdateUser` / `AcceptTOS` |
| `DeleteUser` | `getUserAccount`, `DeleteUser`, `CommitRequest` |
| `LinkEmail` | `LinkEmail`, `InsertLinkedEmail`, `Touch`, `CommitRequest`, `Tell` |
| `LinkEmailToken` | `LinkEmailToken`, `DeleteUnconfirmed`, `InsertLinkedEmail`, `Touch`, `CommitRequest`, `Tell` |
| `LinkWalletToken` | `getUserAccount`, `LinkWalletToken`, `Touch`, `CommitRequest`, `Tell` |
| `SubmitReferralCode` | `getUserAccount`, `FindReferrer`, `CheckReferrer`, `Refer`, `CommitRequest` |
| any `return` | `Reply`: the deferred `tx.Rollback()`, then the answer |
| environment | `Arrive`, `StatementFails`, `CommitUnanswered`, `ReplicaDies` |

In a serializable transaction all reads come from one snapshot and are one action; at read
committed each query is an action of its own. `Die` is what a nil account does to the
handlers that dereference it: no `recover` middleware is installed, so the process ends with
all the requests it serves.

Abstractions: a time is "is not null"; a token is its claims; e-mail spelling is the function
`Normalize` (lower case, trimmed); a response body is left out; `DrawCode` is the whole draw
loop of `GenerateReferralCode`.

### `HandlersInvariants.tla`: why the handlers keep it

Three inductive invariants of `Accounts`, for TLC and for the proofs. `HandlersInvariant` is about what
each open transaction has written so far (`SessionKeeps`), `AnswersInvariant` about what a handler
has read, prepared or answered (`SessionRemembers`), `EffectsInvariant` about what its commit will
change (`SessionPrepares`).

### `Entries.tla`, `Directory.tla`: what clients are promised

`Entries` is the accounts without tables: one record per account, and the effect of each
request on it in one step (`Create`, `AddEmail`, `SetReferrer`, ..., joined in `Effect`). It is
used three times: `Directory` adds requests and answers, `Reads` looks at the entries while
effects change them, `CustomerIO` tells of them.

`Directory` lets a request arrive (`Receive`), find the account its token denotes (`Find`), take
effect at most once (`Perform`, or `NothingToDo` when the account already is what is asked for)
and be answered: a success only after the effect, a refusal only for a reason
(`MayRefuse`), a failure always, since the client of a failed request knows nothing.

The abstraction is as strong as the code allows. A referral overwrites an earlier one
(finding `referred_twice`), `UpdateUser`, `AcceptTOS`, `DeleteUser` and `SubmitReferralCode` may
succeed on an account that is gone (`Forgiving`: their statement matches no row), and a
created account may be answered 404.

### `AccountsImplement.tla`: the handlers implement it

The refinement mapping. An entry is the committed rows of one account; `PhaseOf` reads the
phase of a request off the statement its handler is at. A request takes effect at its commit,
at its UPDATE outside a transaction, or, with nothing to do, at the query that shows it so.
`KeepsThePromise` is `Directory`'s specification of the mapped state.

### `Reads.tla`: the reading calls

`ListAccounts`, `GetAccount`, `TempReferral` and `GetUserAccount`, one action per query: the
first one with its joins, filter, order and limit, then the eager loads of the generated
models (`LoadEmails`, `LoadWallets`, or `LoadAccount`, `LoadPeer`, `LoadReferrer`,
`LoadReferrerWallet`). `Rejected` is the validation of arguments and claims. Between two queries
any effect of `Entries` may happen (`Change`). There is one caller, because calls write nothing.
`created_at` is the place in `order`; it is read from a clock before the commit, so a new account
may appear anywhere in it. `rows`, what the queries have returned so far, is a set with at most one
record per account: the order in which `ListAccounts` lists its rows is left out, which rows it
lists is not (`NewestOf`). The last section of the module, from `BeforeLasts` on, is the inductive
invariant `ReadsInvariant`.

### `ConnectionPool.tla`: the two pools

Who keeps a connection of which pool while it waits for what. `CreateAccount` keeps a Writer
connection and draws its code with queries on the Reader (`Draw`, `CodeTaken`, `CodeUnused`: the
loop of `GenerateReferralCode`); `UpdateUser` and `AcceptTOS` run their UPDATE on the Reader, and
wait there for rows that Writer transactions have locked (`Updated`). Each request contends for
one lock; lock order among several rows is in `Accounts`. `WaitsFor` is the wait-for graph.

### `CustomerIO.tla`: what Customer.io learns

A commit puts a call of `SetEmail` or `SetWallet` into `telling`, `Enqueue` moves its message into
the process's client (`moving`) or fails, `Deliver` takes any of them, in any order, `GiveUp` and
`ReplicaDies` lose them. `CreateAccount` tells before its commit (`TellFirst`), under an id that it has
just made and that is used up if it rolls back; `Commits` lets an account be created only by the
attempt that has told of it, after its call. With
`DISABLE_CUSTOMER_IO_EVENTS` (`Disabled`) `noOpCIO` swallows everything. `freed` remembers wallets
whose account was deleted. `Link` takes effect on the account that the token denotes *at the
commit*, although the handler found it earlier; that this loses nothing is the theorem
`FoundIsStillDenoted` below. `MessagesInvariant` is the inductive invariant.

### `Timestamps.tla`: `created_at` and `updated_at`

One account, the clocks of the processes (at most `MaxSkew` apart), and each handler as its first
read, its reading of the clock (`Stamp`: in `Insert` and `Update`, before the statement waits for
its lock), its statement and its commit. `missed` is what makes PostgreSQL refuse a serializable
UPDATE. `Unrefer` is the cascade of the referrer's deletion.
`ClocksInvariant` is the inductive invariant.

### `Rollout.tla`: the start of pods

Each pod runs `migrate` in its init container, then opens its monitoring, gRPC and HTTP ports.
`Init` is the database as any earlier release left it, or none. goose (external) keeps a row per
applied migration, takes the newest as the version, and commits a migration with its row.
`Applies` says when a file's statements do not fail: 1, 3 and 4 fail when run again, 2 does not.
`Crash` is a death at any point. `RolloutInvariant` is the
inductive invariant.

### `MCStore.tla`, `MCAccounts.tla`, `MCReads.tla`, `MCConnectionPool.tla`, `MCCustomerIO.tla`, `MCTimestamps.tla`, `MCRollout.tla`

Instances for TLC: request and call sets, the spelling function, the replicas, the symmetry sets
and, for `MCStore`, `BoundedSpec`, which takes only the steps that stay inside the bound.

`MCAccounts` has one record of request sets per run (`LinksScenarios`, `PromiseScenarios`, ...), the
`Scenarios` of `Accounts`. `MCReads` has scenarios as well: `ScenarioSpec` picks one at the start,
lets only its calls arrive and leaves out the accounts that these do not look at (`Outside`).

### `AccountsProofs.tla`, `PromiseProofs.tla`, `DirectoryProofs.tla`, `ReadsProofs.tla`, `CustomerIOProofs.tla`, `ConnectionPoolProofs.tla`, `TimestampsProofs.tla`, `RolloutProofs.tla`

The proofs; see below. `AccountsProofs` has four parts: the tables, the types of the handlers, what
they write, what they remember. `PromiseProofs` has two: what a commit changes, and the refinement.

Definitions marked `FAULT` in a comment are mutated forms of the definition that follows
(a dropped error check, a forgotten rollback, a stale row written back). No specification
uses them; they show that each property can fail.

## Runs

| Run | Module, config | Asks | Result |
|---|---|---|---|
| store | `MCStore`, `MCStore.cfg` | Do the schema's constraints hold for any client? Is `StoreInvariant` an invariant? | holds, about 124,000 states |
| links | `MCAccounts`, `Links.cfg` | Types; accounts stay reachable; one account per mailbox in two spellings; no leaked transaction; links stay; answers hold; Customer.io is told of linked e-mails only; `HandlersInvariant`. Scenarios `emails` and `wallets` | holds, about 499,000 states |
| answered | `MCAccounts`, `Answered.cfg` | Every request is answered | holds, about 180,000 states |
| promise | `MCAccounts`, `Promise.cfg` | Do the handlers implement `Directory`? Do parties of a referral have wallets, and is nothing withdrawn? `AnswersInvariant`, `EffectsInvariant`. Scenarios `links`, `owner`, `referrals` | holds, about 352,000 states |
| reads | `MCReads`, `Reads.cfg` | Over up to five snapshots: are reported links real, is the right account returned, is who is there found, does a list hold the newest matches? Is `Entries` consistent? Scenarios `list`, `get`, `referral`. `ReadsInvariant` | holds, about 522,000 states |
| pools | `MCConnectionPool`, `Pools.cfg` | Three requests, a Writer pool of two, a Reader pool of one: connections come back, no circular wait, every request ends | holds, about 6,400 states |
| told | `MCCustomerIO`, `Told.cfg` | Customer.io has the account's e-mail, in whatever order messages arrive; no message speaks of what its account does not have; once committed, a wallet is told, and an e-mail linked to an account with a wallet, or lost for a reason. `MessagesInvariant` | holds, about 28,000 states |
| clocks | `MCTimestamps`, `Clocks.cfg` | `updated_at` is fresh; links do not put it back. `ClocksInvariant` | holds, about 1,140,000 states |
| rollout | `MCRollout`, `Rollout.cfg` | Two pods migrate and die: no service on an older schema, no new e-mail confirmed, every pod comes up. `RolloutInvariant` | holds, about 32,000 states |
| referral_cycle | `MCAccounts`, `ReferralCycle.cfg` | "No circular referrals.", of three | **violated** |
| referred_twice | `MCAccounts`, `ReferredTwice.cfg` | "Already entered a referral code." | **violated** |
| deleted_meanwhile | `MCAccounts`, `DeletedMeanwhile.cfg` | `getUserAccount` returns an account or an error | **violated** |

The three violations are disagreements between what the code says and what it does; each is a
finding in `PROJECT.json` with the line it quotes.

*Bounds.* `Accounts`: two sessions. Every lock conflict and every stale read is between two
requests, and a third request can run before and after either of them in a free slot, because a
session serves any number of requests. Two account ids (three for cycles and for two referrers):
enough for one account that owns what another wants, for deleting and creating again
(ids never recur: `issued`), and for a referrer. `IdsLeft` lets a create start only while
there is an id left for it. Two codes for two accounts means that the draw is sometimes
forced, and that two creators can draw the same code. Each run sends the requests that can
meet over the rows it is about; a request that touches none of these rows only takes up a slot.
The three scenarios of `promise` between them send every handler; `owner` has one wallet that is
deleted and created again, because the promise is about the account that was found first.

`Store`: two sessions at read committed (a serializable session only has more statements
refused), two rows written per transaction, and one value of the columns that no constraint
mentions. The proofs remove these bounds.

`Reads`: three ids, codes and up to three accounts for the lists, with a limit of two (100 in the
code) so that matches are cut off; at most two accounts at a time for the other calls, whose
replies speak of one account and its referrer. As many effects may happen between two queries as
there are ids and codes.
`ConnectionPool`: pools smaller than the number of requests, one lock: enough for a creator that
draws, an updater and a transaction to wait for each other's connections and lock; the proofs
remove the bounds.
`CustomerIO`: one wallet, two ids: an account that is deleted and created again, one beside an attempt
that rolled back, or one that has the wallet and one that has an e-mail it wants; two e-mails; three
messages on their way (`MaxMoving`): two of one account that are reordered and one of another; one process, because a message carries its process
only to be lost with it. `Timestamps`: two sessions in two processes one tick apart (`MaxSkew`),
clocks up to 3 (`MaxTime`), one handler of each kind. `Rollout`: two pods (a third waits as the
second does) and two deaths.

*Deadlock.* TLC checks deadlock in every run of `MCAccounts`, `MCReads`,
`MCConnectionPool` and `MCTimestamps`: the service always accepts or finishes something. `MCStore`
switches it off because its bound ends behaviours, `MCCustomerIO` because its finite ids run out
with nothing left to tell, and `MCRollout` because a rollout that is complete has nothing to do.

*Fairness.* `FairSpec` assumes strong fairness of each session's own steps. A goroutine is
scheduled and its query gets a reply (weak fairness); a lock is granted in the order of
arrival, so a statement whose lock becomes free again and again is not passed over for ever
(strong fairness). Failures, deaths and arrivals are not fair: nothing has to go wrong. That
`GenerateReferralCode` comes upon an unused code is part of the assumption; in `ConnectionPool`,
where the loop is spelled out, it is a fairness condition of its own (`CodeUnused`: of 36^6
codes few are used). There too fairness is strong, for the queues of pools and locks are served
in turn. `CustomerIO` and `Rollout` need weak fairness only: a goroutine that has committed makes its
call (or its process dies, and the message is lost), the client's sender delivers or gives up; a container runs and is restarted.

`EveryReplicaServes` is promised of rollouts without an `Overlap`: two pods between reading the
version and committing a migration. After one, a pod may record migration 2 again after the other has recorded 4: the newest
row is 2, goose starts again at 3, and 4 fails for ever because `emails.confirmed_at` exists. No
pod comes up without a hand on the database. `ServesOnItsSchema` holds even then.

## Proofs

*The tables.* `AccountsProofs.tla` proves in its first part, for any set of sessions, accounts,
addresses, wallets and codes, from the one assumption `NullsAreNotValues` (NULL and "not written" are not rows):

- `StoreTypeOK`: `StoreSpec => []TypeOK`;
- `StoreInvariantHolds`: `StoreSpec => []StoreInvariant`;
- `StoreIsConsistent`: `StoreSpec => []TablesConsistent`.

`TablesConsistent` is not inductive: a commit writes rows that were checked when they were
written, and other sessions have committed since. `StoreInvariant` adds what makes it so:
what *every* session sees (committed rows under its own writes) is consistent
(`SessionsConsistent`), and two open sessions never hold rows that one constraint relates
(`SessionsApart`: not the same row, not the same unique key, not a row and the row it
references). The proof has one lemma per statement (`InsertEmailKeeps`, `DeleteAccountKeeps`,
...), all of which rest on `StatementStep`: a statement of one session needs to be checked only
against that session's view and against the other sessions' writes. `CommitKeeps` is the
case where the two halves meet: another session's view after a commit is its own writes over
the committing session's view, and the constraints between the two are what
`SessionsApart` excludes.

*The handlers.* Its second part proves, for any requests, sessions and replicas, and from the assumption
`AccountsAssumption` besides (a wallet is not an address, a request's credential and argument
are what its handler parses, normalising twice is normalising once):

- `AccountsTyped`: `Spec => []AccountsTypeOK`;
- `ServiceImplementsStore`: `Spec => StoreSpec`;
- `ServiceIsConsistent`: `Spec => []TablesConsistent`, from the two above and `StoreIsConsistent`.

That the types hold is not inductive by itself: `InsertLinkedEmail` writes a typed row only
when the handler holds an account and its request an address. `ReadyAt` says, for each
statement, what the statements before it must have found, and `HandlersReady` that every
session is ready for its next one. There is one lemma per handler (`CreatePreserves`,
`LinkPreserves`, ...), each built from three ways in which a step ends: the handler keeps
what it read (`KeepPreserves`), goes on (`ContinuePreserves`) or answers (`ReplyPreserves`). They
prove two things at once, because each needs the other: the handler is ready again, and the step
was a statement of `Store`.

The third part proves, from the same two assumptions:

- `HandlersInvariantHolds`: `Spec => []HandlersInvariant`;
- `NothingLeaks`, `MailboxesHaveOneAccount`, `AccountsStayReachable`: `NoLeakedTransactions`,
  `OneAccountPerMailbox` and `EveryAccountReachable` always hold;
- `LinksAreSticky`, `UpdatesAreNotWithdrawn`: `LinksSticky` and `NothingWithdrawn` hold of every step.

What a commit does to an account depends on every statement since the transaction began, so
`HandlersInvariant` says for each session what its uncommitted writes may be: an e-mail or wallet is
overwritten only when its account is deleted, or when the same address is inserted again for it,
confirmed (`KeepsEmails`, `KeepsWallets`); a new account has a link, or its handler is about to
insert one (`LinksNewAccounts`); a written row extends the committed one (`ExtendsRows`), which
needs that nobody else commits that row meanwhile: the locks, as `SessionsApart`. Between the
DELETE and the INSERT of `LinkEmailToken` the invariant rests on the handler's position
(`ReplacesEmail`), and before the DELETE on the row it read being the committed one unless the
DELETE will fail (`ReadyToReplace`, with `missed`). There is one lemma per way of changing the store
(`InsertEmailStep`, `CommitStep`, ...) and one per handler that says which of these ways its
actions are.

The fourth part proves on top of these:

- `AnswersInvariantHolds`: `Spec => []AnswersInvariant`;
- `AnswersAreKept`, `ToldEmailsAreLinked`, `ReferrersOwnWallets`: `AnswersHold`, `ToldEmailIsLinked`
  and `ReferralPartiesHaveWallets` always hold.

A handler goes by queries of several snapshots. What each of them returned stays true while the
account lives, because links are sticky and updates are not withdrawn, and an account that is gone
does not come back, because ids do not recur (`IdsAreFresh`): `AccountsAreKept` says this of one step,
and `RestRemembers` concludes that a session which does not move still remembers correctly. What
remains is the session that moves (`Goes`, one lemma per handler), and that referrals, also the
uncommitted ones, are between two owners of wallets (`OwnersRefer`): nobody deletes a row that an open
transaction refers to.

*The promise.* `PromiseProofs.tla` proves first `EffectsInvariantHolds`: `Spec => []EffectsInvariant`. A transaction writes row by
row, and its effect depends on rows that it has only read. `SessionPrepares` says, per handler and
statement, that it has written what the effect takes and nothing else (`Creates`,
`LinksEmail`, `Removes`, ...) and that the rows it has not written are still what the effect needs: the address is free, the
referrer is there. `LocksHold` derives the latter from the locks: another session's commit changes
no row that this one has written (`WrittenRowsStay`) and adds none that refers to a row it deletes
(`NoNewReferences`).

It then proves, from `NullIsNoEntry` besides (NULL is not an entry), that the handlers
implement the Directory: `HandlersKeepThePromise`: `Spec => KeepsThePromise`. Every step of `Accounts` is a step
of `Directory` or none (`StepKeepsPromise`), by one lemma per handler (`LinkBeginKeepsPromise`, ...). Most
steps leave the tables alone: they are a `Find`, an `Answer` whose refusal has its reason in the
committed rows (`Replies`), or no step (`Stutters`). The effects are the UPDATEs outside a
transaction (`SaveKeepsPromise`) and the commits (`CreateCommits`, `LinkEmailCommits`, ...): what
`EffectsInvariant` says of the rows is what the Directory does to the entry.

`OnlyEffectsAreSeen`: `Spec => ChangesByEffects` draws from it what `Reads` and `CustomerIO` take for
granted: every change of the mapped entries, by whatever statements of whatever handlers, is one
whole `Effect` of one request on one account. So what is proved of the entries under effects is
about the tables under handlers.

*The Directory.* `DirectoryProofs.tla` proves from `EntriesAssumption` (wallets are not addresses, normalising gives
an address, requests carry what their handler parses) that the promise is worth having:
`DirectoryIsConsistent`: `DirSpec => []EntriesConsistent`. `EntriesConsistent` is inductive once the
target of a request is known to be an account (`SessionsReady`); there is one lemma per effect, and
the cascade of `RemoveEntry` and the uniqueness that `Create`, `AddEmail` and `AddWallet` check are
where it could fail. It also proves `FoundIsStillDenoted`: `DirSpec => []TargetsHold`: the account
a request has found is, at every later moment until its effect, either gone for good or still the
one its token denotes. `CustomerIO` has this as the guard of `Link`. The guard is a correction that
the proof of `EmailIsCurrent` asked for: without it the model let an e-mail be linked to one account
while its message named the wallet of another. The run could not meet this: with its one wallet, whoever
has no confirmed e-mail has that wallet.

*The reads.* `ReadsProofs.tla` proves, for any calls, accounts and limit, from `EntriesAssumption` and
`ReadsAssumption` (a call has the fields of its method, with values of their kinds or values that do
not parse, and the limit is at least one):

- `ReadsKeepWhatTheyRead`: `Spec => []ReadsInvariant`;
- `ReadsTyped`, `AccountsConsistentWhileRead`, `NoLinkOfAnother`, `AnswersTheQuestion`,
  `NobodyIsOverlooked`, `NothingIsStale`, `OnlyTheOldestAreCut`, `ReferrerShownWhileThere`: `TypeOK`,
  `EntriesConsistent`, `ReportedLinksAreReal`, `ReturnsWhatWasAsked`, `FoundIfThere`,
  `ReplyCoversStart`, `ListIsNewest`, `ReferrerHiddenOnlyIfGone` always hold.

The last six speak of the reply, which is put together from up to five snapshots, and none of them is
inductive. The invariant says of every point between two queries what the queries so far have
established (`RowReal`, `LinksLoaded`, `AskedFor`) in words that an effect cannot falsify, because a
live account keeps its links and code, ids do not recur, and a referrer has a wallet while it lives.
These facts about one effect are the lemma `EffectLasts` of `DirectoryProofs`, proved from
`EntriesConsistent`. The rest is one lemma per query. `OnlyOldestMissing` needs besides that the
order of the accounts that were there is kept when another is inserted into it
(`InsertKeepsOrder`).

*Customer.io.* `CustomerIOProofs.tla` proves from `EntriesAssumption` and `CustomerIOAssumption`:

- `MessagesAreKept`: `Spec => []MessagesInvariant`;
- `NothingFalseIsTold`, `ProfilesAreCurrent`: `MessagesAreTrue` and `EmailIsCurrent` always hold.

A message outlives the step that made it and may arrive at any time, so the invariant says of every
message that its account has all of what it names, or is gone and has left its wallet in
`freed` (`Accounted`). The messages of `CreateAccount` are there before their account: until then they name no
e-mail and an id not in use. They come true by the commit of their own attempt, since no other has their id
(`AttemptsLast`), and all others last because live accounts keep their links (`MessagesLast`).

*The clocks.* `TimestampsProofs.tla` proves, for any handlers, sessions, processes and clock bounds,
from `TimestampsAssumption`:

- `ClocksFit`: `Spec => []ClocksInvariant`;
- `StampsStayFresh`, `LinksStampForward`: `StampsAreFresh` and `LinksMoveForward` hold of every step.

The second rests on `RowInPast`: the row's time was on some clock, and a serializable snapshot that
has missed nothing was taken after that, so that its own clock, read later still, is behind by no
more than the skew.

*The rollout.* `RolloutProofs.tla` proves, for any number of pods, deaths and e-mails, from
`RolloutAssumption`:

- `RolloutIsSafe`: `Spec => []RolloutInvariant`;
- `ServesOnlyOnItsSchema`, `NewEmailsStayUnconfirmed`: `ServesOnItsSchema` always holds,
  `OnlyOldEmailsGrandfathered` of every step.

That the newest row of goose's log is below what has been applied is normal when pods overlap, so the
invariant goes one way only: what the version says was made, was made (`SchemaFollowsLog`), and so was
what precedes the migration a pod is at. Nothing undoes it except that migration 4 takes away the table
of migration 3, which is why `Reached` leaves 3 out.

*The pools.* `ConnectionPoolProofs.tla` proves, for any number of requests, locks and connections:

- `ConnectionsComeBack`: `Spec => []PoolInvariant`;
- `WaitingIsNeverCircular`: `Spec => []NoCircularWait`. From the invariant, waiting goes downwards:
  those who wait for a lock wait for a transaction that is about to commit, those who wait for the
  Reader wait for queries and updates, those who wait for the Writer for a transaction. A
  creator holds no lock while it draws, so nothing it waits for waits for it. The runs show that
  this breaks when the handlers share one pool or when a query runs before the commit.

What is only model-checked is liveness: `EveryRequestAnswered`, `EveryRequestEnds`, `ToldOrLost` and
`EveryReplicaServes` depend on fairness and on ENABLED, which is beyond the prover. Every other property of
a passing run is a theorem.

## Divergences noted and not checked by a run

Found while modelling; `referral_cycle`, `referred_twice` and `deleted_meanwhile` are the ones with a run.

- "No circular referrals." (referral_handlers.go:107) is checked before the referral is written, at
  read committed: two accounts that enter each other's code at the same time refer each other.
- Accepting the terms "can only be called after both email and wallet are linked" (main.go:142);
  `AcceptTOS` (crud_handlers.go:195-224) does not look at either.
- `TempReferral` answers "No account found with wallet %s." (rpc/accounts.go:142); when the account
  goes between the wallet and its eager load the handler dereferences nil (rpc/accounts.go:148),
  and the gRPC server has no recovery interceptor (main.go:159).
- The account id "is also the cio id" (controller.go:182); `cio` identifies by wallet
  (cio.go:34,42). A wallet whose account was deleted and that creates another one keeps the
  e-mail Customer.io knew before.
- Customer.io gets the e-mail of an account that links it when it has a wallet (email_handlers.go:98,197). An
  account created by e-mail (controller.go:203-215, no `SetEmail`) that links a wallet later
  (wallet_handlers.go:82, `SetWallet` alone) has both, and no handler ever tells its e-mail although nothing
  fails. `ToldOrLost` therefore speaks of e-mails linked to an account with a wallet.
- `CreateAccount` calls `SetWallet` before its commit (controller.go:200), the other handlers after theirs: a
  rollback leaves a Customer.io profile without an account. What holds is that a message of an
  account that exists names its own wallet (`MessagesAreTrue`).
- "UpdatedAt reflects the time of the most recent account changes." (models.go:62). The clock is
  read before the UPDATE waits for its lock (models/accounts.go:1553-1557), so a later commit may put it
  back; and the loss of a referrer, a cascade of the database, does not stamp it.
- "run migrations and complete" (main.go:63): `migrate` is the init container of every pod
  (deployment.yaml:39-44) and production runs more than one (values-prod.yaml:1); two at once may
  run a file twice (see `EveryReplicaServes` above).
- "Server is up and running" (main.go:215): the monitoring port that answers the health check opens
  before the gRPC and HTTP ports listen (main.go:89).
- `DeleteUser` is documented to fail with 409 while the user has devices
  (crud_handlers.go:152,156); it knows of no devices.
- `LinkEmail` is documented to answer 204 (email_handlers.go:23); it answers 200 with a body.
- `acceptedTosAt` is "the time at which the user last agreed" (models.go:57); it is the first
  (or, under concurrent requests, the later of several firsts).
- `CreateAccount` may answer 404 or 500 after it has committed.
- `LinkEmailToken` does not apply `emailPattern`, `LinkEmail` does; `getUserAccountClaims` applies it
  before normalising, so a token whose address has spaces around it is refused.
- `migrate up-to N` and `down-to N` hand goose the command and the number as one string
  (main.go:68), which is no command of goose; the `Down` parts of migrations 2 (`SET NULL`) and 4
  (no semicolon after `CREATE TABLE`) are not valid SQL.

## Not modelled

- The SMTP email service: no handler calls it. Settings: constants. The OpenAPI text.
- Serialisation of gRPC messages, JWT signature checks, JWK refresh, the regular expressions
  themselves (an address is in `WellFormed` or not), metrics.
- Methods of the generated models that nobody calls: `Upsert`, `UpdateAll`, `DeleteAll`, `Reload`,
  `Set...`, `Add...`, `Remove...`, hooks (none is registered). They are most of the lines of
  `models/` that no definition stands for.
- The format CHECKs of the tables: the handlers only write values that satisfy them (a code drawn
  from the alphabet, a country from the list, 20 bytes).
- The charts beyond the number of replicas, the init container and the probes.

## What could be added

1. A proof that `Reads` and `CustomerIO` run beside `Accounts` itself: their accounts change by
   effects (`ChangesByEffects`), and the mapped state of `Accounts` does (`OnlyEffectsAreSeen`), but no module
   joins the two state spaces.
2. The steps of the liveness arguments that need no fairness, such as a measure that
   each statement of a handler lowers.
