# sophon-auth in TLA+

Specifications of sophon-auth, the service that holds users, their tokens, the
miners and signers bound to them and their request rate limits.  The modules
are translated from `src/`; line numbers below are lines of the repository.

## The system

| Part | State | Operations | What makes it correct |
|---|---|---|---|
| Accounts (`auth/jwt.go`, `storage/badger.go`) | user records with a state and a deleted mark; miner records with their one user; signer records, one per signer and user | create, update, delete, recover a user; upsert, delete a miner; register, unregister, delete signers; look up users by miner or signer | bindings name users that exist; a deletion takes its own bindings along and no other; of racing deletions or creations one succeeds; every operation is one of the `Store` interface done at once |
| Tokens (`auth/jwt.go`, `auth/app.go`, `cli/run.go`) | token records with name, permission and deleted mark; the token gauge (memory); the token file of the repo | generate, remove, recover, verify; count, find or create the admin token at the start | a token is issued once, to a user that was created; the gauge shows the tokens there are; the server serves only with a live admin token on file |
| Rate limits (`storage/badger.go`, `cli/user.go`) | one map of limits per user, stored under one key | put, delete; the commands add, update, del | an operation on one limit leaves the others alone; no empty map is stored |
| Badger store (`storage/badger_helper.go`) | the key-value database; open transactions | update and read-only transactions, prefix walks | serializable-snapshot transactions (external library) |
| Migration (`storage/store.go`, `storage/store_migration.go` and both stores) | the store version; for MySQL the columns and indexes of `miners` | versions 1, 2 and 3 at the start | the version and the records agree after any crash; a start that is not cut off ends |
| MySQL store (`storage/mysql.go`) | the same records as rows, made unique by indexes | the same interface | the same interface |
| Permissions and routes (`auth/route.go`, `auth/app.go`, `auth/jwt.go`, `core`) | none; the permission and name of the caller travel in the context | routes, middleware, binding, `permCheck`, `userPermCheck`, `tokenPermCheck`, ownership checks | no caller does what its permission and its name do not allow; a method reaches the handler that does what it promises |
| Client library (`jwtclient`) | none; AuthMux has two verifiers | one call per method; local, then remote verification; `CheckPermissionBy*`, which call the server once per address | a request reaches the handler only with the permission of its token, and is served only for addresses its user owned |
| Command line, config, repo, logging | files | one request per command; files read at the start | - |

How they interact.  `net/http` runs each request in a goroutine of its own; the
permission middleware verifies the token of the request against the store, the
gin handler binds the request, `jwtOAuth` checks the permission and calls the
`Store`, and the answer is written.  No layer takes a lock.  All coordination is
in the database's transactions, and many operations use several: a read in one
and a write in another, or a transaction per element of a batch or a walk.

What is hard.  (1) Requests interleave between any two transactions of an
operation, and between the first read and the commit of one transaction, which
then fails with `ErrConflict` exactly when a key it read was committed in
between; a transaction that reads nothing never fails.  (2) `DeleteUser` mixes
all forms: one outer transaction, a list of miners and a walk over signers in
views of their own, and a transaction per signer that commits at once.
(3) Batches and walks stop in the middle, and the process can die.  (4) The
gauge lives in memory and is updated after the commit.  (5) Records are never
removed, only marked, and operations differ in whether they look at the key or
at the mark.  (6) The two stores keep the same promises by different means:
badger by conflicts at the commit, MySQL by snapshots, locks and unique indexes.
(7) The token of a request is verified before, and the owner of an address
checked before, the store is changed, in transactions of their own; a service
outside asks once per address, over calls that may be lost.  The hazards, each at its line, are listed in `PROJECT.json`.

## The modules

`Badger` is the store: `db`, a function from keys to records or `Nil`, and
`txn`, the open transactions.  There are no version numbers.  A transaction
keeps what its outcome still depends on: the keys it read, its pending writes,
the part of its snapshot it may read later (`snap`), and which of the keys it
watches were committed since it began (`dirty`).  A commit fails exactly when
`reads` meets `dirty`.  A transaction that reads nothing is one step (`Put`), a
read-only transaction that is used at once is none (`View`).

`Accounts` instantiates it with users, miners and signers.  `req[p]` is a
goroutine: a program counter named after the operation, and its locals.  One
action is one store transaction, or the begin or the commit of one that can
conflict; `out[p]` is the answer of the last step.

| Actions | Code |
|---|---|
| `CreateUser`, `UpdateUser`, `RecoverUser`, then `PutUser` | `HasUser`/`GetUser`/`getObj` in one transaction, `putBadgerObj` in another |
| `DeleteUser`, `DeleteUserMiners`, `DeleteUserSigners`, `DeleteUserWalk`, `DeleteUserUnregister`, `DeleteUserCommit` | `badgerStore.DeleteUser` with `ListMiners`, the walk and `softDelObj` inside it |
| `UpsertMiner`, `DelMiner` and their commits; `OwnerDelMiner` | `badgerStore.UpsertMiner`, `softDelObj`; the ownership check of a caller without the admin permission, a transaction of its own |
| `RegisterSigners`, `UnregisterSigners`, one transaction per signer | the loops of `jwtOAuth` over `badgerStore.RegisterSigner` and `innerUnregisterSigner` |
| `DelSignerBegin`, `DelSignerWalk`, `DelSignerDone`; `OwnerDelSigner` | `badgerStore.DelSigner`: a view that stays open, a put per live binding |
| `GetUserByMiner`, `GetUserBySigner` and their steps | the two lookups of more than one transaction |
| `Crash` | the process dies; commits stay |

A walk is left in any order: keys are walked by address, and addresses are
arbitrary.  The records keep what the operations tell apart: the state and the
deleted mark of a user, the user and the deleted mark of a miner, the deleted
mark of a signer binding.  Ids, comments, times and `OpenMining` are not kept.

`Registry` is what `Store` promises about accounts, each operation at once.
`Accounts!RefinesRegistry` maps the database to live bindings and says that each
step of the handlers is one operation of `Registry` or a stutter.  `RetireUser`
releases any subset of the user's own miners, because a miner bound during the
deletion stays; what must go is said by `DeleteComplete`.

`Tokens` has the token handlers, the gauge, and the process: `Start` is
`NewOAuthService`, `Find`, `CreateDefault` and `GenerateDefault` are
`GetDefaultAdminToken`, which goes through the same handlers as a request (the
goroutine `Boot`), `Save` writes the token file and serves.  A crash loses the
gauge and every goroutine and keeps the database and the file.  Users appear as
far as tokens depend on them.  Each token is signed with a random secret, so a
new one is fresh; the branch of `GenerateToken` for a token that is already
stored (jwt.go:166-168) is therefore never taken.  `TokenBook` is its abstract
specification, with `Tokens!RefinesTokenBook`.

`RateLimits` has the read-modify-write of the limits' map and the commands,
each a session of two requests.  `stale` is a history variable: the sessions
whose copy of a map was overtaken by a commit.

`Migration` has the start of the badger store from a database of version 0:
three transactions, each with its version number, and a crash between any two.
Miner records are keyed by the text of their address; `Parse` is
`address.NewFromString`, `Spelling` is `Address.String`, `Rank` the order in
which keys are walked, which decides what the last write to a key is.
`UpsertMiner` and `DelMiner` stand for the service that follows.

`Innodb` is the other database: `row`, what is committed, and `tx`, the open
transactions with their locks and pending writes.  Reads see committed rows (in
a transaction, its first read's), and take no lock; a writing statement works on
the newest rows, locks the range it looks at until the transaction ends, and
waits for the locks of others, which is its guard `Free`.

`SqlStore` is `storage/mysql.go` under the handlers of `auth/jwt.go`: one action
per statement, or per group of reads that share a snapshot.  A transaction whose
only writing statement is its last has that statement and its `COMMIT` in one
action, because no other session can tell them apart.

| Actions | Code |
|---|---|
| `CreateUser`, `UpdateUser`, `RecoverUser`, then `PutUser` or `SaveUser` | `HasUser`, `innerGetUser` or `Take`, then `Create`, which the unique index may refuse, or `Save`, which writes every column |
| `DeleteUser`, `DeleteUserMiner`, `DeleteUserSigners`, `DeleteUserSave`, `DeleteUserCommit` | the transaction of `mysqlStore.DeleteUser` |
| `UpsertMiner`, `RegisterSigner` and their commits | a snapshot of the user (and of the count), then `INSERT ... ON DUPLICATE KEY UPDATE` |
| `DelMiner`, `UnregisterSigner`, `DelSigner`, `DelRateLimit` | one `UPDATE` or `DELETE` |
| `GenerateToken`, `PutToken`; `RemoveToken`, `RecoverToken`, `MarkToken` | `Has` and `Create`; a count, then an update that does not look at the mark |
| `PutRateLimit`, `FindLimit`, `InsertLimit` | gorm's `Save`: `UPDATE`, `SELECT`, `INSERT` |
| `Fail` | the deadlock detector, a lock wait timeout or a lost connection, at any statement; to the database a crash of the server is one of each request |

It maps to the same `Registry` and `TokenBook` as the badger store.
`StepsAreRegistry` gives the two steps that are no single operation of `Registry`
operations of their own: `ReleaseEverywhere`, the one statement of `DelSigner`
for all users of a signer, and `RetireListed`, the commit of `DeleteUser`, which
deletes the user, its signers and the listed miners and nothing else.  A miner
that was rebound to another user after the snapshot that listed it is among them
(mysql.go:231): that is what the code does, and no property forbids it.  In the
badger store such a miner is never deleted (`DeletesOwnMiners`).

`SqlMigration` is the start of the MySQL store.  `table` is the layout of
`miners`: its primary key and its two indexes.  Each `ALTER TABLE` of version 3
is a commit of its own, whatever transaction is around it, so the process can
die between any two, and the next start decides by `HasColumn` alone.  `rows` is
a set of records that only an index makes unique.  `old` is a history variable:
the rows that an older release left, which no action changes and only properties
read.  A database of version 1 or 2 still has the column `users.miner` that
version 1 reads, so running that version again would overwrite what clients
bound since.  `NewStore` puts the two stores side by side: the configuration
names one of them.

`Access` is a call of the server from end to end.  `TokenCalls` to `SignerCalls`
are the requests that the methods of `AuthClient` send, `RouteTable` is
`InitRouter`, and `Route` joins them.  `call[c]` is a call in flight: its token,
what it names, the context the middleware gave it, its answer.

| Actions | Code |
|---|---|
| `Send`, `Raw` | a method of `AuthClient`; any other request: no token in the header, one that does not bind, a route without a method |
| `Authenticate` | `permMiddleWare`, which leaves the context empty after a 401 and lets the handler run |
| `CheckOwner` | `ownerOfMinerCheck`, `ownerOfSignerCheck`: a read of the store before the deletion |
| `Refuse`, `Perform`, `Fail` | the handlers: `BadResponse`, the operation of `Store`, its error |
| `Deliver`, `Lose` | the client gets the answer, or an error of the connection |
| `OtherUsers`, `OtherMiners`, `OtherSigners`, `OtherTokens` | other requests |

The store inside `Access` is `Registry` and `TokenBook` themselves, and `Others`
may do any of their operations between two steps of a call.  That is what
`RefinesRegistry`, `RefinesTokenBook` and `StepsAreRegistry` allow: to everybody
else a request over either store looks like a sequence of such operations.  (The
commit of a MySQL `DeleteUser` is several of them at once.)  So one call against
arbitrary others stands for any number of concurrent ones.  `DeleteUser` drops
its user's signers one transaction after another; here they are steps of
`Others`.  `mix`, which never changes, says which handlers one behaviour calls
and what others do meanwhile.  `seen` is a history variable: whether the token of
the call was live, and its user the owner of the address, at some moment of it.

`Services` extends `Access` by a service that uses the client library.  `svc` is
the request it serves: `Arrive`, `Trust`, `Unauthorised`, `VerifyLocally`,
`VerifyNothing`, `AskToVerify`, `Verified` are `AuthMux.ServeHTTP` with any of its
verifiers (`mux`), `Pass`, `Deny`, `AskForOwner` and `OwnerTold` the
`CheckPermissionBy*` functions, which call the server through `Access`.  `noted`
is its history variable.

`MCAccounts`, `MCTokens`, `MCRateLimits`, `MCMigration`, `MCSqlStore` and
`MCServices` give TLC its batches, mixes and symmetry.
A definition marked `slip` is a plausible mistake in the code next to which it
stands; no specification uses it.  `PROJECT.json` lists, for each property of
each passing run, the slip that violates it.

## The runs

| Run | Instance | Shows |
|---|---|---|
| `accounts_miners` | 2 users, 2 miners, 2 requests, crashes | `FullInv`, the invariant of the proofs; `BindingsNameUsers`: a binding names a user that was created; `CommitIsSerial`: a commit without a conflict does what its closure would do at that moment; `DeletesOwnMiners`: the miners `DeleteUser` deletes are its user's at its commit, although listed elsewhere; `DeleteComplete`: after an ok, what was bound before is gone; `RefinesRegistry` |
| `accounts_signers` | 2 users, 1 signer, batches with a bad address, 2 requests, crashes | `BindingsNameUsers` and `RefinesRegistry` for signers, and `DelSignerComplete`: a binding leaves the walk of `DelSigner` by the step that deletes it, and when it answers only bindings written during its walk are live |
| `accounts_answered` | 1 user, 2 signers, 2 requests, fairness | `IInv`, the invariant of the proofs, which implies `TypeOK` and `CommitIsSerial`; `DeleteComplete` with a walk of two signers; `Answered`: every request is answered |
| `tokens` | 2 users, 2 permissions, 2 tokens, 2 requests, crashes | `IInv`; `GaugeCovers`: the gauge with its pending updates never shows too few tokens; `ServesWithAdmin`; `RefinesTokenBook` |
| `rate_limits` | 1 user, 2 limits, 2 values, 2 sessions | `IInv`; `NeverEmpty`: no empty map is stored; `DeletesPresent`: a deletion that commits finds its key there; `PutKeepsOthers`: a put whose copy of the map is current changes one limit |
| `migration` | either store; 2 users, 2 miners, 3 texts of them and one that is no address, crashes; every database of version 0, and for MySQL every one of versions 1 and 2 | `StoreInv`; `MigrationKeepsBindings`, `SqlKeepsBindings`: wherever the migration was cut off, no binding of a user of version 0 is lost, and for MySQL every row that an older release left is there unchanged until version 3 is saved and clients write; `MinerHasOneRow`: a miner of MySQL has one row in whatever layout is served; `OneCutIsFatal`: of all cuts only the one between the first two statements of version 3 makes a later statement fail; `StartEnds`: once the process is killed no more, the server comes to listen and goes on listening, and only the table of the fatal cut keeps it from that |
| `sql_store` | 2 users, 2 miners, 1 signer, 1 token, 1 limit, 2 requests; mixes of users with miners, of users with signers, and of users with tokens and rate limits; any statement may fail | `IInv`; `DeleteIsWhole`: until its ok `DeleteUser` changes nothing, then all of it is done; `IdentityKept`: racing creations do not overwrite each other; `StepsAreRegistry`; `RefinesTokenBook` |
| `access` | 1 call against arbitrary others; 2 users, 2 miners, 1 signer, 2 tokens, 3 permissions; 5 mixes; lost calls; fairness | `IInv`; `EffectsAuthorised`, `AnswersAuthorised`: what a call changes and what it is told is allowed to a token that was live during it; `OkMeansDone`: an ok to a method of `AuthClient` means that what its name promises was true at one moment; `ServedIsVouched`, `CheckedOwns` for the service; `CallsEnd`, `ServiceEnds` |

Four runs end in a violation, each of something the repository says of itself:

- `rate_limits_delete`: deleting one limit deletes all limits of the user.
  `DelRateLimit` reads only the limit it deletes (badger.go:332), finds the map
  empty without it and removes the key.  One session is enough.
- `accounts_lookup`: `GetUserBySigner` ("all users including the specified
  signer", store.go:90) fails for everybody when one user that had the signer
  was deleted, because the walk does not skip deleted bindings.
- `tokens_start`: a crash between the creation of the default user and of its
  token, or the removal of that token, leaves a server that cannot start:
  "if not found, create one" (app.go:98) fails with "user already exists".
- `sql_created_once`: two concurrent `UpsertMiner` of a new miner both answer
  that they created it ("created(true) or updated(false)", store.go:72), because
  the count they decide by is a snapshot that waits for nobody (mysql.go:315-320).

Bounds and why they are enough.  The properties relate one operation to one
other at a time: every transaction is disturbed by one commit, so two requests
produce every pair of operations at every pair of points, and a third request
could only repeat the disturbance.  Two users are needed for a miner to move
between them; two miners for a deletion to take one and leave one; two signers
for a walk and a batch that stop in the middle; two permissions and two tokens
for a gauge to miscount one and not the other.  `Token` bounds the tokens ever
signed, `MaxGauge` bounds a gauge that racing recoveries raise without end (no
token is recovered while the gauge is above it), `Batch` bounds the lists of a
batch.  The mixes of `SqlStore` leave out only pairs of operations that share no
row: a token and a miner do not meet.  In `access` one call suffices because all
others are arbitrary operations of the abstract specifications; two miners are
needed for a service that asks twice, two tokens for one that vouches for
another, and a permission that is none (`other`), one that only reads and
`admin` for the lattice.  Its mixes call each handler with the part of the store
that it reads.  The migration needs two users for two owners of one miner, and
two texts for two spellings of one; miners meet nowhere in it.  Users,
miners, requests, tokens and limits are symmetric sets, in the runs without
fairness only.

Fairness.  `Accounts!FairSpec` has weak fairness of `Step(p)`, the next step of
a request in flight: the Go scheduler runs a goroutine that can run, and badger
answers.  A commit that conflicts is a step too, which ends the request with an
error, so no strong fairness is needed.  Nothing makes a client call.
`Answered` is checked without crashes: a crash answers every request trivially.
`NewStore!FairSpec` has weak fairness of the steps of a start, which one
goroutine takes one after the other, and of starting again, which whoever runs
the server does; it makes `StartEnds` hold once the process is killed no more.
Both of its outcomes are stated to last (`<>[]`): a layout without a primary key
is also passed through by every start that succeeds, so that it is the fatal cut
only when it stays, with no start between the two statements.
`Services!FairSpec` has weak fairness of the server's steps of each call, of the
client's hearing of it (an answer, or an error of its connection, which the
transport gives when the server is gone) and of the service.  Nothing makes a
client or a user of the service ask.

No run disables the deadlock check: a client may always call, and a server that
is down may always start.

## The proofs

Every safety invariant and every action property of the passing runs, the
refinements included, is a theorem for all values of the constants.  Each module
of proofs follows one pattern: lemmas about the store (what a commit or a
statement does to the records, and to the transactions that are open), a frame
lemma (the invariant of a request survives the steps of all others), one lemma
per action, and `Inductive`, which collects them; the temporal step is PTL.  The
other theorems are drawn from `Inductive`: an invariant by implication, an
action property and a refinement from a lemma on `IInv /\ [Next]_vars`.  The
inductive invariants are properties of the runs too, so TLC has checked each on
the instance of its run.

| Module | Theorems, next to `Inductive` and `Typing` |
|---|---|
| `AccountsProofs` | `SerialCommits` (`CommitIsSerial`), `OwnMinersOnly` (`DeletesOwnMiners`) |
| `AccountsRefinement` | `FullInductive` (`FullInv`), `NamedUsers` (`BindingsNameUsers`), `CompleteDeletion` (`DeleteComplete`), `CompleteDelSigner` (`DelSignerComplete`), `RefinesStore` (`RefinesRegistry`) |
| `TokensProofs` | `Gauge` (`GaugeCovers`), `Serves` (`ServesWithAdmin`), `Refines` (`RefinesTokenBook`) |
| `RateLimitsProofs` | `NoEmptyMap` (`NeverEmpty`), `DeletionsOfPresent` (`DeletesPresent`), `OthersStay` (`PutKeepsOthers`) |
| `MigrationProofs` | `KeepsBindings` (`MigrationKeepsBindings`), `OneRow` (`MinerHasOneRow`), `SqlKeeps` (`SqlKeepsBindings`), `FatalCut` (`OneCutIsFatal`) |
| `SqlStoreProofs` | `IdentityStays` (`IdentityKept`), `Whole` (`DeleteIsWhole`), `Refines` (`RefinesTokenBook`), `Registers` (`StepsAreRegistry`) |
| `ServicesProofs` | of the server: `Authorised` (`EffectsAuthorised`), `Answering` (`AnswersAuthorised`), `Promises` (`OkMeansDone`); of the service: `Vouches` (`ServedIsVouched`), `ChecksOwners` (`CheckedOwns`) |

What is assumed.  The constants are otherwise any sets, finite or not.
`ConstantsOK` of each module says that `Nil` or `None` is no name and no record,
and that the bounds and mixes are what they are used as: `MaxGauge` a number,
batches sequences of addresses, mixes sets of operations or of permissions that
exist.  `Tokens!BoundsOK` says that a server holds finitely many requests and
signs finitely many tokens, so that the gauge, a number, can be compared with the
tokens there are.  `Migration!ConstantsOK` says that the text `Address.String`
gives parses to the address it came from and that keys are walked in one order;
`TextOK` that the walk ends.  `NewStore!LayoutIsNotNil` tells a table from none,
and `Services!MixesOK` lets a service be asked for addresses only.

### Accounts

`CommitIsSerial` speaks of transactions about to commit without a conflict; to
be preserved it must say of every open transaction what it has read and that
this is still so, or that the transaction knows it is not.  `RequestInv(p)` says
that for each program counter: `ReadLive(t, k)` is "t read k, and k is live or t
knows k was committed since"; for `UpsertMiner` the answer it will give agrees
with the database or the key is dirty; for `DeleteUser` (`DeleteInv`), each
miner's record is the one in the snapshot or dirty, and each pending write of a
miner was read, and deletes a miner of this user or is dirty.  With
`Conflict(t)` false the second alternatives fall away and the properties remain:
that is the proof of `SerialCommits` and `OwnMinersOnly`.

The store operations come first (`BeginOK`, `ExtendOK`, `CommitOK`, `PutOK`,
`DiscardOK`): each keeps the typing of the database and of the transactions, and
for a transaction it does not touch each key stays as it was or is dirty when it
is watched, because a commit of the keys `ks` changes only records under `ks`
and puts `ks` into the `dirty` set of whoever watches them.  So a fact "current
or dirty" about a request survives the steps of all others (`DeleteKept`,
`FrameInv`), and `StepInv` reduces the invariant of a step to the request that
takes it.

`FullInv` adds what a request has still to write.  `NamesUsers` holds of the
database, of every snapshot and of all pending writes, because a commit installs
pending writes and a deletion marks what a snapshot shows; no step removes the
key of a user.  `RetireInv` and `WalkInv` say how far a deletion has come: a
miner that is still its user's is among the pending writes, and a signer that is
still bound is in the list to walk, or somebody wrote it since.  When the list is
empty that is `DeleteComplete`, and `DelSignerComplete` is the same for a walk.
For the refinement every action is first reduced to its `Effect` on the database:
nothing, one record of a user, a miner or a signer, or a user with some of its
own miners (`NextEffect`); then each effect is seen through the refinement
mapping as the operation of `Registry` it is (`UserSaved` to `UserRetired`).

### Tokens

`RequestInv` says of a request about to put a token that nobody else has it in
hand unless it is stored already, and of a removal that it marks a live token or
its commit conflicts; `BootInv` says what the start has found.  From that every
step is one of the store steps that put a user or a token and keep its name and
permission (`NextStore`), which is `RefinesTokenBook`, and `Save` has on file a
token that was an admin's and live when it was looked up.  `GaugeCovers`
compares two cardinalities, the live tokens and the pending updates; each lemma
of its proof says how one step moves one element between the sets that are
counted.

### Rate limits

`NeverEmpty` needs to know that a put in flight holds a map that has its own
limit, and `PutKeepsOthers` that a session whose map was not overtaken
(`stale`) still has the others as they are stored.  `DeletesPresent` needs that
a deletion about to commit has read its key, found it or knows it conflicts.

### Migration

For badger the properties are inductive with two facts about the versions: a
store of version 0 has no miner records, and before version 3 no client has
written one.  `MigrateToV2` writes many records in a walk, where the last write
to a key wins; `LastText` says that among any keys there is a last one, so a
miner with two spellings has a record afterwards.  For MySQL,
`LayoutOK` says which layouts each step of a start can meet; the statement that
fails, and which statement a later start skips, follow from the layout by cases.
`SqlKeepsBindings` is inductive with one more fact, that a database of version 0
has no rows of an older release, because version 1 writes rows; every other step
of a start leaves all rows, and clients write only when version 3 is saved.

### The MySQL store

A transaction holds its locks until it ends, so what it wrote or will answer
with stays so: `DeletionInv` says of a deletion, statement by statement, which
rows are written, that each is locked, and that the row of the user is the one
it read.  `OwnersKnown` (a row of a binding names a created user) is what
makes a binding a step of `Registry`.  The locks, the rows and the requests are
framed by `RowStep`: another session changes no row of the signers that are
locked, removes none of the others, and changes the id of no user.
`DeleteIsWhole` follows from `DeletionInv` at the commit, and so does that the
commit is `RetireListed` and changes nothing else; for `StepsAreRegistry` and
`RefinesTokenBook` every action is reduced to its `Effect` on the rows, as in
`AccountsRefinement`.

### Calls and services

Between any two steps of a call others do anything `Registry` and `TokenBook`
allow, so little stays true of the store: that a token issued keeps its name and
permission (`TokensKept`).  `CallInv` therefore speaks of the past, through
`seen`: a context that is not empty is that of a token that was live during the
call, and a call that was checked was made by the owner.  `Granted` turns a
permission check into what the token had, `MayRunMeans` lists what a handler
that runs was allowed by, and `OwnTokenEffect` and `OwnAddressEffect` bound what
the handlers that users may call can touch: together they are
`EffectsAuthorised`, also after a 401.  For `OkMeansDone` the routes are
evaluated: `MethodsRouted` says that each method of `AuthClient` reaches the
handler it is named for, and one lemma per kind of handler says what it does.

For the service, `WaitInv` says that the call in flight is its own, that it
asks what the service needs, and that a positive answer was true at a moment
that `noted` has; `ServiceInv` that each address that is asked for no more was
owned.  `ServerStands` is the step where both meet: the server performs the call
that the service waits for, and the state in which it does so is noted.

### Only model-checked

- The liveness properties `Answered`, `StartEnds`, `CallsEnd` and `ServiceEnds`:
  liveness under fairness is beyond the prover.
- The four violations, which are single behaviours.
- That the stores do to `Access` what `Others` may: each store is proved to
  implement `Registry` and `TokenBook`, whose operations `Others` takes, and the
  two are put together by the reading of their definitions.

## The plan

1. Extend: done as far as "Not modelled" below says.
2. Prove: done for the safety and action properties of all runs.  Still worth
   stating: `DeletesOwnMiners` of the MySQL store for the miners that nobody
   rebound, and that a lookup sees one snapshot or a deleted record.
3. Later: the gauge of tokens over MySQL, where two racing removals both count.

## Not modelled, and why

- The gauge of users: it starts from `ListUsers(0, 1)`, one user at most
  (jwt.go:115), so there is no relation to state.
- Formatting, parsing and JSON of records; logging and traces.
- Badger's value-log garbage collection: it changes no record.
- Errors of the disk in the badger store: a handler returns them as it returns
  every error, and the transaction has no effect.  In the MySQL migration
  an ALTER TABLE fails that has nothing to drop or finds what it adds, and the
  process may die between two statements.
- A badger migration that starts from a store an older release served at version
  1 or 2: its records are keyed as the handlers key them, and version 2 rewrites
  them in place.  The MySQL migration starts from every version.
- Which URIs `AuthMux` trusts (`Arrive` chooses), CORS and the quoting of
  addresses in URLs, paging, `ParseAddr`, the limit finder, and
  `ListUsersWithMiners`, which joins the answers of several calls for display.
- The miners that `UpsertMiner` refuses for not being ID addresses (jwt.go:525):
  `Miner` stands for those it lets through, and the refusal touches no store.
- `UpdateToken`, which no handler calls.
- The commands that send one request and print its answer.
- Operations that read in one transaction and change nothing (`HasUser`,
  `ListUsers`, `VerifyUsers`, `HasMiner`, `ListMiners`, `HasSigner`,
  `ListSigner`, `GetToken`, `Tokens`, `GetUserRateLimits`): each sees one
  snapshot; where a handler uses one, it is part of that handler's action.
