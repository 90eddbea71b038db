# Wallet toolbox: models and proofs

TLA+ models of the BSV Wallet Toolbox, model-checked with TLC and, where noted,
proved with TLAPS.  The first part of the program modelled is the one everything
else leans on: the life of an action in wallet storage, the monitor tasks that
work on it behind the caller's back, and the locks that keep them apart.  Around
it stand the headers and bulk files of chaintracks, the stores a wallet
synchronizes, the permissions of its applications, and how its user
authenticates.

Paths are relative to the repository; `storage/`, `monitor/` and so on are below
`src/src/`.

## 1. The system

| Part | State it keeps | Operations | Hard behaviours |
|---|---|---|---|
| **createAction** (`storage/methods/createAction.ts`, `generateChange.ts`, `StorageKnex.allocateChangeInput`) | rows `transactions`, `outputs` (`spendable`, `spentBy`) | validate, insert the transaction, lock change one output at a time, give it back and try again, insert outputs, lock the caller's inputs | many database transactions per call: interleavings, exceptions that leave work behind, inputs validated long before they are locked |
| **processAction / abortAction** (`processAction.ts`, `StorageProvider.ts`) | `transactions.status`, `proven_tx_reqs` | commit a signed transaction, share it now / later / with others, abort | status checked outside the transaction that writes it; abort racing a post |
| **internalizeAction** (`internalizeAction.ts`) | as createAction, and the proof | accept a payment or output from outside, merge with a known transaction | a transaction known in another status; several inserts in no common transaction |
| **listing and queries** (`StorageKnex.ts`, `StorageIdb.ts`, `StorageReaderWriter.ts`, `listActions*.ts`, `listOutputs*.ts`, `listCertificates.ts`, `List*SpecOp.ts`) | the tables | find, count, insert, update, find or insert; lists by label, tag and page; lists that abort, un-fail or release what they list | two implementations of one interface; pages of a list that changes; rows read first and updated one by one |
| **posting** (`attemptToPostReqsToNetwork.ts`) | in-memory copies of reqs, attempts | merge beefs, post to all providers, aggregate verdicts, update reqs then transactions | lost answers, retries reported as double spends, stale copies written back |
| **services** (`Services.ts`, `ServiceCollection.ts`, `providers/`) | ordered providers, call history | try providers in turn, rotate, turn replies into results | timeouts, a failure that counts as success, every provider failing |
| **monitor tasks** (`monitor/tasks/`) | a task list; local lists of rows | send waiting reqs, gather proofs, check noSends, fail abandoned, un-fail, review status | rows read under one lock and written under another; several updates with no common transaction |
| **purge** (`purgeData.ts`) | old rows | delete completed, failed and spent data | deleting what another row still needs |
| **storage manager** (`WalletStorageManager.ts`) | stores and their partition (active, backups, conflicting), four promise queues, availability | runAs reader / writer / sync / provider, add a store, set the active store, update backups | lost or stolen wake-ups, `makeAvailable` run by several callers, partial failure of `setActive` |
| **synchronization** (`getSyncChunk.ts`, `schema/entities/`) | `sync_states`, id maps | send changes in chunks, merge entities by `updated_at` | interrupted syncs, offsets into lists that changed, rows that miss an increment |
| **monitor scheduling, headers and reorgs** (`Monitor.ts`, `TaskNewHeader.ts`, `TaskReorg.ts`) | last header, queue of deactivated headers, `checkNow` flags | loop over tasks, debounce new headers, re-prove reorged transactions | a flag set and cleared by different tasks, delays and retries |
| **chaintracks** (`services/chaintracker/chaintracks/`) | live and bulk headers, the chain tip, listeners | ingest headers, reorganize, migrate live to bulk, serve readers, destroy | reorganizations, two nested locks, shutdown |
| **bulk header files** (`util/BulkFileDataManager.ts`, `HeightRange.ts`) | an ordered list of files and its table | merge, replace, truncate, read | adjacency and overlap at boundaries, death between two writes |
| **reader-writer lock** (`SingleWriterMultiReaderLock.ts`) | counters, two queues of resolves | withReadLock, withWriteLock | the gap between resolving a promise and the code that awaits it |
| **permissions manager** (`WalletPermissionsManager.ts`) | pending requests, caches, tokens on chain | ask, grant, deny, renew, revoke, one at a time or grouped | requests coalesced onto one answer, permissions outliving their token |
| **authentication** (`CWIStyleWalletManager.ts`) | the user's token, factors, profiles, the wallet in use | authenticate, change factors and profiles, snapshots | a token replaced while its next version is being put together |
| **wallet and signer** (`Wallet.ts`, `signer/`) | pending sign actions | create, sign, abort | an action signed twice or never |
| **others** | | settings, remote storage, WAB client | listed in `PROJECT.json` |

**Interaction.**  A wallet calls the storage manager, which runs each method on
the active `StorageProvider` with its queues held.  The monitor has its own
manager (or shares the wallet's) and takes the same queues for each read, each
write and each closure of a task, not for a task as a whole.  Both post through the
services; the network answers the storage, never the caller.  Rows are the only
shared state; every `await` is a point where somebody else may run.  Chaintracks
tells the monitor of new and of deactivated headers by callbacks; the permissions
manager stands between an application and the wallet, and the authentication
manager builds the wallet that is used.

**What makes the parts correct.**  An output is never given to two actions; the
inputs of a living action stay reserved and those of a failed one come back; a
failed action is not on the network; completion means a stored proof; terminal
statuses are terminal; what is on its way arrives at one.  The active headers are
one chain with the most work, no proof on a dead block is forgotten, bulk and live
headers adjoin.  A backup ends up with what the active store has.  Nobody is let
through without a fresh permission, and every token opens with the password it was
made for.  The locks exclude, and nobody waits forever.

## 2. Modules

```
StorageTables                rows, sessions, locks, primitive updates
  Services                   postBeef, proofs and statuses from the providers
  CreateAction               createAction of the storage
  ProcessAction              processAction, abortAction, posting
    InternalizeAction        transactions from outside
    ListSpecOps              lists that change what they list
    MonitorTasks             the tasks over actions
      PurgeData              TaskPurge
        WalletStorage        composition with the network; properties; fairness
          MCWalletStorage            instances for TLC
            MCFunding                  ... with what is evaluated of GenerateChange
            MCStorageQueries           ... of KnexQueries and IdbQueries
            MCStorageListings          ... of StorageListings
          WalletStorageProofs        types, plans, proofs, outputs, the purge, funding
            CompletionProofs         how an action ends, and what it holds till then
GenerateChange               generateChangeSdk with its amounts
StorageRows                  tables, keys and unique columns
  KnexQueries                the queries of the SQL storage
  IdbQueries                 the queries of the IndexedDB storage
    StorageListings          listOutputs, listActions, listCertificates, on either
StorageAccess                abstract: one at a time, first come, first served
  StorageLocks               the manager's four queues; implements StorageAccess
    MCStorageLocks, StorageLocksProofs
StorageSync                  stores, chunks and merges
  StorageManager             partition, backups, imports, setActive
    MCStorageManager, StorageManagerProofs
LiveHeaders                  insertHeader: live headers and their forks
  Chaintracks                the queues and the main thread; implements LiveHeaders
    HeaderTasks              composed with the monitor: proofs against a chain that reorganizes
      MCHeaderTasks, HeaderTasksProofs
HeightRange                  ranges of heights
  BulkFiles                  the list of bulk files and its table
    BulkSync                 ingestors, migration, live range, death and restart; TLC runs it as it is
SingleWriterMultiReaderLock  the lock of chaintracks
    MCSingleWriterMultiReaderLock
    ChaintracksUtilProofs    the lock, and HeightRange
Permissions                  requests, prompts, answers, tokens
  PermissionsManager         what each method of the wallet needs
    MCPermissionsManager, PermissionsManagerProofs
CWIStyleWalletManager        devices, factors, profiles, tokens
    MCCWIStyleWalletManager, CWIStyleWalletManagerProofs
```

### The life of an action

*Names.*  One user, one row per kind and action: `t \in Txs` stands for the
transaction row, its txid, its req and the one output of its that the wallet keeps.
Coins are outputs of transactions completed long ago, in the change basket or in a
user basket.  Satoshis do not appear here: which change is picked and whether it
suffices is a nondeterministic choice over what the code could find (`GenerateChange`
has the amounts).  `Init` gives each
transaction an origin: made by this wallet, received, or received and doomed, its
inputs being spent elsewhere.

*Rows.*  `tx`, `req`, `proven`, `exists`, `change`, `spendable` and `spentBy` are the
tables' columns that decide anything; `plan[t]` is what `createAction` told its
caller to sign; `known` and `mined` are what the miners have.  A row that was purged
is a row that is not there.

*Processes.*  A caller or the monitor.  `s[p]` holds its program counter and
local variables, the copies of rows included.  One action of the model is one
database operation, or one closure run in a database transaction; between two of
them anybody may run, unless the manager's lock (`ManagerLocks`) is held.  With
`ManagerLocks = FALSE` calls reach the provider unlocked, as through
`StorageServer`, which calls the provider itself.

| Module | Code | Actions |
|---|---|---|
| `CreateAction` | `createAction`, `fundNewTransactionSdk`, `generateChangeSdk`, `allocateChangeInput`, `createNewInputs` | `createNewTxRecord`, `allocateNoSendChange`, `allocateChangeInput`, `startRelease`, `releaseChangeInput`, `released`, `funded`, `createNewOutputs`, `mergeAllocatedChangeBeefs`, `createNewInput(Throws)`, `createActionReturns` |
| `ProcessAction` | `processAction`, `shareReqsWithWorld`, `abortAction`, `attemptToPostReqsToNetwork` | `validateCommitNewTx`, `commitNewTxToStorage`, `sendWith`, `getReqsAndBeef`, `bumpToUnsent`, `abortAction`, `mergeBeef(Throws)`, `postBeef`, `transferNotes`, `refreshReq`, `updateReqFromResult`, `updateTxFromResult` |
| `InternalizeAction` | `internalizeAction` | `internalizeAction`, `findOrInsertProvenTx`, `insertCompleted`, `insertUnproven`, `getProvenOrReq`, `storeOutput`, `mergeOutput` |
| `ListSpecOps` | `listActions`, `listOutputs` with reserved names | `listNoSends`, `abortListed`, `listFailed`, `unfailListed`, `listChange`, `filterOutputs`, `releaseListed` |
| `Services` | `Services.ts` and the providers | operators: the set of results a call may have, given what the network knows |
| `MonitorTasks` | `TaskSendWaiting`, `TaskCheckForProofs`, `TaskCheckNoSends`, `getProofs`, `updateProvenTxReqWithNewProvenTx`, `TaskFailAbandoned`, `TaskUnFail`, `TaskReviewStatus` | one action per await of each |
| `PurgeData` | `TaskPurge`, `purgeData` | one action per statement |
| `WalletStorage` | the network is external | `Mine` |

*Exceptions.*  `Throws(p)` ends a call or a task at any await; what was written
stays and the lock is released, as `finally` does.  `MaxFaults` bounds them.

*The network* (external) accepts a transaction with the unproven ancestors in its
beef unless one conflicts with what it knows.  `postBeef` asks the providers in turn
until one succeeds.  `Failures` says how a request may end: *unreachable*, *lost*
(delivered, the answer is not), *refused* (a third rate limit, a reset connection)
or *status* (the second opinion on a double spend fails).  The runs take the first
two: a refusal after an earlier provider delivered makes a transaction `invalid`
that is on the network.  `Bitails.postRaws` leaves a result as `success` when its
request throws, so an unreachable Bitails counts as a post (against its comment "4.
Service Failure"); the runs have it among the providers where the state space allows.

### Queries and change

What a storage answers, and how change is chosen, are functions of their arguments, so
these modules have no variables.  A database is a record of tables, a table the
sequence of its rows by key, a row a function of columns; a query is a record of the
columns it compares, the lists it names, a time and a page.  `KnexQueries` and
`IdbQueries` are the two implementations of `StorageReaderWriter`: the SQL one is a
`where` for each column asked for, the other has a filter method for each table, which
compares what it was written to compare.  `StorageListings` has the three lists of the
wallet interface with labels, tags, pages, totals and special operations on top of
either.  `GenerateChange` is the loop of `generateChangeSdk`: add the coin that comes
nearest to what is missing, and an output for what it brings too much, drop outputs
and start over while the coins do not suffice, and give what is left over to the
outputs at random.

What they should do is stated as `ASSUME`s of `MCFunding`, `MCStorageQueries` and
`MCStorageListings`, which TLC evaluates before the runs of these modules: of change,
that the fee paid is the fee due, no coin is chosen twice or lost, and funds are refused
only if no choice of coins would do, for up to three coins, three fee rates, targets
from none to three outputs and both ends of the random values; of both storages, that
what is inserted is found, a count is the number of rows found, everybody finds his own
rows, and where their answers differ; of the lists, that pages put together are the
list, totals its length, a balance its sum, and that a special operation touches what it
lists and nothing else.  The databases have two users, an action of each status, and
outputs, certificates, tags and links that may be spent or deleted.

### Locks

`StorageLocks` models `getActiveLock` and `releaseActiveLock` at the granularity
of awaits: a caller waits for `makeAvailable` if the manager is not available,
pushes a promise, waits for it, goes on to the next queue, runs, and releases all
its queues in one go.  `getActive` may throw after the queues were taken, and
`makeAvailable` may reject before.  `StorageAccess` is what that promises to whoever
calls: one line of callers, in the order in which they entered; the first one's
function runs, alone; who leaves, served or not, takes only itself out.  `StorageLocks`
implements it until `makeAvailable` first rejects, which releases a queue that was not
entered: `line` maps to the reader queue, which every method enters first, `running`
to the functions that run.  The lock of `StorageTables` (`Acquire`, `Release`) promises
less: it leaves the order open.

`SingleWriterMultiReaderLock` has the microtask queue in its state, since
resolving a promise only appends a job: whoever stands in between sees the lock
as it was.

### Stores and synchronization

A row is its natural key; a store holds for each the number it was inserted with, its
`updated_at`, the write its columns come from and the rows its foreign keys name.
All stores share a clock that advances with each write.  `StorageSync` has the
chunks: what `getSyncChunk` reads at an offset, and, table by table, what
`mergeFind`, `mergeNew` and `mergeExisting` of the twelve entities do with an item
(`MergeOf` is the table of their differences).  `StorageManager` has the calls:
`makeAvailable` with its partition, `updateBackups`, `syncFromReader`, `setActive`
with its conflicts, and a restart, each holding the manager's locks.  `Shared` stores
are written by another wallet of the same user too.  `written` remembers every write,
`seen` what the reader had when the last chunk was read, and `exposed` the pairs of
stores one of the missed rows below has touched.

### Headers and reorganizations

`LiveHeaders` is `insertHeader` of the Knex storage, one database transaction.
`live` is the table `live_headers`: a function from hashes to the columns
`chainWork`, `isChainTip` and `isActive`.  The tree of headers that proof of work
admits is a constant (`Prev`, `Height`, `Work`); since a hash determines its
ancestors, `previousHeaderId` needs no variable, and the loops that walk it are
the sets they visit (`Branch`, `Deactivated`, `Activated`).

`Chaintracks` is `mainThreadShiftLiveHeaders`.  `thread` is where the loop is,
with the header in hand, the recursions left and the headers the last insertion
deactivated.  Its actions are cut at the awaits: take a header from a queue,
insert it, fetch a missing parent, call the listeners.  Ingestors (external) put
any header, also one with a wrong height, at either end of the queue.

`HeaderTasks` adds what hangs on it: `processReorg` as the listener,
`TaskNewHeader`, the proof part of `getProofs`, and `TaskReorg`.  `proof[t]` is the
block of a `proven_txs` row, `task` the monitor's current task with its local
variables, `deactivatedHeaders` and `process` the two queues of `TaskReorg`.
`givenUp` is a history variable: the blocks TaskReorg will not look at again.

Assumptions: `TreeAssumption` (hashes are unique, ancestry well founded);
`SiblingsEqualWork` (the difficulty of a block follows from its ancestors; not so
on testnet, see below); `NoForkBelowLive` (forks are shallower than the 2000
blocks that migration leaves above the bulk files); `RecursionLimit >= 2` (the
code's default is 36); the first answer of `getMerklePath` names a block that is
active at that moment, since the providers follow the same network, while an
answer to `reproveProven` may be any.
Here Chaintracks is within reach of the present height, where the main thread skips
bulk synchronization; migration is in `BulkSync`.

### Bulk files

One chain, every header with a work of 1: a file is known by its heights.  `BulkFiles`
has the list `bfds` of `BulkFileDataManager` and the table `rows` beside it, and merges
files one after the other with awaits in between; `merging` is what is left.  A merge,
and the replacement of the table at a start, changes the list and then each row in an
await of its own: `saving` has the writes to come.  Any of them may fail, which ends
the merge, and the process may die before any of them.
`BulkSync` has the main thread's review, `syncBulkStorage` with its two ingestors (a
CDN whose files grow, WhatsOnChain), the live headers as one range, migration and
pruning.  The process may die between any two steps and start again, with a build
whose built-in files reach further.  `exposed` names seven causes after which a property
is not claimed (section 3).

### Permissions

One application.  A permission request is a record and its own key.  `Permissions` has
the ensure methods (cache, recent grants, token lookup, prompt), the entries of
`activeRequests` and the user's answers, single and grouped, with the writes on chain
they start; `PermissionsManager` has, for each method of the wallet interface, the
permissions it needs and in which order, and `createAction` with the spending
authorization that comes after the underlying wallet has built the action.  The clock
ticks when no lookup is in use and no token is being written.  `permittedAt[r]` is
history: when a token last covered `r`.

### Authentication

Each device of a user runs a `CWIStyleWalletManager`; the overlay holds the tokens.  A
call is a sequence of steps, one for each promise it awaits: lookups, the key
derivation, the prompt for a password, creating and broadcasting the token, the wallet
builder.  A field of a token is known to those who have the factors it was encrypted
with, so encryption is the factors it takes; random values are fresh numbers.
`Serial` says that an application awaits a call on a device before the next.

## 3. Runs

Every run is exhaustive for its constants.  Except for the two locks, the runs set
`CHECK_DEADLOCK FALSE`: when all actions are terminal, all headers handled or the
bounds used up, the system may stop.

| Run | Bounds | Shows |
|---|---|---|
| `ActionLifecycle` | 2 actions, 1 coin, 1 caller, retries to 1; tasks SendWaiting, CheckForProofs, FailAbandoned; lists of noSends and of invalid change | `InputsStayLocked`, `FailedHoldsNothing`, `FailedStaysOffNetwork` under the manager's locks; first evaluates the statements on `StorageListings` |
| `FundingConcurrent` | 3 actions, 2 callers, 2 change coins, 1 custom coin, 1 exception, no lock | `ChangeLockedWhileFunding`, `PlansDisjoint` at every interleaving of `createAction` calls; first evaluates the statements on `GenerateChange` |
| `MonitorTasks` | 2 actions, 1 coin, 1 caller, all tasks but UnFail, all purges | `SpendableIsFree`, `CompletedHasProof`, `CompletedAgrees`, `TerminalIsFinal` |
| `UnFail` | 2 actions, 1 coin, the list of failed actions; tasks CheckForProofs, UnFail, ReviewStatus | `AcceptedHoldsInputs`, `ChangeIsNotLost`: a wrongly failed action is revived after its input was used again; first evaluates the statements on `KnexQueries` and `IdbQueries` |
| `Progress` | 1 action of any origin, internalizeAction, 1 exception, fairness | `InFlightSettles`, `TransactionSettles` |
| `StorageLocks` | 3 callers, methods of 1 and 4 queues, 1 provider added, 1 rejection, fairness | `OneUntilRejection`, `CallIsServed`, and `AccessSpec`: they implement one line, first come, first served (`StorageAccess`) |
| `Sync` | 3 stores, 2 managed and 1 shared; a proof, a transaction, an output and a basket; 3 writes, chunks of 1 item, 1 fault, fairness | `ParentsFirst`, `LinksKept`, `NeverOlder`, `NothingLeftBehind`, `SyncEnds` |
| `ChainReorgs` | 7 headers, 3 announcements, 1 transaction mined on both branches, 1 exception, 2 tries, recursion limit 2, fairness | `OneActiveChain`, `TipIsHeaviest`, `TipMovesUp`; `StaleProofIsQueued`, `StaleProofSettles`; `HeadersAreAdded` |
| `Bulk` | 5 heights, files of 2, 1 fault, 1 restart, thresholds 2 and 1, migration of 1, fairness | `FilesAdjoin`, `StorageAgrees`, `BulkLiveAdjoin`, `HeadersServed`, `StartupEnds` |
| `RWLockBurst` | 4 clients, 3 pending jobs, fairness | `WriterProgress`, and `LostOnlyWhileWaking`: exclusion is only ever lost in the gap after a wake-up |
| `Permissions` | 2 calls at once, 2 ticks, months of 2, 1 token written, 1 failing write, 1 action, fairness | `NobodyForgotten`, `PermissionIsFresh`, `CallEnds` |
| `Authentication` | 2 devices, 2 passwords, 3 random values, 5 calls, 1 fault | `ActiveIsUnderlying`, `PasswordOpens`, `RecoveryKeyIsSaved` |

**Why the bounds are enough.**  Hazards between actions need two of them: one
that holds or spends an output and one that wants it, or a child that spends the
change of its parent.  Two coins and a custom coin let calls compete both for
change and for a named input, with a spare; a third action lets a caller that
failed start again against the two others.  Attempt limits of 0 or 1 put the
branch at and beyond the limit one retry away; the code compares with `>` only.
One exception reaches every state left by a partial failure.  Three callers of a
queue are the holder, the next and one behind; the queues in the middle behave as the
others, so methods of one and of four queues suffice.  The header tree has two
branches of which one is overtaken and overtakes again, with a tie in between, so a
reorganization deactivates up to two rows and re-activates rows that were active
before; three announcements suffice, because a header on top brings its parents with
it.  Two pending microtasks show the overlap of the lock; three let a burst outrun a
woken writer.  Two managed stores and a shared one are a writer, a reader and a
stranger; chunks of one item interrupt a synchronization between any two rows, and
three writes order a row, its parent and an update of either around an increment.
Five heights with files of two are two full files and a rest that a CDN file may cut
anywhere.  Two calls suffice to join one prompt, to be answered apart, and to use what
the other was granted.  Two devices are one whose token was replaced and one that
replaced it.

The tasks are spread over runs because not all belong in one question:
`CheckNoSends` and the purge are exempt from `InputsStayLocked` and
`FailedStaysOffNetwork` (below), `UnFail` offers change whoever holds it, and
`reviewStatus` fails a transaction and releases its inputs in two statements.

Each property has a mutant in `PROJECT.json`: a plausible bug in the code it is
about, for which TLC reports the violation.

### Disagreements met, and what the properties leave out

No run expects a violation; what follows came up while modelling and is why a
property is stated as it is, or why a task is not in its run.

*Reqs and stale copies.*

* `getProofs` writes the req it read before it awaited the services; an
  `abortAction` in between is undone, although `invalid` "will never be re-attempted
  or completed" (`sdk/types.ts:48`).  `TaskCheckNoSends` does the same with `nosend`,
  and `sendWith` then posts an aborted action.  `WritesBack` in `TerminalIsFinal`
  names the five writes of a copy the monitor read before.
* `transferNotesToReqHistories` writes the stale status of the copy before the
  refresh whose comment promises not to degrade it
  (`attemptToPostReqsToNetwork.ts:105`, `:220`).  With three transactions it reaches
  further: t1, a noSend, is aborted but carried by its child's beef; t3 reuses t1's
  coin, conflicts and is a double spend; the copy `TaskSendWaiting` took of it earlier
  takes its req from `doubleSpend` back to `sending`; a delayed `sendWith` then makes
  the failed transaction `sending`, without inputs.  Hence `GivenUp` in
  `InputsStayLocked`: an action whose req was written back was not given up.
* `TaskFailAbandoned` fails a transaction and leaves its req, which a later
  `sendWith` posts.  An abort after a failed `notifyTxOfProof` leaves a proven
  transaction with an `invalid` req, and `reviewStatus` completes it: this is why
  `CompletedAgrees` is proved without faults when `ReviewStatus` is installed.
  `internalizeAction` is excluded there because a purge of a failed received
  transaction leaves its `doubleSpend` req, and the transaction may then be
  internalized with a bump, as completed.
* A req is `completed` before the notification that `sdk/types.ts:50` makes part of
  it; an exception between commit and post leaves a req `unprocessed`, a status no
  task reads; one after `updateReqFromResult` leaves the transaction `sending` with
  a `doubleSpend` req, which nobody reviews (`Unattended`).
* Through an unlocked provider `abortAction` accepts an action the network has just
  accepted, and a delayed share takes a proven req back to `unsent`.

*Outputs.*

* Inputs named by the caller are not checked to be spendable: the check is off
  (`createAction.ts:45`, `:656`), and what another action holds is only refused when it
  is locked.
* The change of an abandoned action stays `spendable` in its row and is guarded by
  the status alone (`TaskFailAbandoned.ts:9` says its outputs are verified not to be
  spendable).
* `purgeSpent` deletes outputs an unsigned action has reserved (the documentation of
  TaskPurge preserves unspent outputs), `purgeFailed` the change of an aborted parent
  that a child holds; one output without a proof makes `purgeSpent` throw each time;
  with a provider not locked the purge leaves a completed row without its proof.
* `invalidChangeOutputs` with *release* takes the change of nosend and sending
  actions; `failedActions` with *unfail* sets a status of the transaction that no
  task reads; isUtxo speaks of the network only, so `TaskUnFail` offers change that
  a stored noSend action spends.
* `internalizeAction.ts:416` asks for `isNew`, which `getProvenOrReq` never sets: a
  new transaction waits as `unsent` although the comment says it is sent at once.  A
  merge turns a change output into a custom one against rule 2 of its documentation
  and never updates the transaction's satoshis.
* `TaskUnFail` offers the outputs of what it revives by the UTXO set, without a look at
  their `spentBy`: an output that a child not yet sent has reserved is allocated again.
  With three actions (38 steps) the child is accepted and has lost its input, so
  `AcceptedHoldsInputs` is stated for coins where `UnFail` is installed, and for all
  outputs where it is not.

*Change.*

* A coin too small for its own fee stays in the transaction once it was allocated, and
  may make `generateChange.ts` refuse what the other coins could pay;
  `RefusedOnlyWithout` is stated for coins that pay for themselves.
* A request for as much as possible is never refused (`generateChange.ts:266-274`):
  without coins the amount it is given is negative.

*Queries.*  The SQL storage looks at each argument; the IndexedDB storage does not.

* `filterProvenTxReqs` looks neither at `status` nor at `txids`, so a task gets reqs of
  every status; `filterTxLabelMaps` not at `labelIds`; `filterCertificates` not at
  `isDeleted: false`, and takes no certifiers for none at all, so `listCertificates`
  without any lists nothing; `getOutputTagMapsForUser` returns the maps of all users;
  `filterOutputBaskets` and `filterSyncStates` each compare with a column that no row
  has.  No filter orders descending, and a limit of 0 is no limit where SQL gives none.
* `updateIdb` throws at an id that is missing and has updated those before it; SQL
  skips it.  `countChangeInputs` counts spent outputs.
* A count with an offset throws in SQL, so the second full page of `listCertificates`
  throws; in IndexedDB it counts the page.  A later page that is not full gives its own
  length as the total.  `listOutputs` in IndexedDB omits outputs of actions being sent
  and takes no negative offset; `listActions` counts before a page is aborted, in SQL
  after it.  Reading the labels or tags of a row throws in IndexedDB where a linked one
  was deleted.
* A tag or label given twice with mode *all* finds nothing.  Aborting noSend actions
  page after page skips some, since the list gets shorter (`FirstPageAgain` says that
  asking for the first page again does not).
* An exception in `findOrInsertUser` between the user and his *default* basket leaves
  him without one for good.

*Locks.*

* `checkQueues` resolves a waiter and leaves the counters to it; a call in between
  takes the fast path and two writers run.  `LostOnlyWhileWaking` says that this gap
  is the only way.
* When `makeAvailable` rejects, `finally` shifts queues the call had not entered; the
  next call runs beside the one whose entry was removed.  `OneUntilRejection` and
  the refinement hold until then; `CallIsServed` and `FirstIsServed` after it too.

*Stores.*

* A proof inserted before the link of its transaction is never listed for a backup
  (`StorageKnex.ts:146-186`), and the copy silently loses its proof.  Rows imported by
  `syncFromReader` keep times older than the backup's last increment and are never
  pushed on, though line 50 of the manager promises it; a child row then makes every
  later merge of that pair throw.  These are the `exposed` pairs of
  `NothingLeftBehind` and `LinksKept`.
* `EntityOutput.mergeExisting` never takes a changed basket and
  `EntityProvenTxReq.mergeExisting` no proof (`Fixed`); `spentBy` and `basketId` are
  dropped when they cannot be mapped; a req that comes before its transaction's link
  is copied without proof.  A `setActive` whose merge of a conflicting store keeps
  throwing appends the active store to the conflicting ones each time.

*Headers.*

* `ChaintracksStorageNoDb.ts:290` and the IndexedDB storage write back the row of
  the previous header as it was read before the reorganization re-activated it, so
  it ends inactive below an active tip (the mutant of `OneActiveChain` is this write).
* When siblings have unequal work, a heavier header on an active parent that is
  not the tip becomes a second active tip (`ChaintracksStorageKnex.ts:326` looks
  only at an inactive parent), although `BlockHeaderApi.ts:33` says only one is.
* `getProofs` stores a proof without asking chaintracks, although the comment at
  `TaskCheckForProofs.ts:180` speaks of "validating and chaintracks confirming";
  a proof from an orphan block that was never active would not be looked at again.
* A header whose parent was found, but whose grandparent no ingestor has, stays
  queued and starts over.  The queue of deactivated headers is in memory, and an
  exception in `reproveHeader` loses the header in hand.
* `destroy` holds the write lock while it waits for the main thread, which takes it.

*Bulk files* (in brackets the exposure).

* `ChaintracksStorageBase.ts:367` passes a cumulative chain work on as an increment,
  which `BulkFileDataManager.ts:302` adds to the last file's: a migration always
  throws.  Live headers are never pruned; a start with up to a chunk of them to
  migrate ends in `startupError`, one with more flushes them, and an available
  Chaintracks loops under the write lock.
* Updating the last file leaves its row as it was ["last"]; a later gap makes every
  start throw.  `mergeIncremental` is torn by a failed read ["torn"].  Built-in files
  longer than the stored ones replace every row, the incremental one included
  ["known"].  An identical CDN file stays incremental, so the next is added behind
  it ["kind"].  A write of the table fails after the list has
  changed ["unsaved"], and if it was the write of a row the table had, that row is older
  than the list ["stale"].
* An update before the last file writes two rows, one after the other (`:671`, then
  `:675` or `:682`).  When the process dies in between, the new CDN row reaches into
  the old incremental row, or past it ["stale"].  There is no gap, so the next start
  loads both, and reads across them return other headers than asked for, or none.
  Files merged later take the first of the two that has a height for the one to
  update; a CDN file may end up between two incremental ones, whose gap then stops
  every later start.
* CDN files that reach into the live headers leave "a
  gap or overlap" for good ["live"].
* `above` is wrong for a range far below; `RangesAreSets` says where it is right.

*Permissions and authentication.*

* `querySpentSince` sums change minus inputs, which is negative, over the first ten
  listed actions only: the monthly limit never refuses.
* The callers of a request are resolved before its token is on chain: a call in
  between asks again, and two renewals spend one token.
* Two calls at once on one device mix the salt of one token with the key of
  another, and leave the wallet of another profile in use: `PasswordOpens` and
  `ActiveIsUnderlying` are claimed for `Serial` applications.  A call that ends after
  `destroy` may leave the manager authenticated without a root key (not modelled).
  A device whose token was replaced elsewhere publishes its stale factors as a second
  one, and the broadcaster's answer is ignored.

## 4. Fairness

* `SF(Continues(Monitor))`, `SF(sendWaiting(t))`, `SF(checkForProofs(t, TRUE))`,
  `SF(reviewStatus)`: `startTasks` loops over all tasks for as long as the monitor runs,
  each task pages through all its rows, and the monitor queues for the lock like
  everybody else.  The lock is only free now and then, but its queues are first in
  first out (`StorageLocks`: `AccessSpec`, `CallIsServed`), so an action enabled again and again
  is taken: strong fairness.  A new block sets `TaskCheckForProofs.checkNow`, so
  runs that count an attempt occur again and again.
* `WF(Continues(p))`: a call that started goes on; awaits resolve or reject.
* `WF(Mine(t))`: blocks are found.  Nobody has to call, to sign, or to fail.
* `WF(MainThread)`, `WF(processReorg)`: the main thread of chaintracks loops until it
  is destroyed, and a fetch resolves or rejects.  `WF(TaskSteps)`: a task that
  started goes on.  `SF(trigger)`: TaskReorg gets its turn between other tasks again
  and again, and entries age.  Nobody has to announce a header, and no service has
  to answer.  `WF(prune)`, in `BulkSync`: the pruning that was started goes on.
* Locks: the microtask queue drains (`WF(RunJob)`, `WF(Proceeds)`), and functions
  settle (`WF(fnSettles)`, and `SF(FnSettles)` where scheduling is bounded by
  `MicrotaskBurst`).
* `Sync`: a synchronization goes on while there is something to do.  The condition
  is the weak fairness of `SyncStep` with its `ENABLED` written out: the plan is empty
  again and again, or plan and chunk change again and again.
* `Permissions`: callers run on, writes on chain settle, and the user answers each
  prompt that is shown.

## 5. Proofs

All for arbitrary sets of actions, coins, callers, stores, devices, requests and
headers, any limits and any number of faults; the assumptions are those named in the
modules, which say that names are distinct, that limits are natural numbers and that
options are among those the code has, and for headers those of section 2.  Further
hypotheses are in the statement, and in the second column.

### Wallet storage (`WalletStorageProofs`, `CompletionProofs`)

| Theorem | Statement | Under |
|---|---|---|
| `TypeCorrect` | `Spec => []TypeOK` | |
| `CompletionProven` | `Spec => []CompletedHasProof` | `OneManager`: who installs the purge has the manager's locks |
| `PurgeIsAlone` | `Spec => []PurgesAlone` | `OneManager` |
| `FailedReleases` | `Spec => []FailedHoldsNothing` | no ReviewStatus |
| `OfferedIsFree` | `Spec => []SpendableIsFree` | manager's locks, no UnFail |
| `CompletionIsShared` | `Spec => []CompletedAgrees` | manager's locks, no internalizeAction; no faults if ReviewStatus is installed |
| `TerminalStays` | `Spec => TerminalIsFinal` | manager's locks |
| `InputsAreKept` | `Spec => InputsStayLocked` | manager's locks, no UnFail, no purge; with ReviewStatus neither faults nor internalizeAction |
| `FailedIsNotSent` | `Spec => []FailedStaysOffNetwork` | `Truth` below, no ReviewStatus |
| `AcceptedKeepsInputs` | `Spec => []AcceptedHoldsInputs` | `Truth`, no purge; with ReviewStatus no internalizeAction |
| `ChangeStays` | `Spec => []ChangeIsNotLost` | `OneManager`; invalidChange not called; no failure of kind *status* |
| `AllocationHolds`, `NoSharedInput` | `FundingSpec => []ChangeLockedWhileFunding`, `[]PlansDisjoint` | no locks at all |

`Truth` is short for: manager's locks, no faults, neither CheckNoSends nor UnFail, and
services that fail by being unreachable or by losing an answer (`HonestServices`).
Section 3 says what happens otherwise.  `ChangeStays` allows
faults, all other calls and tasks, UnFail and the purge among them, and calls without
the lock if nothing is purged.

The invariants build on each other.

* `Typed` adds to `TypeOK` that a process inside a call works on an action (`HasTx`)
  and that a verdict is known after posting (`HasVerdict`): without them the updates
  `req[s[p].t]` are untyped.
* `Locked`: who is inside a call holds the lock if the manager locks (`CallsLocked`),
  the purge holds the provider lock throughout (`PurgeLocked`), and an idle process
  has forgotten its locals.  It gives that two calls are never both under way.
* `ProofInv` extends `CompletedHasProof` to the copies of reqs in local variables,
  since a stale copy is written over the row: a copy that says completed is only ever
  held for a proven action, and `proven` is only left by orphans of the purge.
* `PlanInv`: an action whose `createAction` has not returned is known to nobody else
  (`PlansFirst`), rows under work are there (`RowsStay`), and a call has the row it
  inserted to itself (`FundersAlone`).  With it an output is assigned to a failed
  transaction by no step: nobody allocates for an action others can fail.
* `OutputInv`: an output that is offered exists and is free, an action whose output
  is held, or in another basket, was committed before (`HeldIsCommitted`), so no
  commit offers it again; and a call picks outputs that exist and belong to committed
  actions (`Call`).
* `AgreesInv`: who posts or revives an action works on one that is not completed, who
  looks for its proof read the req before it was, or a req that says so; and without
  faults the proof is linked in the closure that inserts it (`ProofsLinked`).
* `TerminalInv`: a req that is posted was not terminal when it was copied (`Fresh`),
  and for a caller, who has had the lock since, is not terminal now (`Fresher`).
* `InputInv`: the transaction of a req is told of a post that did not fail while the
  req is on its way (`Tracks`), what a call has allocated is assigned to its action,
  and an action about to be committed has not failed (`Reserves`).  Together with all
  of the above a step either keeps the inputs of a living action or ends it, and none
  revives one that was given up.
* `NetInv` relates the rows to the network, through every result `postBeef` may give.
  What failed is not on its way, unless the network will never accept it (`Buried`,
  `Rejected`: an input is spent by what is known and stays so), and the network has it
  only by the beef of a child; an unsigned action is unknown (`Unseen`); a committed one is a
  noSend, known by its child at most, or a call is about to send it (`Early`).  What a
  post was told against a transaction is true for ever, or a double spend the refresh
  that follows finds it is not (`Judged`).
* `HoldInv`, for `AcceptedKeepsInputs`: a living action has its inputs, or is rejected
  for ever.  By the steps of `InputInv` only what fails gives its inputs up, and by
  `NetInv` a step that brings a failed action back, a stale write, brings back one that
  is rejected; what the network accepted is not.
* `ChangeInv`: an output that exists is spendable, assigned, or spent by what the network
  knows (`HasHolder`).  What is assigned to an action whose `createAction` has not
  returned is in the locals of that call (`LocalChange`); what is assigned to another is
  among its inputs (`Assigned`), so that a purge or `TaskUnFail` that looks at inputs
  sees all of it; an action with no row has nothing assigned (`Vacant`), also after the
  purge has deleted it (`PurgeVacates`).
* `FundingInv`, for `createAction` calls without any lock: what a call holds is locked
  for its action (`HeldIsLocked`), two calls work on different actions (`OwnAction`),
  the change of an action does not exist before its call inserts it (`RowsExist`), so
  `createNewOutputs` never frees a held row; inputs of finished results stay locked
  (`PlannedIsLocked`), and an output has one `spentBy`.  `FundingSpec` has no
  processed actions, hence no `noSendChange`, which the code locks without looking at
  its row.

### Locks, headers, stores, permissions, authentication

| Theorem | Statement | Argument |
|---|---|---|
| `StorageLocksProofs!Serial` | `Spec => []OneUntilRejection` | `LockInv` follows the reader queue, which every method enters first: its entries are distinct callers that have entered (`QueuedEntered`, `QueuedOnce`), whoever is past it or was told so is first (`InsideIsFirst`), and a pending wake-up belongs to a caller that waits there (`ToldWaits`) |
| `StorageLocksProofs!ImplementsAccess` | `Spec => AccessSpec` | from `LockInv`, and that whoever is inside is alone and first (`InsideAlone`), a step of the queues enters the line at its end, starts the function of its first, takes the first out, or leaves it as it is; a rejection ends the promise |
| `StorageLocksProofs!HeadIsServed` | `Spec => []FirstIsServed` | `WakeInv`, which also holds after a rejection, for all four queues: a caller goes no deeper than the queues its method takes (`AtMostWanted`), and the head of a queue was told or is past it (`HeadsNotified`), since each shift notifies the next |
| `ChaintracksUtilProofs!NobodyWaitsAlone` | `Spec => []NoLostWakeup` | `RWInv`: queues hold distinct clients that wait there (`QueuesWait`), the count of readers is their number (`Counted`), a set flag means a writer is inside or resuming (`FlagMeansWriter`), so an empty lock with a waiting client is impossible |
| `ChaintracksUtilProofs!ExclusionKept` | `Spec => LostOnlyWhileWaking` | from `RWInv` and the same invariant after the step, by the kind of step: only the fast path of somebody who comes in the gap enters beside a writer |
| `ChaintracksUtilProofs!RangesAreSets`, `ThrowsForAGap` | the operations of `HeightRange` are those on sets of heights, and it throws only where the result is no range | arithmetic, one end of the ranges at a time |
| `HeaderTasksProofs!ImplementsLive` | `Spec => LiveSpec` | every insertion of the main thread is one of `InsertNext`.  `ThreadInv` says that once live has headers it has the one on the bulk tip (`BottomKnown`), and that the header in hand is one of the tree whose parent, when asked for, is too (`AsksAboveBulk`) |
| `HeaderTasksProofs!OneChain`, `HeaviestTip` | `Spec => []OneActiveChain`, `[]TipIsHeaviest` | `LiveInv` adds that tips have no child (`TipHasNoChild`) and that a row has at least the work of any header that could stand on one of its ancestors (`WorkGrows`, by `SiblingsEqualWork`): a header with more work than the tip stands on the tip or on an inactive row, so the deactivation is complete |
| `HeaderTasksProofs!FirstSeenStays` | `Spec => TipMovesUp` | in a step from `LiveInv` the only tip changes to the new header alone |
| `HeaderTasksProofs!NoStaleProofForgotten` | `Spec => []StaleProofIsQueued` | `ProofsInv`: every block a proof rests on, or will when the task in hand has saved it, is active, pending in one of the queues, or given up (`RestedSettled`); no proof on the header in hand is dropped or replaced by the same (`Accounted`); before the listeners are called there are no proofs (`Quiet`).  The notification of a reorganization hands over each header the insertion deactivated, of which there are finitely many (`Finite`) |
| `StorageManagerProofs!ParentsAlwaysFirst` | `Spec => []ParentsFirst` | `SyncInv`: an id map names rows the writer has (`MapsHeld`), also the one of a chunk on its way (`ChunksHeld`); rows are never deleted |
| `StorageManagerProofs!UpdatesAreKept` | `Spec => NeverOlder` | no row is of later than now (`Dated`), and each kind of merge keeps the newer time |
| `PermissionsManagerProofs!NobodyIsForgotten` | `Spec => []NobodyForgotten` | `CallerInv`: a waiting caller is in exactly one entry and has a request left to ensure (`PromptsHeld`); the two ways to close an entry move all its callers on |
| `PermissionsManagerProofs!PermissionsAreFresh` | `Spec => PermissionIsFresh` | `TimesAgree`: a cache entry, a recent grant and a token found by a lookup are each no later than the time the permission was last covered, and none of them counts for longer than the lifetime of an entry |
| `PermissionsManagerProofs!TypesAreKept` | `Spec => []TypeOK` | the conjuncts of `PermissionsInv` |
| `CWIStyleWalletManagerProofs!RecoveryKeysAreSaved` | `Spec => []RecoveryKeyIsSaved` | `Sound`: a token in the overlay, a manager or a snapshot has a saved recovery key, and by each step a call has gathered enough for one that does (`SoundCall`) |
| `CWIStyleWalletManagerProofs!PasswordsOpen` | `Serial => (Spec => []PasswordOpens)` | `Sound` and `SoundCall` with the salt: between the lookup and the publication no other call on the device replaces the token it was taken from |
| `CWIStyleWalletManagerProofs!ActivesAreUnderlying` | `Serial => (Spec => []ActiveIsUnderlying)` | `AllAgree`: what a call will switch back to, at each of its steps |
| `CWIStyleWalletManagerProofs!TypesAreKept` | `Spec => []TypeOK` | conjuncts of the invariant |

**Only model-checked.**

* All liveness properties (`InFlightSettles`, `TransactionSettles`, `CallIsServed`,
  `WriterProgress`, `StaleProofSettles`, `HeadersAreAdded`, `SyncEnds`, `StartupEnds`,
  `CallEnds`): the prover has no rules for fairness and `ENABLED`.
* `FilesAdjoin`, `StorageAgrees`, `BulkLiveAdjoin`, `HeadersServed`: the list of files
  is sorted, selected from and concatenated, and what `SortSeq`, `SelectSeq` and the
  folds return needs an induction over sequences that the installed provers cannot be
  given.  The arithmetic below it is proved (`RangesAreSets`).
* `LinksKept` and `NothingLeftBehind`: the offsets into a list that changed are
  cardinalities of sets of rows, and the argument compares them over the whole history
  of a synchronization.
* What `GenerateChange`, the queries and the lists compute is evaluated over small
  universes only: they recur over sequences of rows or coins.

## 6. Not modelled, and the plan

Left out of the state machines: amounts, several users, labels, tags, certificates and
commissions (the queries have them); batches (a
batch runs the steps of one req for each in turn); rows paged by offset (one row
at a time); ages of rows, except that an abandoned row is one no call works on and
that any set of rows may be old enough for the purge.  The contents that
`purgeCompleted` clears (`rawTx`, `inputBEEF`) decide nothing here.
`TaskUnFail`'s closure is one step.  `makeAvailable` of the stores is one step (its
callers are in `StorageLocks`).  Cryptography, parsing of transactions, HTTP and SQL
are out of scope.

Next:

1. `PendingSignActions` of the wallet and signer: an action signed twice, one forgotten.
2. `Chaintracks`, continued: readers and `destroy` with the two locks, composed with
   `SingleWriterMultiReaderLock`; live headers of the in-memory storage and with
   siblings of unequal work.
3. `HeaderTasks`, continued: restart, and proofs from blocks that are not active.
4. Which queues each method of the storage manager takes, and remote storage.
5. Reqs as the IndexedDB storage gives them to the monitor tasks, without their status.
