# A TLA+ specification of opendal-indexeddb

The crate is an OpenDAL service that keeps objects in a browser's IndexedDB.
It is a small program with three hard parts:

- every call is a transaction over **two** object stores, the data store and a
  sidecar of metadata, which must stay in step through conditional writes,
  retries, reloads, storage quotas and records of older releases;
- a transaction needs a **connection**, and IndexedDB upgrades a database only
  when all connections are closed, in all tabs, so caching connections and
  upgrading the schema work against each other;
- a **listing** is a sequence of transactions over ranges of keys, folded into
  directories, cut by a limit and resumed by its caller, while others write.

The project models these, the builder and the adapters around them, checks them
with TLC, and proves with TLAPS what can be proved for all sizes.

Paths below are relative to the crate; `core.rs` is `src/backend/core.rs`, and
so on.

## 1. Inventory

| Component | Source | State | Operations | What makes it correct |
| --- | --- | --- | --- | --- |
| Entries and conditions | `meta.rs`, `access.rs` | none (pure) | ETags, content metadata, `check_etag`, `check_modified`, byte ranges | conditions mean the same whatever kind of record is in place |
| Transaction bodies | `core.rs`, `connection.rs:140-218`, `meta.rs` | the two object stores | `read`, `set`, `delete_many`, `stat`, `copy`, `rename`, `scan_page` | data and sidecar agree; a write decides on the state it replaces |
| Transaction runner | `core.rs:225-288` | the attempt | `run_transaction`, `cached_transaction` | a call takes effect at most once, and ends |
| Connection cache | `connection.rs:12-133`, `core.rs:186-219` | `CONNECTION_CACHE`, generation, one cleanup task per connection (thread-local) | cache, evict, expire, clean up | no connection is leaked, none is used that lacks the stores, idle ones close |
| Version upgrade | `core.rs:82-184`, `connection.rs:27-35` | the upgrade lock of a database in a realm | probe, upgrade loop, time-out | a realm does not block itself, races are retried, calls end |
| Listing | `core.rs:36-69`, `core.rs:623-782`, `io.rs:17-122`, `access.rs:205-231` | cursor of the lister (`start_after`, buffer, `done`) | pages, skipped prefixes, limit | every key once and in order |
| Key order and prefix bounds | `connection.rs:140-170` | none | `recursive_delete_target`, `prefix_upper_bound` | the range is the subtree |
| Writer, deleter | `io.rs:124-197` | the buffers of writer and deleter | write, close, abort; batches | what was collected is stored or deleted whole, once, also after an error |
| Access layer | `access.rs` | root | maps requests to the above | an operator stays below its root |
| Builder, configuration | `builder.rs`, `config.rs` | none | validation, defaults | operators that share a database do not meet in each other's stores |

**How they interact.** Every call goes through `run_transaction`, which awaits
`ensure_cached_client` (cache, lock, `open_client`), builds a transaction from
the cached connection and awaits it. Tasks of one realm (tab or worker) share
the thread-local cache and lock and interleave only at `await`s. Realms share
nothing but the database: its committed stores, its version, and IndexedDB's
rule that an upgrade waits for every connection to close.

**What is hard.** Interleavings of tasks and tabs around the cache, the lock
and the version; a transaction lost with its connection and run again; failures
and reloads between two writes; records of older releases, orphaned or damaged
sidecars; an upgrade that times out; cleanup tasks that outlive the connection
they were started for, and sleep on timers while expiry reads the wall clock;
calls that are dropped half-way; order and boundaries in the listing.
`PROJECT.json` lists these hazards at their lines with the properties
that cover them.

## 2. The modules

| Module | What it is |
| --- | --- |
| `Objects` | vocabulary: bytes, ETags, calls, conditions, results |
| `ObjectStore` | **abstract specification**: one map of objects; calls take effect at once and at most once |
| `Core` | the transaction bodies of `core.rs`, each a function from both stores to both stores and a result |
| `TxnStore` | `run_transaction`: clients, transactions, failures; refines `ObjectStore` |
| `TxnStore_proofs` | proofs about `TxnStore`: isolation, the sidecars, and the refinement of `ObjectStore` |
| `ConnectionCache` | **abstract specification** of a realm's cache: a slot, its generations, their cleanup tasks |
| `Connection` | connection cache, cleanup tasks, upgrade lock, `open_client`, IndexedDB's open queue; refines `ConnectionCache` in each realm |
| `Connection_proofs`, `Upgrade_proofs` | proofs about `Connection`: who refers to a connection, the refinement of `ConnectionCache`; the upgrade loop |
| `CacheTimer` | the cache with wall clock and timers; refines `ConnectionCache` |
| `CacheTimer_proofs` | proofs about `CacheTimer`, with the refinement of `ConnectionCache` |
| `Keys` | strings in the orders of Rust and of IndexedDB, prefix bounds, ranges, recursive deletes |
| `Keys_proofs` | proofs that both orders are total orders, ranges are prefixes and recursive deletes subtrees |
| `Listing` | listings and walks: `scan_page`, lister, folding, limit, with concurrent writers; over `Keys` |
| `Listing_proofs` | proofs that listings and walks are truthful, in order and complete |
| `Backend` | operators built side by side, their calls on keys below their roots; over `Keys` |
| `Backend_proofs` | proofs that operators are isolated and deletes exact |
| `Adapters` | writers and deleters, composed with `ObjectStore` |
| `Adapters_proofs` | proofs that closing again neither loses nor repeats anything |
| `MCTxnStore`, `MCConnection`, `MCListing`, `MCBackend`, `MCAdapters` | instances for TLC |

The modules fit together as the code does: `Adapters` stands on `ObjectStore`,
which `TxnStore` implements; `TxnStore` takes from a connection only that it may
be lost at any point before the commit, which is what `UseCached`, `LoseCached`,
`Deliver` and `TransactionAborted` of `Connection` may do to a call; `Connection`
uses the cache as `ConnectionCache` describes it, which `CacheTimer` implements.

### TxnStore

`data` and `meta` are the committed object stores. A client goes
`idle -> calling -> queued -> active -> done`:

- `Invoke` is the call; `Shortcut` the calls that return before a transaction is
  opened (`core.rs:535`, `793`, `906`).
- `CreateTransaction` is a successful `ensure_cached_client` and
  `cached_transaction`: the transaction exists, but IndexedDB has not started
  it. `ahead` holds the live transactions created before it.
- `Run` starts it (`Startable` is IndexedDB's rule: same scope, so a readwrite
  transaction waits for all earlier ones and a readonly one for readwrite ones)
  and computes the whole body. One step is enough: no other transaction can
  write what it reads until it ends. That no conflicting commit comes
  between is not assumed but follows from `Startable` and from `readwrite`, the
  mode each call asks for; `SnapshotCurrent` states it.
- `Commit` installs both stores and returns. `Panic` is a put beyond the storage
  quota, which panics inside `indexed-db` (README of the crate, "Known
  limitations"): rolled back, and the call never returns.
- `LoseConnection` (no usable connection or a stale-connection error, first
  attempt only) and `Fail` (any other error, or the last attempt) roll back.
  Why a connection is lost is the subject of `Connection`; here it may be lost
  at any point before the commit.
- `Reload` drops a call at any point. A transaction that commits although its
  caller is gone is `Commit` followed by `Reload`.
- `Legacy` is a tab with a release older than the sidecar: it deletes data and
  leaves the sidecar orphaned, or writes where no sidecar is.

Bytes are sequences over `Byte`; an ETag is a record of the bytes it hashes
(BLAKE3 is taken to be injective); content type and user metadata are fields
with abstract values; `Date.now()` returns any member of `Times`, also an
earlier one than before. A damaged sidecar is `BadMeta`, a value that is no
byte array `NotBytes`. The initial stores are any that satisfy
`SidecarMatches`, since the database outlives the program.

Taken from outside: `Transaction::run` of `indexed-db` 0.4.2 answers `Ok` only
after the commit, and an error only when nothing was committed.

### Connection

One poll of a task is one step, because a realm is single-threaded; the only
polls cut in two are those in which `run_transaction` goes round its loop again,
so the model has a few interleavings more than the code.

- `cache`, `generation`, `cleaners` and `lock` are the thread-locals of each
  realm; `fresh` stands for `!cached_connection_expired`, and `Expire` for the
  clock.
- `Call`, `UseCached`, `LoseCached`, `WaitForLock`, `OpenClient` and `Deliver`
  are `run_transaction` with `ensure_cached_client`; `Probed`, `RequestUpgrade`,
  `UpgradeLost`, `UpgradeFailed` and `Timeout` are `open_client`;
  `EndTransaction` and `TransactionAborted` are the end of the awaited
  transaction; `Cleanup` is the last round of `spawn_cache_cleanup` (rounds
  that only go back to sleep change nothing).
- `requests` is IndexedDB's connection queue: the requests to open a database
  are answered in order, and an upgrade at the head waits for all connections to
  close. A request cannot be withdrawn: when the future that waits for it is
  dropped (`Timeout`, `Cancel`), it stays (`wanted = FALSE`) until its turn comes.
  An upgrade is then rolled back; a plain open leaves a connection that nobody
  refers to.
- Connections are `open`, `closing` (closed, but a transaction still runs),
  `dropped` (open, but nobody refers to them), `dead` (closed by the browser,
  still referred to) or gone. The first three block upgrades.
- `Cancel` drops the future of a call while it waits for the lock or for
  IndexedDB: the lock's guard goes with it and its request stays in the queue. A
  connection that had just been opened for it is closed by nobody: it is
  `dropped`, until `Collect`, the browser's garbage collector, closes it.
- Third-party code may open, keep, close and upgrade the database; the browser
  may fail an open or close a connection by force; realms are reloaded.
- `excuses` is a history variable: the rival upgrades and failed opens a task
  has seen in its upgrade loop.

### ConnectionCache and CacheTimer

`ConnectionCache` has a slot (`gen`, `fresh`), the generation counter and the
generations that have a cleanup task. `Cleanup(g)` is its point: a task ends only
when its own connection is gone or has expired, and closes no other.

`CacheTimer` has what `Connection` leaves out: `Date` is `Date.now()`, the wall
clock, which `SetForward` and `SetBack` set; `now` is the time that timers
follow. `cache_connection`, `evict_cached_connection`, `Use`
(`cached_client_has_stores`, `cached_transaction`) and `Cleanup` (a round of
`spawn_cache_cleanup`, from waking to sleeping) are the functions of
`connection.rs`. `Tick` does not pass a timer that is overdue by `Late`. `used`
and `back` are history.

### Keys and Listing

A path is a sequence of code points, so that the two orders (`str_less`: UTF-8,
`idb_less`: UTF-16) and the code points without a successor
(`prefix_upper_bound`) are what they are in the code.

In `Listing` the stores are the sets of keys that have an entry and a usable
sidecar. `scan_page` is one readonly transaction: `OpenScan` begins it,
`FetchKeys` is a round of its loop `'scan`, which fetches a batch, `ScanKey` the
loop over the keys of the batch, and `FetchPage` ends it and hands the page over.
`scan` holds the locals of the loop; while it is not `None` nobody else can
commit. `Emit` pops the lister's buffer, folds the path
(`HierarchyLister`, as OpenDAL does) and counts; `End` is `None`, at the limit or
after the last page. A failed `scan_page` leaves the lister as it was and is a
stuttering step. `ListMore` is the caller's loop of `src/test.rs:1011-1026`, which
resumes after the last entry until a listing is empty: a *walk*. Others write,
delete and rename (`Others`) between any two pages, also tabs of releases without
the sidecar. `held`, `kept` and `seen` are history: what the listing and the walk
owe (`Owed`), and what was true of each key at some time.

### Backend

`build` is `IndexeddbBuilder::build` on configurations that may be empty, default
or reserved, with OpenDAL's `normalize_root`; a record is abstracted to the operator that wrote it last, and a
call to one atomic step (that it is one is the subject of `TxnStore`). `Set`,
`CreateDir`, `Copy`, `Rename` and `Delete` translate paths as `access.rs` does;
`Delete` is `delete_many`, with the key ranges of `Keys`.

### Adapters

`Write`, `Close`, `CloseReturns`, `Abort` are `IndexeddbWriter` and its user;
`Queue`, `CloseDeleter`, `FlushReturns` are OpenDAL's `BatchDeleter` over
`IndexeddbDeleter`. Calls go to `ObjectStore`: `Serve` lets one take effect and
`Refuse` lets it fail. A user may try again after an error, and `Abandon` takes
it away in the middle of a call.

## 3. What is checked

| Run | Instance | Properties | Shows |
| --- | --- | --- | --- |
| `txn_writes` | 2 clients, 1 path, 8 calls, quota 2, fairness | `TypeOK`, `SnapshotCurrent`, `ConditionalWrites`, `Implements`, `CallsReturn` | appends and compare-and-swap writes of contending writers are isolated and linearizable, and return |
| `txn_moves` | 2 clients, 2 paths, 9 calls, quota 1 | `SidecarMatches`, `WritesLeaveSidecar`, `NoNewOrphans`, `Implements` | copy, rename and recursive delete keep the stores in step from any mix of records |
| `conn_tabs` | 2 tabs, 1 task each, 1 call, fairness | `TypeOK`, `NoLeak`, `RetriesHaveRivals`, `CallsEnd`, `IdleConnectionsClose` | tabs race and wait for each other without leaks and not for ever |
| `conn_tasks` | 1 tab, 2 tasks with different stores, 2 calls | `NoLeak`, `NoSelfBlock`, `TransactionsHaveStores`, `CacheIsWatched`, `ImplementsCache` | operators of one page share the cache and the lock safely |
| `conn_blocked` | 1 tab, 2 tasks, third-party code that may not close | `RetriesHaveRivals`, `CallsEndOrStuck` | the time-out ends every call that does not stand behind an abandoned request |
| `conn_blocked_again` | 1 task, 2 calls, the same | `CallsEnd` is **violated** | see section 4 |
| `cache_times` | 2 connections, TTL 3, clock set by up to 2 | `TypeOK`, `IdleBounded`, `NoSpin`, `Implements` | idle connections are closed in time, whatever tasks of earlier ones do |
| `list_walks` | 11 keys, 2 of them busy, pages of 1 and 2, fairness | `TypeOK`, `ListComplete`, `WalkComplete`, `WalkInOrder`, `ListSound`, `WalkEnds` | walks are complete, ordered, truthful and finite, from any starting point |
| `list_utf16` | 2 keys on which the orders differ | `WalkComplete` is **violated** | see section 4 |
| `list_resume` | 1 key, resumed after its directory | `ListComplete` is **violated** | see section 4 |
| `backend` | 2 operators, 11 configurations, 3 files, 2 directories | `TypeOK`, `Isolation`, `DeletesSubtrees` | operators stay in their stores and below their roots |
| `adapters` | 2 writers, 1 deleter, batches of 2 | `StoredOnce`, `StoredWhole`, `DeletesDone` | nothing is lost or stored twice by closing again |

The properties in words:

- **`Implements`**: through the refinement mapping `TxnStore!Object` the two
  stores are one map of objects without sidecars, whose sizes and ETags are
  computed from the bytes, and every call takes effect at one moment, once or
  (with an error) not at all. It carries the correctness of all bodies: what is
  reported for orphans, damaged sidecars and legacy records, what a retried
  append leaves, what a conditional write compares.
- **`SidecarMatches`**: a usable sidecar has the length and the ETag (if any) of
  the bytes beside it.
- **`SnapshotCurrent`**: what an active transaction has computed is what its
  body computes from the stores as they are now.
- **`ConditionalWrites`**: a successful conditional write found the bytes, the
  absence or the presence that it asked for at the moment it was committed.
- **`WritesLeaveSidecar`**, **`NoNewOrphans`**: writes, copies and renames leave
  complete sidecars, and no call orphans one.
- **`NoLeak`**: a connection is cached, or on its way to the task that asked for
  it, exactly if it is not closed. The exception are connections that were left
  behind by dropped calls: nobody refers to them, they block upgrades until they
  are collected, and so the liveness properties have to bear them.
- **`NoSelfBlock`**: while a task prepares an upgrade, its realm holds no other
  open connection (the comment at `core.rs:80-81`), but for what dropped calls
  have left to the collector.
- **`TransactionsHaveStores`**: a running transaction is on a live connection
  with its stores, whoever evicts it from the cache meanwhile.
- **`RetriesHaveRivals`**: each lost round of the upgrade loop is explained by a
  rival's upgrade or a failed open.
- **`CacheIsWatched`**, **`IdleConnectionsClose`**: the cached connection has a
  cleanup task of its generation, and in the end it is closed.
- **`CallsReturn`**, **`CallsEnd`**: termination. **`CallsEndOrStuck`**: where
  third-party code may keep a connection for ever, a call that never ends has an
  abandoned upgrade request at the head of IndexedDB's queue for ever.
- **`ImplementsCache`**, `CacheTimer!Implements`: the two refinements of
  `ConnectionCache`.
- **`IdleBounded`**: a cached connection has been idle for no longer than the
  TTL, a millisecond, the lateness of a timer and what the clock was set back.
- **`NoSpin`**: a cleanup task that goes on sleeps.
- **`ListComplete`**: a listing that stops short of its limit has returned every
  key that was there all the time. **`WalkComplete`**: so has a walk, across its
  limits. **`WalkInOrder`**: in IndexedDB's order, so without duplicates.
  **`ListSound`**: what is returned was true of that key at some time of the
  listing. **`WalkEnds`**: whoever writes meanwhile, the walk ends.
- **`Isolation`**: no call of an operator changes what an operator with another
  data store, or with a root beside its own, can see. **`DeletesSubtrees`**: a
  batch removes exactly the paths it names, with what is below them if recursive.
- **`StoredOnce`**, **`StoredWhole`**: a closed writer has stored all it was
  given, once, however often its close failed. **`DeletesDone`**: a closed deleter
  has deleted all it was given.

### Bounds, and why they are enough

- *TxnStore.* Two clients: isolation and linearizability are violated by two
  calls that overlap, and a tab that calls again while an old transaction is
  pending is a second client. One byte, payloads up to three of it (four after
  an append), and a quota of 1 or 2, so that some writes are stored and others
  exceed it. Two paths, one below the other, for moves and subtrees. `Calls`
  are chosen so that each condition, each outcome and each branch of a body
  occurs; `MCTxnStore!Entries` has one record of each kind a database can
  hold. Clients are symmetric, and symmetry is used for safety runs only. The
  state space is finite without a bound on the number of calls.
- *Connection.* `UpgradeTries` is 2 where the code has 8: the rounds of the loop
  are alike, and 2 gives a first, a second and a last one. `MaxCalls` (calls
  per task) and `MaxForeign` (acts of third-party code) bound the runs;
  deadlock is not checked since the tasks stop after their last call. `Conns`
  is a pool of identities, reused when a connection is gone: a request is
  answered with a new connection only while there is one (`Room`), and in the
  instances there always is.

- *CacheTimer.* TTL 3, `Late` 1 and `MaxTime` 12 leave room for two connections
  that are used and expire one after the other. Times are in ms; the code's TTL
  is 500, which changes no comparison.
- *Listing.* A page is as long as the limit, or 2 keys without one (in the code
  four times the limit and 1024): pages are cut in more places than the code's
  ever are. `Foreign` is a key that is no string. The keys lie before, beside and
  behind the listed directories, in one that is folded, and at the boundaries:
  `d/s-` between `d/s` and `d/s/`, and names that end in U+00FF, which has no
  successor. The resumption of `list_resume` is left out of `list_walks`.
- *Backend.* Two operators, since isolation is about pairs. One has one of two
  configurations, the other one of nine.
- *Adapters.* A writer is given up to `MaxBytes` bytes; a batch of 2 is full
  after two paths and not after one.

### Fairness

- `TxnStore!FairSpec`: each client's own steps are weakly fair: the browser
  starts transactions that may start and reports how they end, and the executor
  polls woken tasks. Failures, reloads and old tabs are not fair.
- `Connection!Fairness`: tasks are polled, the 10 s timer fires, the wall clock
  advances, cleanup timers fire, and the browser serves a request it can serve
  and collects garbage in the end (`Collect`). The last is not promised by any
  standard; without it a connection left by a dropped call could block upgrades
  for as long as its tab lives. A failed open, a forced close, a reload are not
  fair.
- In `Connection`, `FairSpec` adds that third-party connections are closed in the end;
  `StubbornSpec` does not, and the time-out has to do.
- `Listing!WalkerFairness`: the walker goes on until it has seen an empty listing
  (weak fairness of its steps, written out so that TLC need not compute
  `ENABLED`). The others are not fair and may write for ever.

## 4. What the checks found

`conn_blocked_again`: the crate's README, "Multi-tab behavior", says that when a
connection blocks a required upgrade the service "returns an `Unexpected` error
after 10 seconds instead of leaving the operation pending forever". The first
call does (`conn_blocked`). But the upgrade request it abandons
(`core.rs:134-142`) cannot be withdrawn and stays at the head of IndexedDB's
connection queue. The next call probes the database with `open_latest_version`
(`core.rs:176`, also `:96`), which has no time-out and waits in the queue behind
it, with the upgrade lock held, so that this call and every other one of the
realm wait as long as the blocking connection stays open.

`list_utf16`: `scan_page` passes over keys that are not greater than `start_after`
by Rust's order, UTF-8 bytes (`core.rs:705`), but IndexedDB's is UTF-16. U+1F600
comes before U+FF21 there and compares greater: a walk that resumes after the
first passes over the second. `src/test.rs:1011` says that "Paginating with limit
+ start_after walks the whole set in order." `list_walks` shows it for keys on
which the orders agree.

`list_resume`: a non-recursive listing takes a `start_after` that ends in `/` for
a folded directory to skip (`access.rs:210`), also when it is the listed directory
itself. All keys then have the skipped prefix and the listing is empty
(`core.rs:718-729`). `src/test.rs:1042-1044` says that "every key that sorts at or
before it is skipped, and listing continues from the next key inside the listed
prefix."

Two more limits, which no run shows: a limit of 2^30 makes `list_page_size` 0
(`io.rs:20`, on 32 bits), and nothing is listed; and a wall clock that is set
back lets a connection outlive its TTL by as much (`connection.rs:78`), which is
the `back` of `IdleBounded`.

## 5. What is proved

Every safety property of the runs, invariant or action property, and every
refinement is a theorem of its specification, for all values of the constants.
A proof module has the name of what it is about. Its named assumptions say what
the constants are, and that `None` and the other markers differ from the values
they stand beside; those that say more are named below.

### TxnStore_proofs

`TypeCorrect`, `SidecarCorrect` (`SidecarMatches`), `TransactionsIsolated`
(`SnapshotCurrent`), `CallsAreAtomic` (`Implements`), `WritesAreConditional`
(`ConditionalWrites`), `SidecarsAreWritten` (`WritesLeaveSidecar`),
`OnlyOldTabsOrphan` (`NoNewOrphans`).

- `SidecarMatches` is not inductive: it says nothing of the views of active
  transactions, which `Commit` installs. `IInv` adds `ViewsMatch`, that each view
  has matching stores too. The lemma `BodyOK`, with one lemma per body under it,
  says that a body which starts from matching, well-typed stores yields such.
- `SnapshotCurrent` needs that no transaction commits a change while another is
  active. `SInv` adds `Isolation`: of two live transactions that conflict one is
  ahead of the other, and an active one is ahead of all it conflicts with; a
  readonly body changes nothing (`BodyReadonly`), so its commit disturbs no view.
- The refinement. `RInv` adds to `SInv` that a call has no result before it is
  done (`NoResultYet`) and that the calls which return early never get a
  transaction (`NoEarlyCall`). Each body, run on stores that match, is the
  operation of `ObjectStore` on the objects they stand for: a lemma per body.
  `Commit` is then the step in which the call takes effect, because the view it
  installs is current; `Shortcut` and `Fail` are effects too, and every other step
  of an attempt stutters, so a retry is invisible.
- The action properties follow from the same simulation: a step in which a
  call succeeds out of a transaction is its `Commit`, of what its body makes of the
  stores as they are (`SuccessCommits`).

Assumed beyond markers: a path is in its own subtree (`PathsAssumption`), and
`Date.now()` has a value (`TimesAssumption`). The invariants hold without tabs of an
older release that overwrite entries with a sidecar (section 6).

### Connection_proofs and Upgrade_proofs

`TypeCorrect`, `NothingLeaks` (`NoLeak`), `RealmDoesNotBlockItself`
(`NoSelfBlock`), `StoresWhileRunning` (`TransactionsHaveStores`), `CacheWatched`
(`CacheIsWatched`), `CachesImplement` (`ImplementsCache`), and in `Upgrade_proofs`
`LosersHaveRivals` (`RetriesHaveRivals`).

- `CInv` says who may refer to a connection. It is the conjunction of `TypeOK`,
  `NoSelfBlock` and `Owned`, the half of `NoLeak` that says what is open has
  somebody who refers to it, with facts that none of them can do without.
  `Cached`: a cached connection belongs to its realm and has not been closed by it.
  `Replied`: one that was just opened has no user yet and a task that waits for
  it. `Queued`: a request that is wanted is the only one of a task that waits.
  `Used` and `Runs`: a task uses a connection of its realm that has its stores,
  one at a time, and just while it runs a transaction. `CInv` is inductive, with
  a lemma per action. `NoLeak` follows: its other half, that nobody refers to
  what is closed or dropped, is in `Cached` and `Replied`.
- `TransactionsHaveStores` is `Runs` and `Used`. `CacheIsWatched` and
  `CachesImplement` rest on `CacheMoves`: under `CInv` each step does to the cache
  of each realm one of six things, which keep the task of the current generation
  and are steps or stutters of `ConnectionCache`.
- `RetriesHaveRivals` compares two counters at the end of a loop that others
  interleave with. `Ahead` carries it round: whatever a task has asked for, or been
  answered, is ahead of the version of the database, unless an upgrade of a rival or
  a failed open explains why not (`Explained`).

The theorems hold for every value of `UpgradeTries`, `MaxCalls` and `MaxForeign`
and every pool of connections, so for no particular bound of the runs.

### CacheTimer_proofs

`TypeCorrect`, `IdleConnectionsBounded` (`IdleBounded`), `CleanupSleeps`
(`NoSpin`), `TimersImplementCache` (`Implements`), for every TTL, lateness and
setting of the clock. `IdleBounded` is not inductive: it needs that the cached
connection has a cleanup task that wakes in time (`Watched`) and that no timer is
overdue by more than `Late` (`OnTime`); `IInv` is `TypeOK`, `Watched` and `OnTime`.

### Keys_proofs

- `PrefixRange`: where `prefix_upper_bound(p)` is a bound, the IndexedDB range
  from `p` to it holds exactly the keys that start with `p`. The bound increments
  a code point; the proof shows that no code point lies between the two in
  UTF-16 order either, for which the excluded code points (those whose last byte
  cannot be incremented) matter at the surrogates and at the end.
- `RecursiveDelete`: what a recursive delete of `p` leaves of a set of keys,
  whatever the data store beside it holds: its prefix, empty or ending in `/`, has
  a bound, and the cursor is not reached.

The lemmas that `Listing_proofs` rests on are here too: IndexedDB's order is a
strict total order, a prefix comes first, and the keys of a prefix are convex.

### Listing_proofs

`TypeCorrect`, `ListingsSound` (`ListSound`), `WalksInOrder` (`WalkInOrder`),
`ListingsComplete` (`ListComplete`), `WalksComplete` (`WalkComplete`). Each
invariant contains the one before it.

- `Sound`: the lister works on its request, a running scan on the stores as they
  are, and what is buffered was so at some time.
- `InOrder` says of all that is still to come, in the buffer (`BufferAhead`) or in
  the range that the scan has left (`ScanAhead`), that it is shown behind all that
  was returned, or in a directory that was. Folding does not get in the way because
  the keys of a directory are convex (`PrefixConvex`, `ShownInOrder`). There is no
  hypothesis on the strings: where the two orders disagree keys are lost, but
  what is returned is in order.
- `Complete` says of every key that is owed and still there that it has been
  returned, is in the buffer, or is ahead of the scan (`HeldComing`); that at the
  end only the limit explains a missing one (`HeldEnded`), and then it is behind all
  that was returned; and that what earlier listings of the walk did not return is
  owed by this one (`KeptWalked`).

The last two theorems have hypotheses. `OrdersAgree`: the keys and requests use
either no code point that UTF-16 writes with surrogates or none from above the
surrogates (U+E000 to U+FFFF); these are the largest sets of code points on which
the two orders agree, and `prefix_upper_bound` stays within either. `AllAdvance`:
a page has room for a key, and no listing resumes at the listed directory or
above it. `WalksComplete` also asks for limits other than 0. Without them the
theorems are false: the run `list_utf16` violates them where the orders disagree,
`list_resume` where a listing resumes at its directory, a limit of 2^30 leaves no
room for a key (section 4), and a listing of no entries ends a walk at once. The instance of `list_walks`
satisfies them all.

### Backend_proofs

`TypeCorrect`, `OperatorsIsolated` (`Isolation`), `DeletesAreExact`
(`DeletesSubtrees`). `BInv` adds to the types that no operator's data store is named
like a sidecar store (`Roles`), which is what `build` checks for; then two operators
with different data stores share no store, and with the same one their roots keep
them apart, since no key is below both. `Normalized` says that a root is empty or
ends in `/`, however it is spelt: `normalize_root` picks the code points it keeps
by their number, and `Counted` that there is one of each number. That a batch removes what it means
is `Keys_proofs!RecursiveDelete` for each of its members. `ConfigAssumption` says that
the default names are names.

### Adapters_proofs

`WritersStoreOnce` (`StoredOnce`), `WritersStoreAll` (`StoredWhole`),
`DeletersDelete` (`DeletesDone`). `AInv` follows a writer (`WriterInv`: the buffer
is what was written until it is closed, and something has been stored exactly if
the call is done and reports success) and a deleter (`DeleterInv`: what is owed is
covered by the buffer, and so by the batch that was sent) through calls that fail,
are repeated and abandoned. Beside the types of the constants it assumes that a
client is either a writer or a deleter (`RolesAssumption`).

### Only model-checked

- Liveness: `CallsReturn`, `CallsEnd`, `CallsEndOrStuck`, `IdleConnectionsClose`,
  `WalkEnds`. Fairness and `ENABLED` are beyond the prover.
- The three violations of section 4.

## 6. Not modelled

- The stat of the root, which is a constant; the capability table; `entry_metadata`
  and the conversion of records to OpenDAL's types; reading a range as a stream.
- A tab of an older release that overwrites an entry *with* a sidecar: the
  sidecar then describes other bytes and no code can notice. `Legacy` leaves
  this out, and the invariants hold only without it.
- `META_JOIN_MIN_SIZE`: whether sidecars are read by one cursor or one by one,
  within one transaction, makes no difference to what is read.
- Setting the clock in `Connection`: its liveness assumes that the clock advances;
  what setting it does is in `CacheTimer`. Delays of more than 32 bits.
- Deletions without an upper bound: `delete_prefix_by_cursor` is in `Keys` and
  walks the keys of the data store as the code does, but no call reaches it. The
  prefix of a recursive delete is empty or ends in `/`, which has a successor.
- `f64` sizes above 2^53 and `u32` ranges: far beyond what a record can hold.
- Hash collisions.

## 7. Plan

All components with state are modelled, and every safety property of the runs is
proved. What is left:

1. What `Connection` may do to a call is compared with what `TxnStore` allows in
   section 2 in words. As a theorem it would be a refinement from `Connection`, without
   the stores, to the life of a call: `calling`, `queued`, lost once at most.
2. Lemmas for liveness that need no fairness: the invariants by which a step that
   the fairness assumptions give is enabled in time.
