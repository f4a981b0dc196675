# A TLA+ verification of reports-server

reports-server is a Kubernetes aggregated API server that keeps policy reports
(`PolicyReport`, `ClusterPolicyReport`, `EphemeralReport`,
`ClusterEphemeralReport`) in etcd or Postgres instead of the cluster's own etcd.
This directory holds TLA+ modules that model it, TLC configurations that check
them on small instances, and TLAPS proofs for all values of the constants.

## The system

| Part | State | Operations | Talks to |
|---|---|---|---|
| REST storages `pkg/api/{polr,cpolr,ephr,cephr}.go` | none but the locals of each running handler | Get, List, Create, Update, Delete, DeleteCollection, Watch | store, counter, broadcaster |
| Resource versioning `pkg/storage/versioning.go` | one counter per process, in memory | SetResourceVersion, UseResourceVersion | - |
| Broadcaster (k8s.io/apimachinery, one per kind) | queue of events, registered watchers and their channels | Action, Watch, WatchWithPrefix, Stop | watch clients |
| Storage interface `pkg/storage/api` | - | Get, List, Create, Update, Delete of each kind | - |
| etcd backend `pkg/storage/etcd` | keys in etcd, one mutex per kind and process | the interface | etcd |
| Postgres backend `pkg/storage/db` | a table per kind, one mutex per kind and process | the interface | primary, read replicas (`multiDB.go`) |
| In-memory backend `pkg/storage/inmemory` | a map and a mutex per kind | the interface | - |
| Start-up `pkg/app`, `pkg/server`, `pkg/storage/db/new.go` | connections, tables, the answer of the probe | configure, ping, create tables, migrate, install, probe | databases, Kubernetes |
| Migration `pkg/server/config.go` | four goroutines that follow the upstream reports | copy upstream reports, follow their changes, move the counter | Kubernetes, store, counter |
| OpenAPI definitions `pkg/api/generated/openapi` | - | found by the API server when it builds its document | API server |
| Metrics, tables, codecs | none that another part reads | - | - |

What is hard in it, and what has to be true:

- Handlers run concurrently and hold no lock from beginning to end. A handler
  reads the store, takes a resource version, writes the store and broadcasts, and
  others run in between. Watchers have to end with what the store holds; the
  handlers of one process must not give two reports the same version.
- `Watch` lists and then registers, in two steps.
- A store call can fail before or after the database took it; Postgres accepts an
  update of a row that is not there; a forced update (server-side apply) ignores
  every error and the dry-run flag.
- `DeleteCollection` is a list and many deletes; it must not answer ok when one is left.
- etcd's Create and Update are two requests; the mutex that joins them belongs to
  one process. All kinds share one keyspace, all clusters one set of tables.
- Read replicas lag, fail, and may break off in the middle of an answer, which the code
  takes for its end; every read of a handler, `Watch` and `DeleteCollection` meets them.
- A full channel of one watcher stops the broadcaster, and with it the handlers.
- A restart forgets the counter, the watchers and everything in flight.
- Migration runs before, and its goroutines beside, the serving of requests; a
  start may follow one that died half way, and the API service may be installed
  at any moment, from when on the migration's requests reach the server itself.
- Databases come and go while a start pings them.

`PROJECT.json` lists these one by one as hazards, each at its line.

## Modules

**Versioning** - the counter, as three operators on a number. Every method holds
the counter's mutex throughout, so each is one step.

**ReportsApi** - the REST storages in one server process.

| Variable | Code |
|---|---|
| `store` | what the backend holds, by key (kind, namespace, name); a report is its version and a value that stands for the rest, labels included |
| `behind` | earlier states of it that a read replica of Postgres may still show; always empty on etcd |
| `version` | `resourceVersion.version` |
| `req[c]` | the locals of the handler that goroutine `c` runs, with its place and, when idle, the last answer |
| `watch[w]` | a watch connection: unregistered, listed (between List and WatchWithPrefix), registered; what its client knows (`view`) and of which keys it cannot know (`blind`) |
| `used` | ghost: versions this process has written |
| `left` | ghost: of what each client's DeleteCollection has listed, what nobody has deleted since |
| `unsettled` | ghost: keys whose last event may be in the wrong order, have no write behind it, or be missing |

A handler is cut where another goroutine can be seen: at the read of the store
(`UpdateBegin`, `DeleteBegin`, `CollectBegin`), at `UseResourceVersion`
(`CreateBegin`, `UpdateMerge`), at the store's write (`CreateStore`,
`UpdateStore`, `DeleteStore`) and at `broadcaster.Action` (`Announce`). Validation
and its field-validation modes, dry run, a missing name, a version that does not
parse, and each early return with the code's own answer are in these actions. The
four kinds are instances of the same handlers (`PolrCreate`, `CpolrCreate`, ...) that
differ in the answers of Create and in the namespaces a list can name, as the
four files do. `Restart` ends the process at any moment.

Abstracted: UID, timestamps, generation, annotations and the wording of errors.
What `objInfo.UpdatedObject` returns comes from the API machinery: any value, or
an error. For a forced update it is assumed to be able to return an object
although the old one was not found. A label selector is a set of values. An event
reaches all registered watchers of its kind in the order of the Action calls
(which is what **Broadcast** shows), so a watcher is modelled by the result of
applying its events. `broadcaster.Action` is one step here; that it waits while the
broadcaster's queue is full is a question of **Broadcast**, and ReportsApi asks nothing
about when a handler gets on.

A store call is one step. On etcd, with one server, calls are atomic, which is what
**EtcdStore** shows. On Postgres (`StrictUpdate = FALSE`) the writes are single statements
on the primary, but a read is atomic only without replicas and with unbroken answers
(`Plain` of **PostgresStore**), so it is modelled as it is: `Read` and `Listed`
take any state in `States`, the primary's or an earlier one that a replica shows
(`multiDB.go:26-67`), and of a list any part may arrive (`BrokenStreams`,
`db/polr.go:66`). This holds for Get, for the old report of Update and Delete, for the list
of DeleteCollection and for the list that a Watch begins with. A watch with a selector or a namespace gets all live
events, as in the code, which filters only the list. The counter is a natural
number; that `uint64` does not wrap is assumed. The goroutines of the migration,
which write to the same store without a broadcast and with versions of the cluster,
are outside this module, as if no report were left to follow: they are in **Migration**,
and a watcher hears nothing of what they write.

**ReportStore** - what a backend promises, as an abstract specification: a call
is invoked, takes effect at one moment (or is refused, or fails with or without
its effect), and returns.

**EtcdStore** - the etcd backend for one kind: `mutex` per process, `thread[c]` per
goroutine, and one action per request to etcd (`CreateCheck`, `UpdateCheck`,
`Put`, `Get`, `List`, `Delete`), with `Lock` and the deferred `Unlock`. `Abstract` is
`ReportStore` under the mapping that places the effect of a call at the request
that decides it. JSON is abstracted: what was marshalled is what is read.

**EtcdKeys** - the keyspace that the four kinds share: `Gvk`, `getPrefix` and
`getKey` as operations on text, where `utils/constants.go:17` gives cluster policy
reports the kind of cluster ephemeral reports. `written` is a ghost: what the last
call for a report left.

**PostgresStore** - the Postgres backend for one kind: `log` is the sequence of
states that the table has had on the primary, `pos[r]` how far replica `r` has
come, `mutex` and `thread` as in EtcdStore. Create, Update and Delete are one
statement under the mutex; Get and List take none and ask the replicas in any
order, then the primary (`TryReplica`, `QueryPrimary`); Delete reads first, in the
same way. A query may fail, and an answer of several rows may break off, which
the code takes for its end. Replication is external.

**PostgresTables** - the four tables as sets of rows, and what every statement of
every kind says of columns, with several clusters in one database.

**InMemoryStore** - the in-memory backend for one kind: text keys, the mutex, the
look at the map and its change. No start-up path creates it at present
(`storage.New` chooses etcd or Postgres).

**ConnectionString** - `PostgresConfig.String` and the reading of its result by
`net/url` (external), on text. The TLS parameters are left out.

**Startup** - from `runCommand` to the readiness probe: `dbConfig`, `getClusterId`,
the ping loops of `db.New` with their attempts, the CREATE statements of the four
constructors, migration (as one step that may fail), installation, serving, and
the ways out. What can be reached changes at any time, the process may die
anywhere and is started again. `refused` is a ghost: unanswered pings of a host.

**Migration** - `Complete`'s migration: kind by kind `List`, `Copy`, `Follow`, then
`Serve` with the versions set aside, and the goroutines (`FollowNext`, `FollowOwn`,
`Reconnect`), beside the cluster's own changes (`clog`, a log by revision), API
requests and `TakeOver`, the installation of the API service of a group. A report of the
cluster that carries the served-by annotation already (`Annotated`) is not copied, and the
first event of one makes the goroutine of its kind return (`FollowAnnotated`,
`config.go:175-178`). There is one server process at a time: two that start together
(`replicaCount` above 1) can refuse each other's copies, which is not modelled.

**Broadcast** - the broadcaster as the REST storages use it: its incoming queue,
its lock, the distributor and the watchers' channels (external, from
k8s.io/apimachinery), and the calls `Action`, `Watch` and `Stop`.

**OpenApi** - the generated definitions, each as two lists as in the file: the types
that its schema refers to (`refs`) and those that it names to the builder as its
dependencies (`deps`). The walk follows the second, the document has the first, and nothing
but the generator makes them agree. Then the walk over them by which the API server builds its models when
a group is installed and its document when it begins to serve (external, from
k8s.io/kube-openapi). The definitions are those of the served kinds, of meta/v1,
runtime, version and Kyverno's policyreport; see *Not modelled*. Many types of meta/v1 are
reached from nowhere; they are there because `GetOpenAPIDefinitions` offers them to
the builder, and whether a type is reached is what the walk finds out.

**MCReportsApi**, **MCEtcdStore**, **MCPostgresStore**, **MCMigration**,
**MCStartup**, **MCKeyspaces** give instances for TLC. MCEtcdStore has two deployments, one server
and two, of which a behavior takes one. **Keyspaces** puts EtcdKeys,
PostgresTables, InMemoryStore and ConnectionString side by side, with words over an
alphabet without a slash as namespaces and names; a behavior is one of a single
part. MCKeyspaces adds the walk of OpenApi, which is too small for a run
of its own, as one more part with variables of its own. **ReportsApiProofs**, **EtcdStoreProofs**, **PostgresStoreProofs**,
**StartupProofs**, **MigrationProofs**, **BroadcastProofs**, **KeyspacesProofs** hold
the proofs, **Induction** what they share: induction by a least counterexample, on
numbers and along sequences, and what it says of sequences built piece by piece.
An operator commented as a mutant changes the definition after it into a plausible bug;
`PROJECT.json` says which property it breaks.

## What is checked

| Run | Instance | Properties |
|---|---|---|
| `api_etcd` | 2 clients, 2 reports of one kind, 1 value, 1 watcher, strict updates, apply allowed, failing store calls, versions up to 3 | `TypeOK`, `WatchersConverge`, `FreshVersions`, `DryRunsWriteNothing`, `AckedWritesCommitted`, `CollectionsWhole` |
| `api_kinds` | 1 client, a report of each of the three other kinds, 1 value, 1 watcher, Postgres: updates of missing rows that succeed, replicas one state behind, lists that break off | `WatchersConverge`, `OnlyStaleReadsUnsettle` |
| `etcd_store` | one server: 2 callers, 2 keys in 2 namespaces; two servers: 3 callers, 1 key; 2 reports, failing requests, fairness | `TypeOK`, `CheckStillTrue`, `KeepsPromise`, `CallsReturn`, `OnlyTheOtherInterferes` |
| `pg_store` | 2 callers, 1 server, 2 keys, no replicas, failing statements, fairness | `WriteInv`, `KeepsPromise`, `CallsReturn` |
| `pg_replicas` | 2 callers in 2 servers, 2 keys, 2 replicas, failing queries, broken streams | `TypeOK`, `ReadsWithinLag`, `OnlyCreatesCreate` |
| `keyspaces` | two words of which one begins with the other, 4 reports in etcd; 2 clusters, 3 rows; 2 callers of the in-memory map; passwords of up to 3 letters that mean something in a URL; the OpenAPI definitions as they are | `GetsOwn`, `ListsOwn`, `SettingsSurvive`, `DefinitionsFound`, `PublishedWhole`, `MemoryKeepsPromise` |
| `settings` | passwords of up to 2 letters | `CredentialsSurvive`, which is violated |
| `broadcast` | 2 handlers, 2 watchers, queues of 1, up to 2 listed reports, fairness | `TypeOK`, `EventsInOrder`, `CallersReturn` |
| `migration` | 2 reports of 2 kinds, 3 changes of the cluster, crashes, lists that fail, watches too old to resume | `FollowersCurrent`, `VersionsUnique`, `OnlyOldCopiesStopAStart` |
| `migration_faults` | 2 reports of one kind, one of them annotated in the cluster, 2 changes, failing store calls, crashes, lists that fail, watches too old to resume, fairness | `TypeOK`, `StartEnds`, `FollowersCatchUp` |
| `migration_versions` | 2 reports, lists that fail | `WatchersHaveVersions`, which is violated |
| `startup` | 2 replicas, lists with empty entries, 3 pings, 3 outages, migrations that fail, fairness | `ServesWhole`, `StartInv`, `OwnBudget`, `StartEnds`, `ComesToServe`, `ProbeNotices` |

- `WatchersConverge`: when no event of a key is to come, a registered watcher
  knows what the store holds, outside three exceptions. The list that the watch began with did
  not show the key as it was (no list, another namespace, a selector, a replica behind,
  a row cut off) or the watch lost an event of it between List and registration, and no event of
  the key has come since; the last writers of the key overlapped; the last write had no event
  or the last event no write. These are what the code really does; the property says that
  nothing else goes wrong.
- `OnlyStaleReadsUnsettle`: with one request at a time, on a store that does not fail and
  without forced updates, the last two have one cause only: an update read, from a replica that is
  behind, a report that is deleted on the primary, the UPDATE of no row succeeded, and
  the handler broadcast what it had not written. Without replicas, and on etcd, there is none.
- `CollectionsWhole`: a client is told ok for its DeleteCollection only when every report that it
  listed, and that was there, has been deleted since, by this or another request. That the
  request gives up at the first report that is gone, with an error, is what the code does.
- `FreshVersions`: the request handlers of one process give no two reports the same version.
  The followers of the migration store reports with the cluster's versions; see
  `VersionsUnique`, and `WatchersHaveVersions` for where this goes wrong.
- `AckedWritesCommitted`: a client that is told ok has its report written and sent to
  the watchers, unless the update was forced or the backend is Postgres.
- `DryRunsWriteNothing`: only a forced update writes in spite of the flag.
- `CheckStillTrue`, `KeepsPromise`, `ReadsWithinLag`, `OnlyCreatesCreate`, `WriteInv`,
  `StartInv`, `OnlyOldCopiesStopAStart`: see the proofs. `OnlyTheOtherInterferes` is
  `OthersInterfere` of the two-server deployment: the mutex does what it can.
- `GetsOwn`, `ListsOwn`: a Get or List returns exactly the reports it is for,
  although kinds share a keyspace and clusters share tables.
- `SettingsSurvive`: the driver reads every user and password without a space in it, and
  every host with its port, out of the URL. `CredentialsSurvive`, which is about all users and
  passwords, does not hold; see below.
- `EventsInOrder`: what a watch client has read, what is in its channel and on its
  way to it, is what was listed and then every event distributed since, in order, and
  the queue holds every event sent and not yet distributed, in order.
- `FollowersCurrent`: nothing that the cluster changes between list and watch is
  missed. The exceptions it names are the code's: a deletion is not followed, and a
  report that comes back after one is refused as existing. Reports that are annotated in
  the cluster are not copied.
- `FollowersCatchUp`: a follower comes to every change of the cluster, whatever the store
  answers to the ones before it, unless one of three things ends it for good: the API service of
  its group is installed (pending events are lost), its watch is too old to be resumed
  (client-go's RetryWatcher ends on 410 Gone, and nobody starts another), or an annotated report is added
  or modified (the goroutine returns where it should go on). All three happen in the run.
- `VersionsUnique`: after a complete migration a request's version is on no other
  report; the exception is policy reports that an earlier process left, since the
  counter is moved by the version of the other list (`config.go:237`).
- `OwnBudget`: a host is given up only after its own pings failed.
  `ComesToServe`: an empty entry in the list of replicas does not keep a server
  from serving. `ProbeNotices`: a primary that stays away is noticed.
- `DefinitionsFound`: the file names types it does not define (`runtime.Object`,
  `intstr.IntOrString`), and no served kind and no route reaches them. `PublishedWhole`:
  whatever a schema in the published document refers to is in the document, though
  the builder has followed the lists of dependencies only.

**What does not hold.** `WatchersHaveVersions` states the purpose of the last line
of the migration (`config.go:462`, "use leave some versions for resources added
using watchers"). When the list of a kind fails, migration returns nil before
that line although the goroutines of earlier kinds are running: a report they
store and one that a request creates get the same version.

`CredentialsSurvive` states what the comment at `db/new.go:160` ("This is to handle special
characters in the user and password") and the test at `db/new_test.go:42` ("Decoded password
should match original") say. `url.QueryEscape` writes a space as a plus sign, which
`net/url` leaves alone in the user information, so that a password with a space reaches
the database as another one. The test has no such password.

One smaller observation, made while modelling: the in-memory Delete hands an empty report
by value to a counter whose type switch knows only pointers, so that deletes are
not counted (`inmemory/polr.go:108`; metrics are not modelled).

**Bounds.** `MaxVersion` of ReportsApi caps the versions of one process lifetime, in
the guard of a request (`Issues`); with restarts, which reset the counter, it does not
bound the number of writes. `MaxBehind` caps how many earlier states replicas show at a
time: with one, every read may be stale and two reads may differ. Runs of ReportsApi look at states through
a `VIEW` without the answers of finished requests, and `api_kinds` without the ghosts that its
properties do not read; no action depends on either. Two clients are enough for every race between two
handlers, two reports for a DeleteCollection that goes on after its first, one watcher for what it is told (watchers do not influence each other).
`MaxWrites` caps the states of the primary: two are enough for a replica to be
behind, and for a list to be a mixture of two states if it could be. `MaxEvents` of
Migration allows an addition, a modification and a deletion around any step; in `migration_faults`
two changes let one be pending behind one of an annotated report, behind a failed one, or behind
a break of the watch.
Queues of length 1 in Broadcast make every queue full at once; two listed reports
are more than a channel holds. `MaxReports` and `MaxRows` let two reports with names
alike be there beside a third and fourth. The replicas are interchangeable
(`SYMMETRY` in `pg_replicas`), and so are the clusters, the contents and the callers
in `keyspaces`; both are safety runs.

**Fairness.** ReportsApi has none: whether a handler gets on is up to the store's
mutex and the broadcaster's queue, and those are the subject of EtcdStore, PostgresStore and
Broadcast. The stores: weak fairness of a caller
inside a method, which includes that the database answers or fails (etcd's
calls have no deadline), and strong fairness of `Lock`: Go's mutex hands itself to a
goroutine that has waited for a millisecond, so nobody starves. Broadcast: the
distributor and the callers are scheduled, and a watch client reads or is stopped; a
client that does neither blocks writers, and nothing in the code prevents that.
Migration: the starting goroutine and the followers are scheduled, lists are answered,
watches deliver; nobody owes a change or a restart. Startup: the process goes on, its pod is
restarted when it exits, the probe is asked again and again; no database owes its return.

**Deadlock** is checked in all runs but `keyspaces` and `settings`, where the
document is published and the URL read once.

## What is proved

*ReportsApiProofs.* For all sets of clients, watchers, keys and values, both kinds
of backend, on Postgres with any number of states that replicas are behind and with broken
answers, with or without faults, and any reservations (`ReportsApiAssumption`):

- `TypeCorrect`: `Spec => []TypeOK`.
- `Convergence`: `Spec => []WatchersConverge`. The property is not inductive: it
  says nothing while an event is on its way. `Inv` adds `EventsCurrent` (an event
  of a settled key that is to come says what the store holds) and `ViewsCurrent`
  (a watcher, registered or only listed, knows a settled key it is not blind to,
  or an event of it is to come). A write makes the first true and leaves
  the second to the event; the event restores the view, or adds to the blind
  keys of a watcher that is not registered yet.
- `VersionsFresh`: `Spec => FreshVersions`, from `VersionsApart` (versions held by
  handlers are below the counter, pairwise different and unwritten).
- `LocalsAgree` (`Spec => []LocalsInStep`): which locals a handler can have at each of its
  steps. It is what the next two need: an action property speaks of one step, but
  whether that step may write or answer ok was decided steps before.
- `DryRunsHarmless` (`Spec => DryRunsWriteNothing`) and `AcksReliable`
  (`Spec => AckedWritesCommitted`).
- `OneAtATimeSettles` (`Spec => OnlyStaleReadsUnsettle`) for at most one client, a store that does
  not fail and no forced updates (`OneAtATime`). `UpdatesFind` adds that the report an
  update has read is still there when it writes, or is still shown by a replica: only in the
  second case can the lenient update of Postgres find no row.
- `CollectionsFinish` (`Spec => CollectionsWhole`): `LeftListed` adds that what a DeleteCollection
  has left is still on its list or is the report that it is at, so that an empty list leaves none.
- `RequestsForward` (`Spec => RequestsGoForward`): every step of a request brings its answer
  nearer and no step of anybody else sets it back. DeleteCollection works through the list
  it began with; the measure is that list and then the step it is at (`Rank`). Whether the step comes
  is up to the store and the broadcaster.

*EtcdStoreProofs.* For all sets of callers, keys and reports, with or without faults
(`EtcdStoreAssumption`):

- `TypeCorrect` and `OnlyOthersInterfere` (`Spec => OthersInterfere`), for any number
  of server processes, from `ServersInv`: a caller inside a method holds the mutex of its process.
- `ChecksHold` (`Spec => []CheckStillTrue`), when all callers are in one process
  (`OneServer`): nobody else is inside a method.
- `Implements` (`Spec => KeepsPromise`, `OneServer`), the refinement of `ReportStore`. `Lock`
  and a check that goes on to put are invisible, the deciding request is
  `Perform`, `Unlock` is `Reply`; that `Put` is allowed to succeed is `CheckStillTrue`.
- `MutexNeverOrphaned` (`Spec => []MutexServes`), for any number of servers: a locked mutex is
  that of a method in progress in the same server, past its `Lock`, which waits for
  etcd and for no other caller.

*PostgresStoreProofs* (`PostgresStoreAssumption`):

- `TypeCorrect` and `ReadsRight` (`Spec => []ReadsWithinLag`), for any number of servers,
  callers and replicas. `ReadInv` adds that no replica a read may still ask is behind
  where the slowest was when the read began (`Trusted`); replicas only advance.
- `WritesRight` (`Spec => OnlyCreatesCreate`): a report appears only by Create, changes only
  by Update, vanishes only by Delete, one at a time, whatever a read has shown.
- `WritesExclude` (`Spec => []WriteInv`) and `Implements` (`Spec => KeepsPromise`), for one server
  without replicas whose answers do not break off (`Plain`). `WriteInv` is needed because
  Delete reads in one statement and deletes in another: the mutex keeps the row there,
  and reads, which take none, are single statements.
- `MutexNeverOrphaned` (`Spec => []MutexServes`), as for etcd, from `LockInv`, and `NoWayBack`
  (`Spec => CallsGoForward`): a call asks no replica twice and makes at most one
  statement on the primary, for any number of servers, callers and replicas.

*StartupProofs* (`StartupAssumption`): `StartInvariance` (`StartInv`), `Whole` (`ServesWhole`) and
`EachHostItsBudget` (`OwnBudget`) for any replicas, lists, retries and outages. `StartInv`
says of every place of a start which hosts have answered and which tables are there, and
that the unanswered pings are all of the current host. `ForwardOnly` (`Spec => StartsGoForward`):
every step of a start brings it nearer to its end, by the place it is at, then the host,
then the attempt or the tables, and no outage or probe meanwhile takes it back.

*MigrationProofs* (`MigrationAssumption`): `OnlyOldCopies`
(`Spec => []OnlyOldCopiesStopAStart`) for any reports, changes and moments of take-over.
`CopyInv` says that what is still to be copied and is in the store already was there when the
process began (`AheadIsOld`), for which it needs that followers run only for kinds
that are done (`FollowersBehind`) and that requests write only what is served (`ApiServed`).

- `TypeCorrect` (`Spec => []TypeOK`). That a list has a version is a fact about a
  maximum, so `TypeInv` adds that the stored versions have an upper bound.
- `VersionsStayUnique` (`Spec => []VersionsUnique`), with or without store failures.
  `VersionInv` follows a version through the start: each list covers the versions of
  its kind (`ListCovers`), the counter covers the kinds that are done (`CounterCovers`), and
  once versions are set aside every report is below where requests begin, within
  the reserve, or a request's own (`BaseCovers`).
- `FollowersStayCurrent` (`Spec => []FollowersCurrent`) for a store that does not fail. `TrackInv`
  says how many changes of the cluster the process has seen of each kind (`Seen`: by its
  watch, by its list, or none to account for) and that the store agrees with them for every report
  that is copied or followed, annotated ones apart; a report still to be copied owes nothing yet.
- `ForwardOnly` (`Spec => StartsGoForward`): every step of a migration brings it nearer to its
  end, and nothing that the cluster, the followers and the requests do adds to its work.
- `ChangesInOrder` (`Spec => NoneSkipped`): a follower goes through the cluster's changes in
  their order and passes none of its kind over, whatever the store answers to it.

*BroadcastProofs* (`BroadcastAssumption`), for any handlers, watchers, lengths of queues
and numbers of events: `TypeCorrect` (`Spec => []TypeOK`, which bounds the queues) and
`AllInOrder` (`Spec => []EventsInOrder`). `QueueInv` says that behind the events there is at most one
function in the queue, that of the watcher that holds the lock, so that a registration
falls between two events and not inside one; `WatcherInv` that a channel has room for what was
listed, so that the registration does not block, and that the current event is on its way
to a watcher at most once. `NobodyStuck` (`Spec => []NeverStuck`): the lock, the queue and
the full channels are no circle of waiting. While a caller waits, the lock is held or an
event is on its way, the server can go on by itself, or a client that watches has events
to read: only watch clients that neither read nor leave can hold up the writers. It needs
`RegisteredInv`: the distributor turns to registered watchers only, stopped or not.

*KeyspacesProofs* (`KeyspacesAssumption`), for any alphabet without a slash, words of any
length, clusters and callers:

- `GetsItsOwn` (`Spec => []GetsOwn`) and `ListsItsOwn` (`Spec => []ListsOwn`). `KeysInv` and
  `TablesInv` say that etcd and the four tables hold exactly what was written, each
  report at its own key or in its own row. For etcd this rests on two facts about text: the
  prefixes of two kinds differ in the group or the kind (`KindFacts`), and a text that
  begins with the folders of two namespaces begins with one only, as neither has
  a slash (`SamePath`); hence no two reports share a key (`KeysDiffer`) and a prefix fits the keys
  of its kind and namespace only (`PrefixFits`). For Postgres, on what each statement says of the
  columns of a row (`RowMatches`).
- `MemoryImplements` (`Spec => MemoryKeepsPromise`): the in-memory backend implements `ReportStore`,
  by the same facts about text and by `StoreInv`: a caller inside a method holds the mutex, and
  what it saw of its entry is still true when it changes the map. Get and List are
  `Perform` where they look at the map; Create, Update and Delete where they refuse or change it.
- `SettingsArrive` (`Spec => []SettingsSurvive`), for users and passwords of any length and
  any characters (those without a space arrive unchanged, whatever the other one has) and for any number of hosts. `SettingsAssumption` says that no host name and
  no port has a character in it that ends it in a URL, and that a letter is not the digits of
  an escape. An escaped word holds none of the characters at which the driver splits and
  decodes to what arrives (`WordsSurvive`), which is the word itself when it has no space
  (`WithoutSpace`), and every host stands in the list with its port
  (`HostsWritten`). Both go along the text or the list: `SeqInduction` of Induction takes a
  set of sequences, where the library's theorem takes an operator.

`MutexServes`, `CallsGoForward`, `StartsGoForward`, `NoneSkipped`, `NeverStuck` and
`RequestsGoForward` are proved for every value of the constants and are not in a `.cfg`. All but
the last are the part of a liveness property of a run that can be proved, and the run checks
the whole.

Only model-checked:

- The liveness properties `CallsReturn` (of both stores), `CallersReturn`,
  `StartEnds` (of Startup and Migration), `FollowersCatchUp`, `ComesToServe`, `ProbeNotices`:
  fairness and ENABLED are outside what the provers do. What is proved of them is that
  no step leads back (`NoWayBack`, both `ForwardOnly`), that none is left out
  (`ChangesInOrder`), and that nobody waits for somebody who waits (`NobodyStuck`, both
  `MutexNeverOrphaned`).
- `OnlyTheOtherInterferes`, which is `OnlyOthersInterfere` for one deployment.
- `DefinitionsFound` and `PublishedWhole`, which are about one fixed set of definitions: TLC
  checks all there is.

## Not modelled

- Flags, TLS, authentication and the generic API server's own start: library wiring
  that keeps no state of this program.
- Tables and codecs (`table.go`, `serializer.go`, `annotate.go`, `names.go`): pure formatting.
- Metrics: counters that are written and never read back.
- The schemas of core/v1 other than `ObjectReference` in the generated OpenAPI file,
  which is more than three quarters of the repository's lines of Go: no served kind and no route refers to them.
- Several processes of ReportsApi on one store: a watcher hears only of the writes of its
  own process. The stores are modelled with several (EtcdStore, PostgresStore).
- Several server processes that migrate at once (see **Migration**), and the followers of the migration
  beside watchers of the API (see **ReportsApi**).
