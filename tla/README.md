# A TLA+ model of oracle_collector

oracle_collector finds the Oracle instances of a host by their PMON processes,
connects to each of them, runs the queries of its metric groups and writes the
results to stdout as InfluxDB line protocol, for telegraf to pick up. This
directory holds TLA+ modules of it, the TLC configurations that check them on
small instances, and theorems proved with TLAPS. Paths below are under
`pkg/agent/` unless they begin with something else.

## The parts of the program

| part | state | operations | talks to |
|---|---|---|---|
| **instance list** `oracle/intance-list.go` | one slice of `*OracleInstance` under a mutex | `Add`, `Delete`, `GetList`, `GetFilteredListBySid`, `GetNewAndOldInstances` | written by discovery, read by every processor; `GetList` hands out the slice, not a copy |
| **discovery** `oracle/discovery.go`, `proc_finder.go` | the local variables of a round | scan; connect to new instances, release lost ones, refresh the others; `oracle_status` for each, `discover_stats` for the round | list, instances, output |
| **Oracle instance** `oracle/oracle-instance.go` | what is known of the database, the label map, the `sql.DB`, under a mutex | `Init`, `GetVersion`, `UpdateInfo`, `End`, `Query`, getters, `GetMetrics` | the database; discovery refreshes it while processors query it |
| **metric group processor** `mgroup-processor.go` | the instances of the current loop | once per period, every query of the group on every instance | list, instances, output |
| **output** `output/output.go` | telegraf's bounded buffer | `SendMetrics` by anybody, a flush per period | stdout |
| **agent and main** `agent.go`, `pkg/main.go` | a WaitGroup, a signal channel | start of all goroutines, signals, exit | operating system |
| **self monitor** `selfmon/selfmon.go` | the last runtime counters | measurements of the collector itself | output |
| **data table, conversions** `data/` | one result set | scan targets, transposition, conversion to fields | processor |
| **configuration** `pkg/config/` | read once | parse, validate | everything |

What is hard to test here, and so what the properties are about:

* discovery edits in place the slice that processors range over without the mutex;
* processes come and go between the steps of a scan and of a round, any query may fail, and
  the collector itself may be killed between two steps, while the metrics already
  sent stay with telegraf;
* `UpdateInfo` assigns fields as its queries succeed, so an error leaves a mixture
  of rounds; labels are rebuilt under queries that use them;
* locks are released by hand around several exits of `Init`;
* one mutex and ten connections of each instance serve the refresh and every processor,
  and a database may never answer;
* each node of a cluster decides by itself whether its instance runs the database level
  queries, from a number read while members come and go;
* metrics arrive between the two steps of a flush, the buffer overflows, and the
  program ends in the middle;
* cells reach a field by position, by name and through five Go types, at the limits of an int64;
* what the configuration leaves out is a nil pointer or a zero period;
* signals reach a goroutine that receives one of them.

`PROJECT.json` lists these hazards with the line of each and the properties that
would catch it, or why none does.

## The modules

| module | what it models |
|---|---|
| `Slices` | what a filtering loop makes of a slice, used by `InstanceList` and `Collector` |
| `Registry` | abstract: what the instance list promises, a weakly consistent iteration |
| `InstanceList` | the list as Go slices: headers, backing arrays, in-place `append` and shift; processors that range over them |
| `Lifecycle` | abstract: what a user of `oracle_status` may rely on, per SID |
| `Discovery` | rounds of discovery over a changing host, with faults, crash and restart |
| `OracleInstance` | one instance from `Init` to `End`, query by query, with processors using it |
| `ClusterElection` | the collectors of a cluster's nodes: which instance runs database level queries |
| `Collector` | the composition: discovery, processors, mutexes and connections of several instances |
| `Conversions` | the conversions of `data/conversions.go`, with the width of an int64 |
| `DataTable` | from the rows of a query to its metrics, on `Conversions` |
| `Output` | buffer, flush, overflow, exit |
| `SelfMon` | the samples of the self monitor, sent through `Output` |
| `Agent` | configuration, main, `Start`, the signal goroutine, the goroutines it starts |
| `SlicesProofs` | lemmas about slices as sequences: filter, tail, append, removal |
| `InstanceListProofs`, `DiscoveryProofs`, `OracleInstanceProofs`, `DataTableProofs`, `AgentProofs` | the theorems about the module of that name |
| `CollectorProofs` | the theorems about `Collector` and `ClusterElection` |
| `OutputProofs` | the theorems about `Output` and `SelfMon` |
| `MC*` | the instances for TLC |

**InstanceList.** A slice header is `[arr, len]` into `heap`, the backing
arrays. `Append1` is Go's `append`, with room and without. `Delete` is three
steps: the elements after the deleted one are loaded, stored one slot to the left (`StoreSlot`, in
any order, as memmove promises none to a reader without the mutex), and the
shorter header assigned. A processor with an `instance_filter` has a copy made
under the mutex. A loop reads its slot at the beginning of each iteration. The list
changes in the order `discover` does it: `Discover` compares a scan with the list
(`GetNewAndOldInstances`, on `SliceDiff` and `SliceIntersect`), then `Add` or `InitError`
for each new instance, `Delete` for each old one, `RoundDone`.

**Discovery.** `pc` is the position in `discover`. The scan takes the pids of one
moment (`FastProcessList`) and reads the command lines later (`FullPattern`), so
it misses what ended meanwhile, and takes the new process where a pid was used again. An instance object is its SID and pid; `new`,
`old` and `same` are compared by SID, as in the code, and `same` holds the registered
objects. A step that needs a database can fail when its process is gone, or when its fault is in
`Fault`. `Crash` is the panic after a failed `GetVersion` and, as `Kill`, the
end of the collector from outside; what it had sent survives it (`status`,
and `stale` for the SIDs it left reported up). Open pools are in two variables: `held` are those the
code has a reference to, and `dropped` those that a failed `Init` left open and that nothing can close
any more, named by the SID they connect to.
The list is a set here: discovery is its only writer, and its order is the
subject of `InstanceList`.

**OracleInstance.** The fields kept are those the properties tell apart: is there
a version, status, role, validity for database queries, the PDBs and their
total, the label map, the pool. A label map is a cell whose content is the role it was built from.
`db` is the database, which changes one attribute at a time at any moment. `Flaky` lets `sql.Open` and every query fail
although the database is up, and v$instance give no row. The mutex is `lock` while
discovery holds it, across the steps of `Init` (`LockInit` to `Ping` or an error) and of `UpdateInfo`; getters take it for one step.
A version that was never read ends the process (`Panic`), which is started again without any memory (`Restart`).
A label map that no processor holds is garbage, and its cell empty. `db.regime`, one of `Regimes`, is the
branch of the version switch in `UpdateInfo`.

**ClusterElection.** A node is its `INSTANCE_NUMBER`. A refresh is four steps, as its three
queries see the cluster at three moments: v$instance, v$database with the reset of
`IsValidForDBQuery`, the minimum over GV$INSTANCE, the comparison. `asked` is history: the nodes that came to
the reset, or asked for the minimum, since the members last changed.

**Collector.** Coarse where another module has the detail: a refresh is one call, `Init` one step,
and a deletion does to a walk over the shared array what `InstanceList` shows (`Overtaken`).
A call waits for one of `MaxConns` connections (database/sql, external), runs, and ends with an answer
or at its deadline. `UpdateInfo` asks for the connection with the mutex held; processors hold
no mutex while they query. `Sick` are the instances whose database may never answer. An `Init` that fails after
`sql.Open` leaves its pool open (`dropped`), as in `Discovery`. Groups are of instance level and without version
filters: a group that skips an instance or a query does less than this, and `OracleInstance` has the skip.

**DataTable, Conversions.** A cell is its Go type, its number in halves and its text; a
column name or a name in a cell is a word that may be in upper case or in quotes. The
behaviour is one query: rows arrive, the table is transposed if `fieldtoappend` is set, and
each row becomes a metric.

**Output.** A metric is its number in the order of arrival. telegraf's
`models.Buffer` is external: `Add` overwrites the oldest metric of a full
buffer, `Batch(n)` removes up to n, each under the buffer's own mutex.

**SelfMon.** Of a sample the two counters are kept of which the code makes differences: `NumGC`, in
`Width` bits, and the total pause, which does not overflow. A sample is a `SendMetrics(1)` of `Output`.

**Agent.** A configuration (`conf`) is: does the file decode, which sections have a value that
`Validate` reports, what is left out (sections, periods, `buffer_size`), is the self monitor
enabled, may an answer of a database panic. The goroutines begin with `NewTicker`. A signal is delivered if the signal goroutine is receiving and lost if
not, as the channel has no buffer; a ticker holds one tick.

Definitions whose comment begins "A slip" are not part of the model: each is a mutated form of
the definition after it, as a plausible mistake in the code would make it, and is
used to show that a property would notice. `PROJECT.json` pairs them.

## The runs

| run | checks | instance |
|---|---|---|
| `list` | `TypeOK`, `UniqueSids`, `Reconciled`, `IsolatedLoop`, refinement of `Registry` | 4 objects over 3 SIDs, a processor with and one without filter |
| `discovery` | `TypeOK`, `UniqueSids`, `PoolAccounting`, `RoundBalance`, `StatusFollowsList`, `LostReportedOnce`, refinement of `Lifecycle` | 2 SIDs, 3 pids, every fault |
| `discovery_live` | `LostWasDown`, `Converges` | 2 SIDs, 2 pids, failing pings |
| `instance` | `TypeOK`, `SafePublication`, `StableTags`, `StatusAgrees` | 1 PDB, 1 processor of database level, cluster mode, flaky queries, every version |
| `instance_live` | `GetterReturns`, `Registers` | 1 processor, no PDB, cluster mode, flaky queries, 12.1.0.1 and later |
| `cluster` | `OneCollector`, `ElectsOne` | 2 nodes, flaky queries |
| `collector` | `TypeOK`, `AtMostOneLate`, `RoundsGoOn`, `Served` | 2 instances, one sick, 2 processors, 2 queries, 1 connection each |
| `table` | `Pivoted`, `NumbersKept`, `TagsComplete` | results of up to 2 rows, int64 of 4 bits, 84 configurations |
| `output` | `TypeOK`, `Delivery`, `NewestKept`, `IntervalsAddUp`, `OnlyOverflowDrops`, `Drained` | buffer of 3, 5 metrics, up to 2 at a time, 3 of them samples; 4 collections, a counter of 2 bits |
| `agent` | `TypeOK`, `KeepsRunning`, `OnlySelfmonPanics`, `KeepsCollecting` | every configuration of up to 2 groups with at most one thing left out |

What they show:

* `list`: deletions identify instances by SID, and a SID is listed once also while
  elements move; after each round the list is what the scan found and `Init` could open. Additions never disturb a loop that is under way, although they write into
  the array it ranges over, and a filtered loop is disturbed by nothing. A loop that a deletion overtakes
  still visits only instances that were registered since it began, never an empty or a vacated slot.
* `discovery`: whatever fails and wherever the collector is killed, the registered set, the
  open pools that are in reach, `discover_stats` and the `oracle_status` sent agree, and a SID is reported
  lost only if it was last reported up, by the same run of the collector.
* `discovery_live`: an instance reported lost had no process at some moment of
  the scan; and once processes stop coming and going, the registered set and the reported
  status become theirs, whatever the earlier rounds scanned or failed to connect to.
* `instance`: what a processor reaches has a version and a pool; a label map that was
  handed out is never written again; after a refresh without error of an instance that is open, the tags and the
  totals of its status metric are those of what is sent beside them.
* `instance_live`: whichever of `sql.Open`, the ping and the queries of `Init` and `UpdateInfo` fails, while the
  database is closed and opened under them, none of their exits keeps the mutex; and once the database stays open and
  nothing fails any more the instance is registered, whatever the earlier attempts left (12.1.0.1 excepted, below).
* `cluster`: of the nodes whose refresh came to the reset of the validity since the members last changed only the lowest one is
  queried at database level, whether the refresh then ends or fails; if the members stay, it is so for ever, and no other. That holds
  of members that are monitored: if no collector runs beside the lowest one, nobody is elected.
* `collector`: connections are always given back, so a hung database delays the round and the
  loops for its deadlines only, and a healthy instance is served for ever by every
  group that accepts it. A processor may go on with an instance that was released,
  but sends at most one result after its last status: the one already on its way.
* `table`: transposed rows make one metric name by name, a whole number that fits is kept by every
  representation, one given as text keeps its sign, and each metric has all tags of its row.
* `output`: no metric is lost, doubled or reordered between `Len` and `Batch`; the
  oldest are dropped when more than a buffer arrive between the counts of two flushes. Two samples
  of the self monitor in a row tell the collections between them, also across an overflow; after
  a sample at zero the field is absent.
* `agent`: main outlives its start only because of the groups, and those never stop. A complete configuration
  panics in one case: the self monitor's ticker fires before `output.Init` has run.

Why the bounds suffice. Four objects take the slice through the capacities 1, 2 and
4, refill a vacated slot, and replace one SID by a second object; the loops of two processors do not touch
each other, so one at a time is enough. Two SIDs are one to
work on and one that is affected by it; three pids let a SID be replaced while the
other one runs. One PDB tells an empty, a current and a stale list apart. A
buffer of 3 with batches of 2 overflows by one and by two, with a flush in any
state; 5 metrics are enough for an overflow after a batch was taken. Four collections take a
counter of 2 bits past its overflow and exactly to it. With one connection two
callers already compete for the pool, and two instances are one with a hung database and one that must
not suffer from it. Two nodes are the lowest and another one, either of which may fall; a third one
would be one more that is not the lowest. Two rows repeat a name, and the numbers of `MCCells` lie
below, at and beyond the limits of the width. Configurations that leave out two things
end at the first one the start meets. Pids, the SIDs of `discovery` and map cells are symmetric sets: no action or property
distinguishes their members, and the runs with symmetry check no liveness. `discovery_live` looks at the states
without `dropped` (`VIEW Seen`): no step reads it, nor does a property of that run. `instance_live` leaves out the
PDBs, as their number changes no exit: what the PDB query does to a refresh, it does with the empty set too.

Deadlock is checked in the runs of `Discovery`, `OracleInstance`, `ClusterElection` and `Collector`.
In those of `InstanceList` the supply of objects runs out (the bound), a query of `DataTable` ends,
and `Output` and `Agent` model the exit.

### Where the code departs from what it says

These runs check one property each, which TLC finds violated.

| run | what happens | against |
|---|---|---|
| `list_race` | a deletion under a processor's loop makes it skip an instance that stays registered | the log line of mgroup-processor.go:69 |
| `discovery_crash` | the version query of `Init` fails after the ping succeeded: the collector panics | README.md:333 |

The models contain more behaviour of this kind, for which no run of its own is kept:

* a failed scan is one that found nothing: every instance is released and reported down
  (`ScanError` of `Discovery`; discovery.go:17 against README.md:182);
* the PDB query for 12.1.0.1 ends its select list with a comma (oracle-instance.go:431): such an instance
  is never registered (`PdbsError` of `OracleInstance`; README.md:209);
* a deadline in the middle of the rows passes for their end, as `rows.Err` is not called
  (`ReadRows` of `OracleInstance`; oracle-instance.go:168-169);
* a label column that is NULL or a number stops the collector (`Panic` of `DataTable`; table.go:192);
* a fraction that the driver gives as text is 0 in an INTEGER field, a uint64 above the limit becomes
  negative, and a float is never true (`Conversions`);
* a transposed query with labels gives no metric unless a name in it is that of the label
  (`LabelsFound` of `DataTable`), and a name in quotes loses its field (`PivotTypes`);
* a period, a section or a `buffer_size` that is left out is not reported: the process panics
  (`ZeroPeriod`, `NilSection`, `NoBuffer` of `Agent`), and `default_query_period` and
  `default_query_timeout` are not used;
* an instance that falls back to STARTED keeps its validity for database level queries
  (`Instance` of `ClusterElection`; oracle-instance.go:348);
* with more goroutines than connections a query may wait for one until its deadline, each time: `Served`
  assumes that it does not;
* a refresh that fails before the reset of the validity, at v$instance or v$database, keeps that of an earlier
  round: after the members changed two nodes may collect the same database level metrics until it succeeds
  (`RefreshError` of `ClusterElection`; oracle-instance.go:390);
* a failed `Init` closes no pool: each round opens another one for an instance that it cannot register (`AbandonInit` of `Discovery`,
  `InitError` of `Collector`; oracle-instance.go:544-570);
* an instance restarted between two scans keeps its registered object, and is reported
  with its old pid (`GetNewAndOldInstances` and `UpdateSame` of `Discovery`; README.md:183);
* an instance that is STARTED has a status metric without tags (`Instance` returns
  before `InitExtraLabels`; README.md:170-176);
* after a refresh that failed the PDBs of an earlier round are sent (`QueryError` and
  `SendMetrics` of `OracleInstance`; README.md:207);
* a signal ends the program without the final flush of output.go:74-76 (`Exit`
  of `Output`);
* without metric groups the process ends at once, and discovery with it (`Return` of `Agent`; README.md:126);
* after a SIGHUP a SIGTERM has no effect (`Hangup`, then `Lost`, of `Agent`; main.go:157-174).

### Fairness

`Discovery`: the ticker fires again after each round and the goroutine runs (weak
fairness of `discover`); telegraf or systemd restarts a collector that ended (weak
fairness of `Restart`); of infinitely many pings of a SID whose process is up one is
answered (strong fairness of `PingOk`). Nothing is assumed of processes: `Converges` is
about behaviours in which they stop coming and going.
`OracleInstance`: discovery and the processors run, and `sync.Mutex`, which hands
itself over to a waiter after a millisecond, starves nobody (strong fairness of
the getters); who supervises the collector starts it again (weak fairness of `Restart`). That a query succeeds is not
assumed by the specification: `Registers` is about behaviours in which from some moment on none fails, `GetterReturns` about all. `ClusterElection`: the rounds go on, and a query that may fail does not fail for
ever (strong fairness of each query). `Collector`: deadlines pass, a database that is not sick
answers before them, and neither a mutex nor the queue of a pool starves a waiter (strong fairness of
the getters and of `Acquire`). `Output`, `SelfMon` and `Agent`: tickers tick and goroutines run.
No signal, exit, failure or end of a process is ever forced.

## The proofs

TLC checks the instances above; the theorems hold for every value of the constants that satisfies
the assumptions of the modules. Every invariant and every action property that a passing run
checks is proved, and so are both refinements. Each proof module states an inductive invariant, proves that every action preserves
it, one lemma or step per action, and derives the properties from it.

**`InstanceListProofs`**, for any number of instances, SIDs and processors: `TypeCorrect`,
`UniqueSidsHolds`, `ReconciledHolds`, `IsolatedLoopHolds`, and `WeaklyConsistentHolds`, that the slices
implement `Registry`. What a loop will read next depends on which array its header points into and which
stores of a deletion are still to come, so the invariant `Inv` speaks of all three: `Arrays` (headers inside their
arrays, the elements a deletion has loaded), `Rounds` (what a round has done and has left to do
add up to its scan, so no `Add` brings a SID twice), `Loop` (every slot below a header is an instance
registered since that loop began: this is what the refinement needs of a slot that is overtaken) and
`Isolated` (a loop that no deletion touched finds its slots as they were: what is appended or moved lies behind
them or in another array).

**`DiscoveryProofs`**, for every set of SIDs, of pids and of faults: `TypeCorrect`; `UniqueSidsHolds`,
`PoolAccountingHolds`, `PoolsLeaveReach`, `RoundBalanceHolds`, `StatusFollowsListHolds`, `LostReportedOnceHolds`; `Refinement`, that
`Discovery` implements `Lifecycle`, by the mapping `Phase`. They follow from `RoundCorrect`, the invariant `RoundInv`: that an
added instance is not registered already follows from the scan and the list having been
compared when the round began and from every change since. `Partition` says how the scan is
split; `Balance` says what the list consists of at each step of the three loops, in terms of those
parts and of what the loop has left; `Reporting` does the same for the SIDs last reported up. `PoolAccountingHolds` is
about the pools in `held`. `PoolsLeaveReach` says how a pool ceases to be in reach: `End` closes it, the process ends, or an `Init` fails
after `sql.Open` and drops it open, counted as an error of the round; nothing bounds how many are dropped.
`LostWasDownHolds` has a hypothesis, neither a failing scan nor a failing command line (a failing
scan finds nothing, and TLC shows running instances reported lost with it), and one more invariant, `ScanComplete`.

**`OracleInstanceProofs`**, for every finite set of PDBs, every set of processors, any branch of the version switch and any
query failing: `TypeCorrect`, `SafePublicationHolds`, `StableTagsHolds`, `StatusAgreesHolds`. `Publication` is the
invariant behind `SafePublication`: that a registered instance has a version is not preserved by a refresh on its own,
which assigns it from a row that may be missing; it holds because version and status come
from one row, so that an instance without a version is one that has no status either (`Versioned`). `Agreement` says from which step
of a refresh on the total and the labels are those of this round. `StatusAgreesHolds` leaves out an instance that is STARTED and a refresh that
failed; when v$instance gives no row, which is no error, the metrics agree with the role of an earlier round.

**`CollectorProofs`** is about the two compositions. `Collector`, for any number of instances, groups, queries and
connections and any sick databases: `TypeCorrect` (with the accounting of connections, `Connections`) and `AtMostOneLateHolds`.
A processor that sends after the last status has got there by a call
that had its connection before the pool was closed, hence `Late`: once its result is out, none is on its way.
`Objects` keeps a released object from being registered again. `PoolsOwned` has no run of its own: an open pool
belongs to a registered object, but between `End` and `Delete`, or to one whose `Init` failed after `sql.Open`, whose pool stays open
and out of reach (`dropped`). So discovery leaks no pool of what it registered; and no call goes to a pool that was never
opened or that was dropped, whatever a deletion does to the slices the processors walk over: what only `Init` has seen
(`Private`) is in none of them (`Known`). `ClusterElection`, for any set of nodes: `ClusterTypeCorrect` and `OneCollectorHolds`. The invariant `Elected` says what a
node in the middle of a refresh has read: from the reset to the end of a refresh the validity is off (`Reset`), and of a node that asked
since the members last changed the minimum it has read is still the minimum, and it is valid only as that one (`Asked`).

**`DataTableProofs`**, for every configuration, every result with any number of columns and rows, and integers of any width:
`PivotedHolds`, `TagsCompleteHolds`, `NumbersKeptHolds`. The invariant `Made` says that the metrics so far are those of the first rows
of the table, each field the conversion of the cell that `Index` finds. `SourceCell` shows that this is the cell a reader of the
configuration expects, through the transposition; `Int64` is what one conversion does to one cell.

**`OutputProofs`**, for any size of the buffer and any number of metrics: `TypeCorrect`, `DeliveryHolds`, `NewestKeptHolds`,
`OnlyOverflowDropsHolds`; the same with the self monitor among the senders (`BufferHolds`, `OnlyOverflowDropsSelfMon`), and
`IntervalsAddUpHolds` for a counter of any width. The invariant: the buffer holds the metrics
after `Base`, all of them (`Contiguous`); those up to `Base` were taken, in their order, or dropped (`Split`); a flush that
has counted leaves none behind that had arrived by then (`Flushes`). For the samples it is `Differences`: two readings of a counter
give the difference of the totals although each is reduced by the width.

**`AgentProofs`**, for any finite set of groups and any configuration: `TypeCorrect`, `KeepsRunningHolds`, `OnlySelfmonPanicsHolds`. The invariant: the counter of
the WaitGroup is the number of goroutines of groups that run, and the wait begins after the last of them was
counted (`Counted`, `Waits`); who sends finds the buffer made, but for the self monitor (`Ordered`).

What they rest on: the named assumptions of the modules, which TLC evaluates in each run.
Two kinds of them are there for the proofs. `Inst` and `Pdb` are finite, as what a program
allocates or counts is. And the powers of two are natural numbers, `2^Width` twice the one before
(`WidthAssumption`, `SelfMonAssumption`): the provers have no arithmetic of powers. `TableAssumption` says that a header is
a sequence and a cell has a number and a text. A filtering loop is `Filter` of `Slices`, as `SelectSeq` is defined
by recursion, which the provers cannot unfold; `SlicesProofs` shows that it keeps exactly the wanted elements, each once and in order.

Model-checked only: liveness (`Converges`, `GetterReturns`, `Registers`, `ElectsOne`, `RoundsGoOn`, `Served`,
`Drained`, `KeepsCollecting`), which is out of the prover's reach. So is the absence of deadlock. No
module has a `RECURSIVE` operator.

## Not modelled

* The measurements `collect_stats` and `sql_driver_stats`, copies of fields, and
  `collectRuntimeStats`, which runs only when a channel is closed that nobody closes.
* What a regular expression accepts, and the decoding of the file.
* The words of log messages, the log files, the PID file, the build script.
* What the conversions print to stdout about a type they do not handle (conversions.go:53): it lands
  between two writes of the output.
* The rounding of floats and the text a number is given in.
* Two PMON processes of one SID at the same time.
* That the pid reported is that of a running process: the code does not see to it (above), and no run is kept for it.
* A data race below the level of one field (`InstName` is read without the mutex
  in intance-list.go:42 and mgroup-processor.go:73).
* What becomes of the pools that a failed `Init` leaves open: nothing in the code can reach them, and the driver and
  the garbage collector decide.
* Errors of stdout, and metrics the serializer refuses.

## Plan

The safety properties of the runs are proved. What is left to tie together is the list of `Collector`,
which is coarser than that of `InstanceList`: that a walk of `Collector` that is overtaken (`Overtaken`)
is one of `Registry` as well, so that what the slices guarantee carries over to the composition.
