# gotun: TLA+ models, checks and proofs

gotun forwards TCP and UDP traffic through tunnels. An administrator defines
tunnels (an *input* that listens, an *output* that dials, protocols and
encryption for each), reverse tunnels (frps/frpc), routes that pick one of
several tunnels for a connection, and built-in services (socks5, http proxy,
echo). This directory models the stateful, concurrent parts of it.

## 1. Inventory

| Component | State | Operations | What is hard | What makes it correct |
|---|---|---|---|---|
| Output pool (`tun/output.go`, `tun/output_stream_maker_container.go`) | `makerPools` (maker, `creating`, `closed`, expiry per slot), `poolIdx`, `close`, quality totals | `Run`, `getStream`, `getStreamMaker`, `waitStreamMakerCreated`, `TryStartCreate`, `SetMaker`, `Close` | callers, redial goroutines, invalidation and `Close` interleave without a common lock; a 32-bit counter wraps | no connection lost or shared, `creating` never left set, calls return, redialling ends |
| Tunnel manager (`tun/manager.go`, `tun/config.go`, `tun/server.go`, `tun/service.go`) | `services`, `lock`, `.tun` files, backups, listeners | `AddService`, `ReplaceServiceByUUID`, `SetServiceDisabled`, `RemoveService`, `Run`, rollback | several administrators; a start that takes too long goes on in the background; any step fails; crashes between renames | requests are atomic, files agree with the map, ports are not leaked, requests return |
| Route prober and selector (`tun/route_quality.go`, `tun/route_selector.go`) | per member: service, window, counters, status; current member, last switch | `runRound`, `commitRound`, `applyRound`, `Preferred`, `candidates` | members are rebuilt while they are probed; handlers select concurrently with stale lists | records never mix instances, no flapping, switches only to members that work, convergence |
| Route service, failover output (`tun/route.go`, `tun/output_failover.go`, `tun/route_switch_log.go`) | selector, switch log | start, close, fallback from member to member | failure in the middle of a fallback | each connection gets a member or an error; the log records each switch once |
| Quality tracker, frame probes (`tun/quality.go`, `tun/frame_stream.go`, `tun/frame_probe_runner.go`, `tun/probe_channel.go`) | sample window, totals, sequence numbers | record samples, send probes, match replies | late and lost replies; totals and samples under different locks | a reply is matched to its own request; status agrees with the samples |
| Reverse tunnels (`tun/frps*.go`, `tun/frpc*.go`, `pkg/msg`) | per session: connection, `sendCh`, `readCh`, `workers`, `mu`, `closed`; the current controller | login, `GetWorkConn`, `RegisterWorker`, `Write`, the read, write and message loops, heartbeat, reconnect, `Close` | two programs; bounded channels used while a lock is held; unlocked look at the number of workers | no send to a closed channel, a waiting user has a worker coming, everyone returns, loops end |
| UDP input (`tun/input_udp*.go`) | worker per source address, bounded queue, deadlines | `serve`, `insert`, `Read`, `Close` | one goroutine reads for all clients and waits for the slowest; a worker is removed while datagrams arrive for it | one stream per client at a time, a client whose stream ended gets another one, the reader goes on |
| Pipe (`core/pipe.go`) | two copy directions, idle time, read deadlines | copy, monitor | one direction ends before the other; a blocked write | both directions end |
| Probe history (`pkg/probehistory/store.go`) | bounded queue, batch, rows, lock | `Record`, `Flush`, `Close`, `Query`, the loop, clean-up | a full queue, a failing disk, three kinds of callers that wait for each other, readers while rows come and go | accepted results are stored in order, Flush and Close report the truth, pages are complete, callers return |
| Built-in services (`server/service`) | map of services, files | add, edit, remove | asynchronous start | like the tunnel manager |
| Admin API, login (`admin/`) | sessions, failed attempts | login, logout, CRUD requests | concurrent requests | throttling counts every failure |
| Stream handshake, encryption, bandwidth test | per connection | wrap a stream | order of layers on both sides | both sides wrap alike |
| Administration pages (`admin/view/tunnel/list.html`, `admin/resource/dist/js/admin-ui.js`) and their browser test (`scripts/test-admin-ui.cjs`) | rows, request counters, rows in change, timers, probing session; dialogs of the history and of MTR; the test's in-memory API | load, toggle, save, delete, probe, page and filter, diagnose, leave | answers out of order, lost, or after the page is gone; dialogs closed while something is loading | what is shown is current in the end, waits end, streams are released, a page that was left goes quiet |
| Start-up and migration, mtr, logging, transports, proxy protocols | | | | |

Interactions. A `Server` joins an input and an output: the input's accept loop
starts a handler goroutine per connection, which calls `Output.GetStream` and
pipes the two streams. The manager builds, starts and closes servers; the admin
API calls the manager from one goroutine per HTTP request. A route is a service
of the same manager: its selector looks members up under the manager's lock,
its prober runs rounds of its own and commits them under that lock, and its
handlers share the prober's state. In a reverse tunnel the server (frps) listens
for users and for the client's streams; over a control connection it asks the
client (frpc) for worker streams, and joins one to each user connection.

`PROJECT.json` lists every component with its status and every hazard found
while reading, at the line where it bites, with the property that covers it.

## 2. Modules

| Module | Models | Used by |
|---|---|---|
| `OutputPool` | a multiplexed output | `MCOutputPool`, `OutputPoolProofs` |
| `TunnelConfig` | the fields of `Config` and the admin requests that matter here | `ServiceRegistry`, `TunnelManager` |
| `ServiceRegistry` | abstract specification: what the manager promises while it does not crash | `DurableRegistry`; instantiated by `TunnelManager` |
| `DurableRegistry` | abstract specification: what is left of that promise after a crash and a restart | instantiated by `TunnelManager` |
| `TunnelManager` | the manager, its files, its servers | `MCTunnelManager`, `TunnelManagerProofs` |
| `RouteQuality` | prober and selector of a route | `MCRouteQuality`, `RouteQualityProofs` |
| `FrpsController` | a session of the server of a reverse tunnel | `MCFrpsController`, `FrpsControllerProofs` |
| `FrpSessions` | logins, reconnects and the current session of a reverse tunnel | `MCFrpSessions`, `FrpSessionsProofs` |
| `UDPRelay` | UDP input, its handlers, the pipe | `MCUDPRelay`, `UDPRelayProofs` |
| `ProbeHistory` | the store of probe results | `MCProbeHistory`, `ProbeHistoryProofs` |
| `AdminAPI` | fixtures and handlers of the browser test's API | the next three |
| `AdminList`, `AdminHistory`, `AdminMTR` | list pages with the probing loop; history dialog; MTR dialog | `AdminUI` |
| `AdminUI` | the pages, composed | `MCAdminUI`, `AdminUIProofs` |
| `OutputPoolProofs`, `RouteQualityProofs`, `FrpsControllerProofs`, `FrpSessionsProofs`, `UDPRelayProofs`, `ProbeHistoryProofs`, `TunnelManagerProofs`, `AdminUIProofs` | theorems | |

The `MC` modules add symmetry sets, the number of calls of each caller
(`MCOutputPool`) and the two scenarios of `MCFrpsController`. A definition that a comment calls a
*faulty variant* stands before the definition it is a variant of (`CloseConnForgotten`
before `CloseConn`); no specification uses it. The variants show that the
properties can fail: with the variant in place of the definition, TLC reports
the property named in the "mutants" of `PROJECT.json`.

### OutputPool

One connection (a *maker*) is in `conn` while this end has it open. A slot is a
`streamMakerContainer`; its methods run under its mutex, hence `SetMaker` and
`ContainerClose` are single steps, while `creating` is an atomic that
`TryStartCreate` sets outside it. A call of `getStream` is one process with a
control state per atomic operation: `LoadIdx` and `AddIdx` are the separate load
and add of the counter, `GetMaker`, `TryStartCreate`, the polling loop
(`WaitRescan`, `WaitScan`, `Timer`, `WaitGiveUp`), `OpenStreamOK/Fail` and
`InvalidateMaker`. `Output.Run` and the goroutines of `TryStartCreate` share the
steps `DialOK`, `DialFail`, `RetryCheck` of `waitCreateStreamMaker`. `Close` sets
its flag, looks at the published pool and closes one container at a time.
`Break` and `Expire` are the environment. Handlers of user connections
(`Business`) call only when `Output.Run` has returned, since the input is started
after it; a bandwidth test (`Testers`) may call while `Run` still dials, finds an
empty pool and panics (`TestPanics`). `GoRem` is Go's truncating remainder
and `Wrap` the overflow of an `atomic.Int32`; `HalfRange` stands for 2^31. A
panic ends the process. Names of connections are reused once nothing refers to
them, so that the model is finite.

### TunnelManager

`services` maps names to instances, `icfg` and `st` hold what an instance was
built from and how far `Server.Run` has come, `listener` who has bound a port,
`file` and `bak` what is on disk. An operation takes the lock, closes the old
instance and starts the new one in one step (nothing else can observe the steps
in between, because the lock is held), waits for the start
(`WaitOK`: started, or two seconds have passed; `AddFailed`, `ReplaceFailed`),
and saves: `CreateFile`, or `BackupFile` and `RenameFile`, each of which may
fail when `Faults` holds. When the last rename fails, `Restore` brings the backup
back, and that may fail as well: the code ignores the error, the tunnel goes on
without a file and its name is in `stranded` until it is saved again. With
`Hanging` the `Close` of a running server may wait for ever, as that of a reverse
tunnel does in the state `Stuck` of `FrpsController`: `CloseOldHangs` is a `Close` of the
tunnel to be replaced or removed, `CloseNewHangs` one of the instance that is given
up; the request is then `hung` with the lock. A failure leads to `Rollback`, which starts the old
configuration as a new instance and ends in `RollbackDone` or `RollbackFailed`.
`RemoveService` deletes the file before it locks (`UnlinkFile`). A server closed
before it has bound its port keeps starting (`lateOutput`, `lateBind`, `late`).
`Crash` keeps the files only; `LoadFile`, `LoadFailed`, `LoadDone` are
`Manager.Run`. `Squat` is another process taking a port. The staging files are
left out: they are written before the renames and `loadAllFile` skips them.

### RouteQuality

Rounds look members up one by one (`Ask`). When all probes have answered, the
round is committed under the manager's read lock: `CheckMember` compares the
instance asked with the one registered and replaces the record of another
instance, `DropRound` gives up at the first difference, `ApplyRound` updates
windows and counters and decides. The results of the probes are chosen at
`ApplyRound`: nothing reads them earlier. `Rebuild` and `Remove` need the write
lock and are excluded while a round is committed; `Started` is not, because a
server's status changes without the lock. A connection handler looks the
members up one by one (`LookUp`) and asks for the preferred one (`Preferred`).
Counters that are only compared with a limit stop at that limit, and so does
the time since the last switch (`Tick`). `origin` is history: the instances
whose results went into a record.

### FrpsController

`pc` holds the control state of the goroutines that send to the controller's
channels: the handlers of user connections, those of worker streams,
`doReadLoop` and `handleReadMsg`; `wpc` is `doWriteLoop`, `closer` is `Frps.Close`.
`RLock` is the read lock with the look at `closed` after it, `RUnlock` is part of the
step that ends a send; in between the goroutine is at `send` and in `readers`.
As in Go, a waiting writer keeps new readers out, and a closed channel is drained
before it reports its end. `Write` and `RegisterWorker` select with a default, so
their send is one step that may be refused; the read loop's send blocks.
`GetController` waits for the mutex that `frpsControllerManager.Close` holds.
`CheckWorkers` reads the number of workers without a lock, before the request
(`SendReq`) and the receive (`TakeWorker`, `GiveUp`). Workers and pings are counted:
nothing depends on which is which. In the run a behaviour is one of two
scenarios: one user with two connections while the client sends pings, or two
users, who see the same idle workers and compete for them, without pings. The
restriction is on arrivals only. The client is an environment: it sends pings
at any time, brings the streams it was asked for (`NewWorkConn`) or gives up on
a request (`ClientFails`), and the connection may break (`Break`), after which
writes are lost or fail.

### FrpSessions

A connection that the client dials is a session, numbered. `pc` is
`frpcController.run`: look at `exit`, dial, log in, assign `rw` and start the
heartbeat, serve until the connection ends, sleep. `hpc` is a server handler per
session: read the login, answer, start a controller, make it the current one
(`SetCtl`). Each takes any time: a login that the client has given up
(`LoginFails`) may be answered and registered later. `loops` has the loops of
each controller: its read loop, which ends with the connection, and
`handleReadMsg` and `doWriteLoop`, which end when the controller's channels are
closed. `Frps.Close` closes those of the current controller only. `MayFail`
bounds the failures: the last session that the run has is not broken and not
given up, so that the client of a reachable server is served in the end because
a login is accepted, and not because the bound is reached. `FrpcClose`, `SetExit`,
`CloseRw` are the steps of the client's `Close`, `FrpsClose` and `CloseCtl` those
of the server's. `mux` says whether the client's connections are streams of a
multiplexed output, which its `Close` closes, or connections of their own, which
it does not; either can still dial after it (`CanDial`), a multiplexed output
because a maker may be published late. `Break` is the network. `served` and `alone` are history.

### UDPRelay

`serve` receives a datagram, finds or makes the worker of its address (`Receive`)
and inserts into the worker's queue (`Insert`), where it waits while the queue is
full. `hpc` is the handler of a worker: `OnNewStream`, which drops the stream if no
handler is set yet, the handshake that tells business from control streams, the
stream of the output, the pipe, and `CloseSrc`, which removes whatever worker its
address has. `up` and `down` are the directions of the pipe; `deadline` and `cut` are
the read deadlines of the worker and of the output's stream, which `Monitor` sets
for an idle pipe and each direction sets for the other when it ends. The worker's
`Read` looks at its deadline only when it begins. `PeerChanges`: the output's peer
stops reading, goes on or is gone. Datagrams are counted.

### ProbeHistory

A result is its number in the order of acceptance, a row's id its position in
`log`, so that loss, duplication and order are visible. `Record` and `Flush` take the
read lock, `Close` the write lock; Flush keeps it while it waits for room
(`send`). The loop takes any ready case of its `select`: `LoopReceive`, `LoopTick`,
`LoopCleanup`, `LoopStop`; a transaction is under way at `insert` and ends in
`InsertOK` or `InsertFail`, which keeps the batch. `Drain` and `Finish` are the end.
The clean-up deletes a batch of aged rows per statement. `ReadPage` is a client
that follows the cursor of `Query` while all this goes on.

### AdminAPI, AdminList, AdminHistory, AdminMTR, AdminUI

Every visit of a page is a component of `ui`, the last of which is on the screen;
requests are in `net` with the component they came from, are served and answered
in any order, and may be lost on either way. `LoadList` counts requests, and only
the answer to the latest one is shown. The tunnel page alters a row in place when
its change succeeds and loads the list after a moment; the other pages load it at
once. The probing loop has a session number that outdates answers of a loop that
was stopped. A row is what the pages tell apart of it: whether it is disabled,
and its status; `Seen` is what the user gets to see of the rows, the numbers of
`countRows` and the rows under each status filter.

The history dialog keeps its filters, the cursor of its page and those of the
pages before. A change outdates what is under way, also a range of time that is
refused without a query. The MTR dialog checks the session, loads the
terminal, opens an event stream: an attempt at each stage is overtaken by the
user, who closes the dialog, asks again or leaves. `stream` is the page's
`EventSource` object, open from its construction to its `close`; `api` is the
API's side of it, which gets the request some time after the terminal is shown
(`StreamServed`) and notices the close some time later (`StreamEnds`).

The script of the browser test is not modelled. Some of its assertions hold
only if answers come in time (section 4), so that a model with answers of any
delay would refute them, and one with the needed delays would say nothing of
the pages. The API of the test is modelled because it is the only one in the
repository that answers all requests of the pages from memory.

## 3. Runs

| Run | Properties | Bounds | Shows |
|---|---|---|---|
| `pool` | `ConnHeldOnce`, `CreatingHasCreator`, `QualityBooks`, `CallReturns`, `CloseStopsDialling`, `SlotRefilled` | 1 slot, 2 connections, a handler with 2 calls, a bandwidth test, 2 creators, expiry, counter -2..1 | 331 thousand states; the callers meet in the slot, one invalidates what the other obtained or is dialling, and two creators work for it at once. The three invariants and the safety half of `SlotRefilled` are proved for all sizes; `SlotsApart` of `ConnHeldOnce` is about pools of several slots and rests on the proof |
| `pool_creators` (violation) | `SingleCreator` | 1 slot, 2 callers with 2 calls | see findings |
| `manager_durable` | `TypeOK`, `SavedUnlessBusy`, `DurableRequests` | 2 names, 1 UUID, 1 port, 2 administrators, 5 instances, failing files, hanging `Close`, squatter, crashes | a crash in every state that is not a start. `TunnelManager` implements `DurableRegistry`; one UUID makes two tunnels share it, one port and the squatter let starts, rollbacks and reloads fail. Each exception of `DurableRegistry` is needed: without it the run fails. All three are proved for all sizes |
| `manager_live` | `ListenersAccounted`, `RequestReturns`, `BootEnds` | 1 name, 1 port, 2 administrators, 5 instances, multiplexed outputs, hanging `Close`, crashes | two requests compete for the lock while outputs dial, starts are late and a `Close` hangs. The invariant is proved for all sizes |
| `manager_disabled` (violation) | `DisabledDoesNotListen` | 1 tunnel, multiplexed | see findings |
| `route_safety` | `SamplesOfOneInstance`, `NoFlapping`, `SwitchToWorking` | 2 members, windows of 2, 1 failure, 2 normal results, one rebuild, both policies | 3.7 million states; the window slides, limits are reached and a member is rebuilt in every phase of a round. The theorems cover all other limits |
| `route_live` | `Converges` | 2 members, windows of 1 | under each policy, for each of the 16 combinations of settled results |
| `frps` | `NoSendOnClosed`, `DemandCovered`, `CloseReturns`, `UserReturns`, `LoopsEnd` | 2 users, 3 user connections (1 user and 2 with pings), 1 worker stream at a time, `FrpWorkerCount` 4, channels of 2, 1 and 1 | 846 thousand states, among them the deadlock described below; channels of one are full at once, and two users are as many as half of `FrpWorkerCount`. The first two are proved for all sizes |
| `sessions` | `ServedIsCurrent`, `LeftSessionsEnd`, `ClientStops`, `ServedAgain` | 2 sessions, with and without multiplexing | 370 thousand states; two sessions are what it takes for a handler, a controller or a heartbeat to outlive its session. `ServedIsCurrent` is proved for any number |
| `history` | `NothingLost`, `FlushedStored`, `CloseReportsLoss`, `PagesComplete`, `CallersReturn`, `EventuallyStored` | 1 recorder with 3 calls, 1 Flush, 1 Close, queue of 2, batches of 2, pages of 1, 1 aged row | 97 thousand states; the queue holds two results, or a flush request behind one; the batch fills and is kept when its transaction fails; all rows match, so that one is inserted between two pages of a reader. The four invariants are proved for all sizes |
| `udp` | `RegisteredWhileHandled`, `ServeGoesOn`, `StreamsEnd` | 2 addresses, 2 workers, queue of 1 | 209 thousand states; a second worker for the address of the first, or one that waits behind another client's |
| `ui` | `TypeOK`, `SettledIsCurrent`, `WaitsHaveRequests`, `HistoryConsistent`, `MTRReleased`, `LeftPagesSilent` | 2 pages visited, 3 actions, 4 history queries over 5 records with pages of 2, 3 diagnoses | 2.8 million states. Three actions are a change, another and a refresh between them; five records make three pages. All six are proved for all sizes |

`CHECK_DEADLOCK FALSE` is set for all but the route runs: bounds on calls,
sessions, workers and instances end behaviours, and the systems may really stop
(a closed output, a program that has ended, a closed controller or store, a page
on which nothing is under way). The route runs check for deadlock: its rounds and
handlers never block each other for good.

Bounds named in guards: `MaxCalls`, `Creators` and `Conns` (pool), `Insts`
with `EnoughInsts` (manager: a request is only accepted while every operation
can still get its two instances), `MaxRebuilds` (route), `MaxCalls` (reverse
tunnel), `MaxSessions`, `MaxWorkers`, `MaxCalls` and `MaxAged` (history),
`MaxVisits`, `MaxActions`, `MaxQueries`, `MaxAttempts` (pages). The type
invariants are theorems; only those of `TunnelManager` and `AdminUI` are checked
by a run as well.

### Fairness

Weak fairness of the goroutines' steps: the Go scheduler runs whatever can run,
and dials, probes, file operations and `net.Listen` return one way or the
other, with a result that nothing is assumed about. Strong fairness of
`LockStep`: `sync.RWMutex` hands itself to a waiting writer. Weak fairness of
the clock (`Timer`, `Tick`). The manager's `FairSpec` takes from the pool that a
closed output stops dialling (`CloseStopsDialling`). No fairness of calls,
closes, requests, crashes, broken connections, rebuilt members or handlers.
In the reverse tunnel the controller's goroutines and `Close` are fair, its clock
(`GiveUp`) too; nothing is assumed of the client, the users and the network.
`PeerReachable`, that a peer dialled for ever accepts in the end, is a premise of
`SlotRefilled` only.

In `FrpSessions` the client's loop, the handlers and loops of the server and a
`Close` that has begun are fair; `ServerReachable` is a premise of `ServedAgain` only.
In `UDPRelay` goroutines that can go on do and the timer of `Read` fires; nothing
makes a client send, a peer read or the monitor fire (data may come all the
time). In `ProbeHistory` the cases of the loop's `select` are strongly fair, since
`select` chooses at random among the ready ones, except the hourly clean-up;
`DiskRecovers` and `ContextsEnd` are premises of single properties. The pages have
no liveness property: their requests may hang for as long as the browser lets
them, so that what ends a wait is stated as an invariant (`WaitsHaveRequests`).

Most liveness properties have the form `[]<>P`: again and again nobody is in a
call, or in a state that has to end. As what they follow ends only by `P`, this
is the same as a leads-to to `P`, and TLC checks it with fewer branches.

`RequestReturns` excepts a `Close` that hangs: it holds `Manager.lock`, and every
later request waits for it. `SavedUnlessBusy` and `DurableRegistry` except, besides
the tunnel that a request is changing, the `stranded` ones.

`LeftSessionsEnd` says nothing of `handleReadMsg` and `doWriteLoop` of a controller
that another one replaced: nobody closes its channels, and they wait for ever.

`CloseReturns` and `UserReturns` except the states `Stuck`: `doReadLoop` holds the
read lock and waits for room in `readCh`, `Close` waits for it, and
`handleReadMsg`, who would make room, waits behind `Close`. It takes 100 unanswered
messages to get there, and TLC shows that this is the only way in which `Close`
or a user can wait for ever.

`ServeGoesOn` excepts three ways in which the one reader of the UDP socket stops
for good: a worker that was dropped because the handler of a reverse tunnel's
input is set after the input runs; one whose handler ended between `LoadOrStore`
and `insert` while its queue was full; and one that cannot write to a peer that
does not read. `StreamsEnd` excepts the last one: when a pipe is idle it sets read
deadlines, which do not end a write.

`ClientStops` excepts a login that succeeds after `Close` looked for the connection
to close, and `ServedIsCurrent` a login that overlaps with the handler of an
earlier one; both really happen.

`Converges` is conditional: *if* from some time on members and results do not
change, the selection becomes right and stays so.

## 4. Findings

1. `pool_creators`: a caller whose `OpenStream` failed calls `SetMaker(nil)`,
   which clears `creating` although another creator of that slot is dialling;
   the next caller starts a second one. The comment at `tun/output.go:272`
   promises one. `ConnHeldOnce` shows the damage is bounded: the second maker
   replaces, and closes, the first.
2. `manager_disabled`: a tunnel disabled while its multiplexed output is dialling
   binds its port afterwards; the configuration reference says that a disabled
   tunnel does not listen.

Met while modelling, described by the models' exceptions and not by a run of
their own:

- After 2^31 increments `poolIdx` is negative, and so is the index
  (`tun/output.go:264`); `OutputPool` lets the caller panic.
- A crash between the renames of `replaceServiceFile` (`tun/config.go:155`) leaves
  only the backup, which is not loaded; `SavedUnlessBusy` and `DurableRegistry`
  except the operation under way.
- When the rename of the new file fails, `replaceServiceFile` renames the backup
  back and ignores whether that worked (`tun/config.go:164`). If it did not, the old
  tunnel is rolled back and runs without a file, no request is under way, and the
  next restart has lost it: `stranded` in `SavedUnlessBusy` and `DurableRegistry`.
- A `Close` that hangs (that of a reverse tunnel in the state `Stuck`) is called
  with `Manager.lock` held (`tun/manager.go:284`) and stops the administration for
  good; `RequestReturns` excepts it.
- A client that logs in again replaces the controller (`tun/frps.go:98`); the old one
  is not closed, and two of its goroutines stay for ever with each new login.
  `LeftSessionsEnd` leaves them out.
- `RemoveService` deletes the file before it takes the lock (`tun/manager.go:67`): a
  request that holds the lock meanwhile may write it again, and the removed
  tunnel comes back at the next start. `DurableRegistry` allows it when there is
  another administrator, and not otherwise.
- The exceptions of `ServeGoesOn`, `StreamsEnd`, `ClientStops`, `ServedIsCurrent`,
  `CloseReturns` and `UserReturns` above.
- MTR: a second click before the session has been checked leaves a stream that
  the page has forgotten, and one that is opened after its dialog was closed runs
  unseen (`MTRReleased` excepts both).
- A list stays stale when the answer to a change is lost or comes to a page that
  has been left (`missed`), and an edit form writes back the row it was opened
  with, whatever has changed since.
- Three assertions of the browser test depend on timing. Line 336 reads the
  filter of the last query after waiting for a text that is shown as soon as the
  query is sent; line 498 reads the API's flag `streamClosed` 100 ms after a dialog
  whose terminal is shown before its stream is requested; line 538 counts the
  probes of the API without waiting for one that is on its way.

## 5. Proofs

TLAPS proves the following for all values of the constants that satisfy the
assumptions of the modules:

- `PoolAssumption`, `RouteAssumption`, `FrpsAssumption`, `ConstantsOK` (history),
  `RelayAssumption`, `SessionsAssumption`, `APIAssumption`, `MTRAssumption`: sizes
  and limits are positive; the nil maker is no connection, business callers are
  callers and the runner is no creator; the controller's goroutines are distinct
  and finitely many, and its channel has room for the workers below which it asks
  for more.
- `FiniteAssumption`: finitely many business callers, so that the sum of their
  calls exists.
- `ConfigAssumption`, `NullAssumption`, `ManagerAssumption`: nil is no name, port,
  configuration, request or instance; the loader is no administrator and the
  outsider no instance.
- `ListAssumption`: the pages are pages of the API's fixtures.

*OutputPoolProofs.*
- `PoolTypeCorrect`: `Spec => []TypeOK`. `TypeOK` is not inductive, because a slot
  index may be negative until `GetMaker` has used it; `TypeInv` adds `IdxOK`, that
  a caller past `GetMaker` has an index in the pool.
- `PoolHoldsConnsOnce`: `Spec => []ConnHeldOnce`. The inductive invariant adds
  `HandOver`: only a goroutine at its `set` step holds a maker; otherwise a
  dial could overwrite a maker in hand, and the connection would be lost.
  `EmptySlotHolds` and `HandOverHolds` treat the two ways a slot changes and serve
  `CreatorSet`, `RunSet`, `InvalidateMaker` and `CloseSlot` alike.
- `PoolCreatingHasCreator`: inductive relative to `TypeInv`. It survives a second
  creator because the flag is cleared more often than it should be, never less.
- `PoolQualityBooks`: inductive relative to `TypeInv`. A call that begins adds one
  to the sum over the callers and one to the calls in flight; each of the four
  ways out takes it from those in flight and counts it. The sum is a fold over
  a set, hence the solution of a recursive equation (`SumsExist`); `TotalZero` and
  `TotalChange` say what it is at first and when one caller's number changes.
  They need induction over the subsets of a finite set, which `PickInduction`
  states with a set of good subsets in place of a predicate, from the
  well-foundedness of `<` on cardinalities.
- `PoolStopsWhenRefilled`: a creator stops working for its slot only in a step that
  gives the slot another maker, or when the output is closed. It takes `HoldInv`,
  from which the maker in hand is not the one in the slot, and `NilAfterClose`: a
  creator comes back without a maker, and a slot is shut, only after `Close`.

*RouteQualityProofs.*
- `RouteTypeCorrect`: windows and counters stay within their limits. That
  `SmallestIn` returns a member of its argument (`SmallestInSet`) rests on the
  well-foundedness of `<` on the naturals.
- `RouteSamplesOfOneInstance` needs `CommitInv`: while a round is committed, every
  member checked so far has a record labelled with the instance asked, and every
  member found running still is. The read lock is what makes it inductive.
- `RouteNoFlapping` and `RouteSwitchToWorking`: action properties. `RoundSwitch`
  reduces the two policies to what they have in common, `SwitchStep` shows that
  only `ApplyRound` replaces a member known to run.

*FrpsControllerProofs.*
- `FrpsTypeCorrect`: `TypeOK` is inductive.
- `FrpsNoSendOnClosed` needs `SendersHoldLock`, that a goroutine at its send holds
  the read lock; `LeaveSend` treats every step that does not begin a send.
- `FrpsDemandCovered`: at most as many users wait as there are workers in the
  channel, announced by the client, being registered, or requested in a message
  that is on its way (`Supply`). It is inductive given `TypeOK`. A user who does
  not ask saw `FrpWorkerCount \div 2` workers, and there are no more users than
  that; a worker that is dropped found a full channel; a request brings at
  least the worker of the user who sent it. `ClientStaysBad` shows that what the
  premise rules out never ends, so the premise held before the step as well.
  `ReqsAppend` and `ReqsTail` count the requests in `sendCh`.

*ProbeHistoryProofs.* One inductive invariant, `IInv`, in four parts, and
`ReaderInv` for the client that reads.
- `HistoryTypeCorrect`: `TypeOK`.
- `HistoryNothingLost`: `OrderInv` adds that the loop never has more than was
  accepted and that a flush request carries no result. Taking the head of the
  queue, appending to the batch and committing the batch each shift the border
  between the three without a gap.
- `HistoryFlushedStored`: `FlushInv`. Wherever the request of a waiting Flush is
  (in the queue behind its results, served by the loop, or drained), the results
  accepted before the call are ahead of it.
- `HistoryCloseReportsLoss`: `CloseInv`. After the loop has found the store closed
  nothing is accepted any more, and the loop ends with an empty queue.
- `HistoryPagesComplete`: `ReaderInv` says that rows deleted, or found by the
  clean-up, are past retention (`PruneInv`); that what the client is due is in the
  table until then (`DueInv`); and that between two pages the client has seen
  everything due from its cursor on and nothing before it (`CursorInv`). A page
  is a descending list of the largest ids below the cursor: `AboveSmaller` and
  `DescendingLists` show that it leaves out none in between, `PageAndCursor` that
  the new cursor is the last row of the page.

*UDPRelayProofs.* `RelayInv` adds to the two properties that workers not made yet
have no handler. `Del` removes whatever worker the address has; it is the right
one because a worker is registered until its own handler closes it.
`RelayTypeCorrect`, `RelayRegisteredWhileHandled`.

*FrpSessionsProofs.* `SessionsInv` adds `AtSession` (the session the client deals with
exists, and was accepted before it is assigned), `Undialled` (later sessions have no handler) and
`Alone`: for a session dialled while no handler was at work, none of an earlier
session is at work, so that nobody replaces its controller.
`SessionsTypeCorrect`, `SessionsServedIsCurrent`.

*TunnelManagerProofs.* One inductive invariant, `IInv`, whose parts say that the lock
is held by the operation past its first step (`LockInv`); that only the holder has
an instance in hand, which is not in the map yet (`HandInv`); that a tunnel is
registered under the name in its own configuration (`MapInv`); that what was
started and not closed is in the map or in hand (`InstInv`); that a tunnel being
replaced is closed but still in the map (`OldInv`); that start-up starts each file
once (`BootInv`); and that what the holder does is what its request asked for, with
the conditions it checked still true (`ReqInv`).
- `ManagerTypeCorrect`, `ManagerListenersAccounted`: from `PortInv` and `InstInv`. An
  instance that is given up is closed on every path, so no port is left to a
  server that nobody knows, apart from one that binds after its close.
- `ManagerSavedUnlessBusy`, for any number of administrators, with failing renames and
  hanging `Close` calls: `SavedInv` adds `DiskInv`, and that a stranded name has no file.
  The backup is the configuration of the tunnel being replaced, unless a removal
  took the file first (`BakInv`). A removal does so without the lock, but then
  waits for it, so that it is still under way, and the exception still holds,
  when the replacement restores nothing.
- `ManagerDurable`: `Spec => DurableRequests`, with crashes. The registry is the map
  while the process is up and the files otherwise; what is left on disk is the
  file of a name that is not registered. Besides `SavedUnlessBusy` it takes that a
  file is the one of the registered tunnel or missing (`FitInv`, so that a restart
  brings back no stale configuration), that a file deleted by the only
  administrator stays deleted (`ErasedInv`), and that `Manager.Run` registers what
  the files hold (`LoadedInv`, so that the end of a start changes nothing). An add
  takes effect when its file is written, a replacement with its last rename, a
  removal under the lock, a rejection when it is found out; a crash maps to
  `Restart`, which loses the registered tunnels whose files are missing. The
  stranded names are the `unsaved` ones of `DurableRegistry`: a refused change may add
  its own tunnel to them, and any request that saves a name takes it out. A hung
  request never ends; a crash ends it like any other.
- `ManagerAtomicWhileUp`: `Spec => [][UpStepsAtomic]_vars`. Every step while the process
  is up maps to a step of `ServiceRegistry` or to none. It follows from the steps
  of `DurableRegistry` other than `Restart`.
- `ManagerAtomic`: `Spec => AtomicRequests` if `~Crashes`, because `ServiceRegistry` has
  no crash; with crashes `ManagerDurable` takes its place.

*AdminUIProofs.* `IInv` has a part for the list pages, for the history dialog and for
the MTR dialog; no step of one disturbs another.
- `UITypeCorrect`. That the API counts no more probes than were asked for takes
  `ProbeInv`, which counts the probes under way along with those served.
- `UIWaitsHaveRequests`: `WaitInv` adds that no two messages end the same wait, that
  a message that ends a wait finds its page waiting, and that no probe has a
  session number above its loop's.
- `UISettledIsCurrent`: `CurrentInv`. The screen shows what the API has, unless a
  list is under way that will, the answer to a change is, the timer of the
  tunnel page runs, or the change was missed.
- `UIHistoryConsistent`: `QueryInv`. A query under way with the current number is the
  query for what the dialog has set, it is the only one, and it is being loaded.
- `UIMTRReleased`: `OneAttempt`. Unless attempts overlapped, one at most is under way,
  and none that loads the terminal while there is a stream.
- `UILeftPagesSilent`: `QuietInv`, that only the page on the screen has its probing
  loop on. Leaving a page turns its loop off, and of what is still under way for
  it neither an answer nor a timer turns it on again.

Only model-checked:
- the liveness properties (`CallReturns`, `CloseStopsDialling`, `SlotRefilled`,
  `RequestReturns`, `BootEnds`, `Converges`, `CloseReturns`, `UserReturns`, `LoopsEnd`,
  `LeftSessionsEnd`, `ClientStops`, `ServedAgain`, `CallersReturn`, `EventuallyStored`,
  `ServeGoesOn`, `StreamsEnd`), which rest on fairness and hence on ENABLED.

Every invariant and every refinement that a passing run checks is a theorem.

## 6. Not modelled

Components listed as not modelled in section 1 and `PROJECT.json`: the route
service with its failover output, built-in services, the proxy protocols, the
download of a route probe, counters, encryption, mtr itself and logging. In the
modelled ones: the non-multiplexed output (a dial per call, nothing shared);
the route half of the manager; the client's worker streams; pipes between two
TCP connections; the matching of frame probes to their answers;
`RemoveServiceByUUID` (no caller); display names, statistics and log messages;
the route prober's schedule (any time may pass between rounds) and the download
itself, of which only the result matters; of the pages, layout, forms, search,
import, export, checks and the bandwidth dialog; of the browser test everything
but its API.
Data races have no modelled outcome (`AllService` returns its map, over which callers
iterate while the manager changes it, `tun/manager.go:218`).

One race is recorded as a hazard without a property because nothing in the
repository promises otherwise: connections dialled while an output closes stay
open.

## 7. Plan

1. Done: `OutputPool`, `RouteQuality`, `FrpsController`, `FrpSessions`, `UDPRelay`,
   `ProbeHistory`, `TunnelConfig`, `ServiceRegistry`, `DurableRegistry`,
   `TunnelManager`, the administration pages with the API of their browser test;
   proofs of all their safety properties.
2. Route service and failover output, with the manager's route half; properties:
   a connection tries each member at most once, the switch log agrees with the
   selections.
3. Built-in services as a second implementation of the registry's promise.
4. Quality tracker, frame streams and probe channel.
5. Login sessions and throttling of the admin API.
