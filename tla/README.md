# A verification development for mythen-sls

`mythen-sls` (package `sls`) is a Python client for the Dectris Mythen-II
detector, whose server speaks the SLS protocol over two TCP ports, together with
a simulator of that server. This directory models the parts that take decisions:
which greenlet, thread or client may do what to the detector, in which order,
and what each of them is told.

* `*.tla` are the specifications, `MC*.tla` and `*.cfg` the TLC instances,
  `*Proofs.tla` the theorems that TLAPS checks.
* `PROJECT.json` lists components, runs, mutants, the map from definitions to
  source lines, findings, hazards and theorems.

## 1. The system

| component | source | state | operations |
| --- | --- | --- | --- |
| Simulator acquisition engine | `sls/simulator.py` 97-171, 266-299, 538-567 | `Detector._run_status`, `Detector.acquisition`; per acquisition: params, `nb_frames_left`, `nb_cycles_left`, the queue `frames`, the greenlet `task` | START_AND_READ_ALL, the producer greenlet, STOP_ACQUISITION, connection errors |
| Simulator command handlers | `sls/simulator.py` 174-264, 301-536 | `Detector.config`, `last_client` | TIMER, DYNAMIC_RANGE, SETTINGS, NB_MODULES, SPEED, the mode commands, GET/SET_MODULE, UPDATE_CLIENT, TIME_LEFT, RUN_STATUS |
| Client | `sls/client.py` | `Connection.sock`, `Connection.reader`, `Detector._info`; per `Acquisition`: `_gen`, `_info`, `_stopped`, `nb_frames` | one command per connection; the raw and the progress generator; `stop`, `__exit__` |
| Wire protocol | `sls/protocol.py` | none of its own: what is in the socket and in the buffered reader | `request_reply`, `fetch_frame(s)`, get/set pairs |
| Thread acquisitions | `sls/acquisition.py` | `acq`, `queue`, `_stopping`, the thread | prepare, start, stop, `_acq_loop` |
| Lima plugin | `sls/lima/camera.py`, `tango.py`, `cli.py` | `_acq`, `_acq_thread`, `_status`, `_nb_acquired_frames` | prepareAcq, startAcq, stopAcq, the acquisition thread |
| Sardana controller | `sls/sardana/ctrl/slsctrl.py` | `acq`, `state` | LoadOne, StartOne, ReadOne, StateAll, AbortOne |
| GUI | `sls/gui.py` | `_stop`, `acq_thread`, `mon_thread` | start, stop, the acquisition and monitor threads |
| Configuration files | `sls/config.py`, `settings.py`, `save.py` | none | load and save: parsing and a straight sequence of client calls |
| ssh control, shared memory view, enum backport | `sls/server.py`, `shm.py`, `enum36.py` | none | shell commands, a ctypes layout, vendored code |

How they interact. A client opens one TCP connection per command to the control
port (4-byte command, arguments; reply `OK`, `FORCE_UPDATE` or `FAIL` and a
value) and to the stop port (status, time left, stop). START_AND_READ_ALL keeps
its control connection and streams `OK` + frame, and `FINISHED` + a message, over
it. The simulator serves each accepted connection in a gevent greenlet; all
greenlets share one `Detector`. The producer greenlet of an acquisition and its
handler share the acquisition's queue; the stop handler shares
`Detector.acquisition` with all START handlers. On the client side the threads of
the GUI, of Lima and of Sardana share one `Detector` object, with one control and
one stop `Connection`.

What is hard, and therefore listed under `hazards` in `PROJECT.json`:

* greenlets switch at queue gets, socket writes, sleeps and inside `kill()`, so
  a finally clause, a stop and a START may interleave over the single slot
  `Detector.acquisition`;
* the producer is only *scheduled* by `start()`, so a stop can reach it before
  it has run once;
* back pressure: a client that does not read blocks the handler in a write while
  the queue goes on growing;
* the client is told FINISHED while the detector still rests, and an iteration
  that ends early leaves frames in flight;
* `Connection.close` does not end the TCP connection at once, and threads
  overwrite each other's `sock` and `reader`;
* counters that mean different things at different times (`nb_frames_left`), and
  reports that read several of them one after the other;
* `select` watches a socket whose messages a buffered reader may have taken;
* nobody waits for an aborted Sardana thread, and a Lima thread clears `_acq`
  whatever acquisition it holds by then.

What makes each component correct:

* *engine*: frames are conserved and ordered; an acquisition that nobody cut is
  complete; status and slot agree; a finished or stopped acquisition leaves no
  greenlet; nobody waits for ever; the whole is a detector that serves one
  client at a time (`DetectorService`);
* *client acquisition*: a result presented as complete is complete; an
  acquisition that is over for the program is over for the detector; errors only
  where something went wrong; every iteration ends;
* *commands*: a set is seen by the next get, a failed command changes nothing,
  a client is told that its cached info is out of date;
* *thread users*: at most one acquisition thread, a stop reaches the acquisition
  that is running, the status shown is the status of that acquisition.

## 2. Modules

| module | extends | what it is |
| --- | --- | --- |
| `DetectorService` | | the abstract promise: one owner at a time, at most the frames asked for, given back only when complete or interrupted |
| `SimServer` | | the acquisition engine, for any set of control and stop connections |
| `MCSimServer` | `SimServer` | symmetry for TLC |
| `MythenSession` | `SimServer` | a client program that runs acquisitions 1..N one after the other, composed with the engine |
| `SimServerProofs` | `SimServer`, `TLAPS` | the inductive invariant, and the account of the frames of each connection and of their cycles, STARTs may overlap; the stronger invariant when they do not, and that the engine implements `DetectorService` |
| `MythenSessionProofs` | `MythenSession`, `SimServerProofs` | a program's acquisitions: what it is given, and what it leaves behind |
| `Commands` | | the configuration commands: dispatcher, handlers, client wrapper |
| `MCCommands` | `Commands` | two clients on one host, one request of each way to succeed and to fail |
| `EnsureState` | `Commands` | the `ensure_state` context manager around any sequence of commands |
| `MCEnsureState` | `EnsureState` | one program, properties that share a field, and one that cannot be set |
| `ConfigurationProofs` | `EnsureState`, `TLAPS` | the inductive invariant of the commands and its theorems; `ensure_state` restores what it found, up to the property that cannot be set |
| `ProgressSession` | `SimServer` | the default (progress) generator, composed with the engine |
| `ProgressSessionProofs` | `ProgressSession`, `SimServerProofs` | reports stay behind the detector, a return is a whole cycle, a stop comes before an exception |
| `ClientThreads` | | threads that share one `Detector`: the steps of `Connection`, against the simulator |
| `ClientThreadsProofs` | `ClientThreads`, `TLAPS` | lemmas for every program of such threads: types, and one's own Connection |
| `GuiThreads` | `ClientThreads` | the GUI: Qt thread, acquisition thread, monitors |
| `MCGuiThreads` | `GuiThreads` | tags and the constraint for TLC |
| `GuiThreadsProofs` | `GuiThreads`, `ClientThreadsProofs` | the inductive invariants of the window and of the program, and their theorems |
| `SardanaController` | `ClientThreads` | the Sardana controller and the threads of its acquisitions |
| `MCSardana` | `SardanaController` | threads and the constraint for TLC |
| `SardanaProofs` | `SardanaController`, `ClientThreadsProofs` | the calls and blocks of the pool and its threads, the frames up to the queue, the pool that nobody disturbs |
| `LimaInterface` | `ClientThreads` | the Lima plugin and the threads of its acquisitions |
| `MCLima` | `LimaInterface` | threads and the constraint for TLC |
| `LimaProofs` | `LimaInterface`, `ClientThreadsProofs` | the calls and blocks of the plugin's threads, the newest acquisition and its frames |

### 2.1 SimServer

One action is the code a greenlet runs between two points where it may switch.
A control connection `c` stands for the connection, its handler greenlet and the
`simulator.Acquisition` the handler creates: `pc[c]` is where the handler is
(`serving` is the `for frames in self.acquisition.frames` loop, `killing` is the
blocking `kill()` of the finally clause, `failing` is the exception path of
`_handle_ctrl`, `closing` is `conn.flush()`), `task[c]` is the producer greenlet
(`spawned` before it first runs, `exposing` and `resting` are its two sleeps,
`cancelled` is killed before it ran).

| action | code |
| --- | --- |
| `SetTimer` | TIMER with a value, at any moment |
| `StartAndReadAll` | `start_and_read_all` up to the first wait on the queue |
| `TaskStart`, `Expose`, `Rested` | `Acquisition.run` and `gen_frames`, from one sleep to the next |
| `KillReturns`, `KillBlocks`, `KillLands` | `Acquisition.stop`, that is `Greenlet.kill()`: at once on a greenlet that is dead or never ran, otherwise through the hub |
| `WriteFrames`, `LoseFrames`, `WriteFails` | `conn.write` of one queue entry: taken, lost with a `BrokenPipeError` that is ignored, or ended by another `ConnectionError` |
| `EndOfFrames`, `Finally`, `FinallyKilled`, `Release`, `CloseConn` | the `None` of the queue and the finally clause |
| `SendFail` | the FAIL reply of `_handle_ctrl` (`None.stop()` raises `AttributeError`) |
| `StopAcquisition`, `StopKilled` | the stop handler |
| `ClientReads`, `ClientCloses` | the most general client |

Abstractions. The bytes of a frame are one message, `last` when FINISHED and its
message travel with it. Exposure times are only "a sleep"; a frame period is
`dead_time`, zero or not. Python's truth of `self.acquisition` is "not None".
A socket holds `SocketRoom` messages before a write blocks. The command handlers
that touch other configuration fields do not appear: an acquisition reads
nothing of them after `prepare`.

The kill of a greenlet that never ran is reachable: `start()` only schedules it,
and a START and a STOP that become readable in the same turn of the hub are both
handled before the hub runs what they scheduled.

History variables: `sent` counts the frames written for a client that was there;
`cut` are the acquisitions that a kill or a lost client ended.

`Overlap` says whether a START may arrive while another one is served. The
protocol has nothing that prevents it, so both values are checked; `FALSE` is how
one program at a time uses the detector.

### 2.2 MythenSession

The client half. Acquisition `k` of the program uses control connection `k`;
`client[k]` is where `Acquisition._raw_run_gen` is and `call[k]` the
`stop_acquisition()` call it waits for. `Prepare` also models what
`Connection.connect` does to the previous acquisition: `close()` only closed the
socket object and the reader keeps the TCP connection open until the next
`connect` replaces it, so the server learns only then that the client left.
`Receive`, `FetchFinished`, `FetchFail` and `FetchEof` are the four outcomes of
`fetch_frame`; `ConsumerStops` is `acq.stop()` in the loop's body;
`ConsumerLeaves` is a `break` or an exception there, whose stop by `__exit__` and
whose second stop by the generator's own `except BaseException` are merged into
one call (both only reach the same acquisition). Stops of other programs come
from other `Detector` objects, so they share no `Connection` with this one.
Messages on different connections arrive in any order.

`StartArrives`, `StopArrives` and `ServerRuns` are the server's own actions; only
the arrival of a request depends on the client.

### 2.3 DetectorService

Four variables (`owner`, `asked`, `delivered`, `interrupted`) and four actions.
`SimServer!Service` instantiates it with the slot, the prepared totals (`Asked`), `sent` and
`cut`; `Implements` is checked and proved without overlap. It says that the slot is never
taken from an acquisition that still has frames to send and was not interrupted,
that frames go to the slot's owner only, and that it is given back for a reason.

### 2.4 Commands

The state of the server is the configuration (`config`), the lists in it (`lists`,
one variable for all detectors of a process, because `sanitize_config` copies the
default configuration shallowly) and `last_client`. A client makes one call at a
time: `stage[k]` is `sent` while the request is on its way, `accepted` when the
greenlet of the connection has chosen the type of its reply and waits for the
command, `replied` when the handler has run. Handlers do not switch, so
`Handle` and `UpdateClient` are one action each.

| definition | code |
| --- | --- |
| `Wire` | what a property of the client sends: `lock` writes READOUT_FLAGS, 24 bits are sent as 32 |
| `Raises` | the exceptions of the handlers: index out of range, a value that the enumeration lacks, the undefined names of `synchronization_mode` and ACTUAL_TIME, a clock that was never set |
| `Store`, `Answer` | what the handlers write and return; -1 is GET_CODE, so a set to -1 is a get |
| `Accept` | `_handle_ctrl` up to `read_command` |
| `ReplyFail` | `request_reply` on FAIL: `SLSError`, or `ConnectionError` when the buffered reader has already taken the message that `recv` looks for |
| `ReplyOK`, `ReplyUpdate` | `auto_ctrl_connect`: on FORCE_UPDATE, or without info, `update_client` runs on a new connection before the call returns |

Abstractions. The timers, speeds and modes are the fields they are stored in; a
module's data is one value. Seconds are not converted to nanoseconds. The fields
of UPDATE_CLIENT are those that a command can change.

### 2.5 EnsureState

The program reads the properties in `Keys` one after the other (`DumpGet`,
`DumpGot`), runs any requests (`Body`) and sets each property to what it read
(`RestoreSet`, `RestoreDone`). A failed read refuses to enter (`refused`), a failed
set leaves the loop (`raised`). The program has the detector to itself: what other
programs change in between is not restored by anybody.

The list that `dump_state` makes of `dir()` contains `synchronization_mode`, and the
simulator fails every set of it. So `ensure_state(detector)` never ends without an
exception: it restores the properties that come before `synchronization_mode` and
leaves the later ones (`tot_clock_divider`, `tot_duty_cycle`, `wait_states`) as the
body left them. That is what `RestoredUpToFailure` says, and `raised` is the end of
every such block. `EnterGiven` is `ensure_state(detector, state)`: a program that
knows passes a dictionary of its own. It is modelled with the values that the
detector has at that moment, for one of the lists of keys in `Given`, in the order
of `dir()`; a dictionary in another order, with `lock` after `readout`, would not
bring the readout flags back.

### 2.6 ProgressSession

One acquisition of `Acquisition._progress_run_gen` against the engine of
`SimServer`. `select` is `Readable`: what is in the socket, or its end.
`FetchWire` takes a message from the socket and any number of the following ones
into the reader's `buffer`, which `FetchBuffered` empties, but only when the
socket is readable. FINISHED is a message of its own here: after the last frame
it is in the buffer or in the socket (`finished`). A report is three requests to
the stop port, one action each (`ReportBegins`, `ReportReads`, and the exposure
time in `ReportEnds`, `ReportFails` or `ReportLost`), between which the engine runs;
`Report` is the arithmetic of `progress_report`, with its `+ 2` and, in `Frames` and
`Cycles`, its `or 1`: a timer of 0, the simulator's default, counts for one.

The exposure time of an acquisition whose greenlet has not run is answered FAIL. What
the generator makes of it depends on the reader of the stop connection: the FAIL is
an `SLSError`, which leaves the block without a stop (`ReportFails`), or, if the
reader has the message of it already, a `ConnectionError`, which stops the detector
first (`ReportLost`). After the first the detector goes on with an acquisition that
nobody reads; `RaisedStopped` is about the second.

### 2.7 ClientThreads

What three programs of the repository have in common: several threads use one
`client.Detector`, so they share `sock` and `reader` of its two `Connection`
objects, which have no lock. One action is one access to these attributes:

| action | code |
| --- | --- |
| `Begin` | a method of the detector is called: a command in its own `with` block, START (whose block stays open), the read of a frame in it, or its exit |
| `Connect`, `Assign` | `connect`: `self.reader = sock.makefile()`, then `self.sock = sock` |
| `Write`, `SocketGone` | `self.sock.sendall` and the choice of the reader to read from; without a socket, here and in `recv`, AttributeError |
| `TakeFrame`, `TakeReply`, `TakeEof` | `read`: the bytes, or the end of the stream, which closes the Connection |
| `UpdateClient` | the reply was FORCE_UPDATE, or there is no info yet: `update_client` connects the same Connection again inside the block, and `closes` counts two exits |
| `TakeFail`, `TakeMessage` | a FAIL, whose text `read_message` takes from the socket of that moment and not from the reader: `SLSError`, or `ConnectionError` after a close, or bytes of another call |
| `CloseTest`, `CloseClear` | `close`: the test of `self.sock`, and `self.sock.close(); self.sock = None` |
| `Serve...`, `RunAcquisition`, `Produce`, `LoseClient`, `EndAcquisition` | the simulator at the granularity of handlers |
| `ForeignStop` | the stop of another program |

A TCP connection lives as long as a reader or a socket object refers to it
(`Connected`), which is what defers the effect of `close()`. Messages carry no
name, so a thread that reads another's answer takes it for its own or fails on
it (`Understood`); `tag` records whose it was and `mixed` whether that happened.
`crossed` records the Connections that two blocks used at the same time. The
simulator here is a coarser version of `SimServer`: no back pressure, no dead time,
one cycle. A handler that is `hung` is the one of finding 1.

### 2.8 GuiThreads

The Qt thread (`StartPressed`, `StopPressed`), the acquisition thread from
`AcqPrepares` to `AcqEnables`, one action per call or per statement that touches
`_stop`, `acq_thread` or the button, and the monitors. A monitor exists for
exposures of more than a second, so `StartPressed` may or may not create one, if
a name is free. The finally clause is split where the Qt thread or a monitor can
see it half done.

### 2.9 SardanaController

The pool calls one method of the controller at a time (`method`, `Pool`); each
`AcquisitionThread` has a thread of its own that `AbortOne` does not join.
`ReadOne` raises without an acquisition, which an abort takes away. `CtrlPar` is one
command, or the representation of the detector (`config`): commands on the control
Connection with the status on the stop Connection among them (`ParSends`); one stands
for those before the status and one for those after it.
`StartOne` writes START in the pool's thread and `StartEnds` hands the generator,
with its open block, to the new one. `phase` is what the pool is waiting for:
it loads when the last state it got is On, reads until the queue is empty and
the state is On, and may abort or touch a parameter at any time. That is how
Sardana uses a one-dimensional controller; it is not in the repository, and
`Collected` and the fairness of the pool are marked external.

### 2.10 LimaInterface

The control thread calls `prepareAcq`, `startAcq` and `stopAcq` one at a time;
each acquisition has its thread (`Loop...`). `bool(self._acq)` is
`client.Acquisition.__len__`, which sends a command when no info is cached:
`StopAcq` and `StopMeasured`. A command that fails makes the method raise before it
has changed anything (`MethodRaises`), in `prepareAcq` too. The test and the use of `_acq` are apart (`tested`).
`LimaIdle` is what Lima's core requires before it prepares (external): the plugin
is Ready and all frames of an acquisition that was not stopped have arrived.

## 3. Runs

| run | bounds | shows |
| --- | --- | --- |
| `server_exclusive` | 2 connections, 1 stop, 0 or 2 frames, 1 or 2 cycles, a frame period, room 1 | types, frame conservation, completeness, FINISHED with the last frame of each cycle, IDLE is quiescent, no FAIL, `Implements` |
| `server_overlap` | 2 connections, 1 stop, 2 frames, a frame period, room 1, fairness | status and slot agree, the slot's owner is being served, no lost wake-up; an acquisition fails only if there is another one; every acquisition ends unless its greenlet was killed before it ran |
| `session_stops` | 3 acquisitions, 0 or 3 frames, own stops and one of another program | a returned acquisition that was not stopped is complete; what is over for the program is over for the detector; a START never takes the detector from an acquisition |
| `session_live` | 2 acquisitions, own stops, loops that are left, fairness | every iteration ends, and with an error only after a stop, unless an earlier one was left |
| `commands` | 1 detector, 2 clients of one host, 13 requests, lists of length 2 | types; a failed command changes nothing; an answered client has its info |
| `ensure_state` | 1 client, 6 properties of which 2 share a field and one cannot be set, 8 requests | the block raises at `synchronization_mode` and nowhere else, with the properties before it restored; with a state that leaves it out all are |
| `progress` | 0 to 3 frames, 0 to 2 cycles, a frame period or none, room 2, one stop, fairness | a report never claims frames the detector has not produced; a returned cycle is whole; when it raised after a stop nothing acquires any more; every iteration ends |
| `gui` | 2 acquisitions of 2 frames, 1 monitor, 1 stop (of the user or of another program), 2 sockets per thread and port, fairness | types; while no two blocks use a Connection at once everybody gets his own answer; one acquisition at a time; no error after a stop; silence means complete; the button comes back |
| `sardana` | 2 acquisitions of 2 frames, 1 abort, 1 parameter or 1 stop of another program, fairness | a cut acquisition never passes for a complete one; an undisturbed pool sees no error; otherwise only ReadOne raises, without an acquisition or for one that is short; the end is reported |
| `lima` | 2 acquisitions of 2 frames, 1 stop, 1 stop of another program, fairness | Ready means complete or stopped; a stop that came back has released the detector; it comes back |

Why these bounds are enough for the cases to happen. Two connections are needed
for two finally clauses to meet over the slot; `StatusCorrect`, `OwnerCorrect` and
`WakeupCorrect` prove the invariants of `server_overlap` for any number. Room 1
makes a write block as soon as the client is one message behind; room 2 lets the
reader of `progress` take two messages at once. `NbFrames` has 0 (which means 1)
and a value of at least 2, so that a frame is the last one or not; two cycles make
`nb_frames_left` restart. One stop per acquisition plus one of another program
lets a stop be late. Two clients of one host are what it takes for the server to
answer OK to a client that it never informed; the requests of `commands` contain
each branch of `Raises` and `Wire`. In the runs of threads the second acquisition
is the one that a late thread, an old monitor or a deferred close can disturb;
two TCP connections per thread and port are one that is still served and the one
that replaces it.

The constraint `Crossings` of these three runs bounds what happens after the first
accident. Once two blocks have used a Connection at the same time, every answer
may be somebody else's and most properties say so in their premise; the runs
explore what that step itself breaks and how each thread gets out of it, but
not a further stop of another program, nor (as each MC module says) a whole
further acquisition. `gui` explores a stop of the user or one of another program
in a behaviour, and `sardana` a parameter or such a stop, not both, and a parameter
with one acquisition only. No command of `prepareAcq` fails in `lima`: `LimaIdle` keeps
it away from a thread that could cross it, and two acquisitions are too few for one
that was left behind; the proofs cover that step. `lima` reaches the
step that sets `wiped`, but not the third acquisition that suffers from it; what
holds without that step is proved for any number (section 5).

Deadlock is checked in `server_exclusive`, `server_overlap`, `stop_hang`,
`session_cycles`, `commands` and `progress`. The other runs really may stop: a
stop that is handled before the producer first ran leaves the handler waiting for
ever (finding 1), and so does the program that waits for it; a thread that
waits for an answer that another one took waits for ever; and `EnsureState` and
the programs of threads end.

### Findings (runs that TLC must find violated)

1. `stop_hang`: a stop that reaches the producer before it ran leaves
   START_AND_READ_ALL and its client waiting for ever (`simulator.py:171`).
2. `session_cycles`: FINISHED closes every cycle, and the client takes the first
   one for the end: an acquisition with more than one cycle ends after the first
   (`simulator.py:145`).

More disagreements are visible in the models and have no run of their own.

* With two STARTs served at once the first finally clause clears the slot and
  reports IDLE while the other producer still runs (`simulator.py:563`):
  `IdleMeansQuiescent` and `NoFailReply` fail with `Overlap = TRUE`.
* After a stop the simulator closes the connection instead of sending FAIL, so a
  stopped acquisition raises `ConnectionError` in the client instead of ending
  quietly (`simulator.py:567`, `client.py:564-572`).
* The getter of `dynamic_range` compares a pair with 32, so the user is shown the
  32 bits that the detector stores for 24 (`client.py:348`).
* The simulator cannot set the synchronization mode, and the restore loop of
  `ensure_state` ends at the first set that fails (`simulator.py:457`,
  `client.py:629`). Its docstring (`client.py:620-623`) promises that the detector "is
  brought to the initial state"; without a state of the program's own that is never
  so for the properties that follow in `dir()`.
* With a frame period the client is told FINISHED while the producer still rests
  and owns the detector (`simulator.py:165`): `session_stops` has no frame period,
  with one `OverMeansReleased` fails.
* A program that leaves its loop stops the detector and closes the connection, but
  the TCP connection stays open until the next command, so the handler may hang in
  a write (`client.py:52`).
* All detectors of a process share the lists of the default configuration
  (`simulator.py:80`).
* A progress report before the producer first ran raises `SLSError`, through the
  clause that does not stop the detector (`simulator.py:530`, `client.py:600`).
* A failed `LoadOne` leaves an `acq` without a thread, and every later `StateAll`
  raises (`slsctrl.py:98`). `ReadOne` drops the frames it has drained when an error
  follows them (`slsctrl.py:82`). An aborted thread that is late can take frames of
  the next acquisition, whose reader is the Connection's by then: without its
  condition on `crossed`, `NeverSilentlyShort` fails.
* A late Lima thread clears the `_acq` of the acquisition prepared in between
  (`camera.py:167`): `stopAcq` may then raise `AttributeError` while the detector goes
  on, and without `~wiped` `StopMeansReleased` fails. A stop between `prepareAcq`
  and `startAcq` joins a thread that was not started and raises `RuntimeError`;
  after an error the status stays `Exposure`; until the thread has begun it is
  `Ready`.

## 4. Fairness

`Fairness` (in `SimServer`) is weak fairness of each producer, each handler and
each pending kill: the gevent hub runs every greenlet that is ready and every
timer fires. Weak fairness of `ClientReads` says that a client that stays
connected keeps reading; in `MythenSession` and `ProgressSession` it is the
program that goes on iterating. Nothing forces anybody to start, stop or leave,
and new timers need not be set.

In the modules of threads each thread, each call in progress and each server
handler is weakly fair: the operating system schedules every thread that can run.
A thread that waits in `read` for an answer nobody writes is not enabled, which is
how it waits for ever. The user need not press a button, Lima need not call a
method, another program need not stop anything. The Sardana pool finishes the
method it is in, starts what it loaded, asks for the state until it is On and
reads; it need not load, abort or touch a parameter.

## 5. Proofs

`SimServerProofs` proves, for any set of connections, any timers, any room and
with overlapping STARTs, that the specification keeps

    IInv == TypeOK /\ StatusTracksAcquisition /\ OwnerIsServing /\ TaskStarted
            /\ CountersPositive /\ VictimKnown /\ DeadQueueEnds

The parts beyond the four checked invariants are what makes it inductive:
`CountersPositive` (a live producer has at least one frame and one cycle to go, so
that no decrement leaves `Nat`), `TaskStarted` (a handler that is serving has a
producer), `VictimKnown` (a blocked kill has a victim, and only then) and
`DeadQueueEnds` (a producer that ended has put its `None`, which stays in the
queue until its handler reads it). From it follow `TypeCorrect`, `StatusCorrect`,
`OwnerCorrect` and `WakeupCorrect`.

Its second part proves the conservation of frames, with
overlapping STARTs too. `Account(c)` says of each connection that its `None` is the last entry of the
queue and that of a dead producer (`NoneEnds`), that a producer which has not run
has all the frames before it (`StartsWhole`), that sent, queued and to come
(`Accounted`) never exceed what was asked for, with equality while nobody cut it
(`Whole`), and that an uncut handler leaves the loop only with an empty queue. The
proof goes one connection at a time: `OwnAccount` for the steps of its own producer
and handler, `KeptAccount` for everybody else's, which leave the account alone or
end the producer and mark it as cut. The arithmetic (`CyclesAddUp`: going from the
counter of all frames to the counters of a cycle loses none) is in lemmas of its
own. `AccountingCorrect` and `CompleteCorrect` follow.

After the account comes `FinishedCorrect`, which needs the order as well as the
number. `InCycle(c)` says that, while the client is there, the entries of the queue
stand in the order of their cycle (an entry is the last of its cycle exactly when
the frames sent with it are a multiple of `nb_frames`), and that the producer's
counter says where in the cycle the next frame is. Each handler reads the queue of
its own acquisition, so this too holds with overlapping STARTs.

The last part assumes `Overlap = FALSE` and adds `XInv`: one active handler at a
time (`OneActive`), the slot holds the acquisition of that handler
(`ServesItsOwn`), its finally clause kills that one (`KillsItsOwn`) and what has
left is dead (`LeavesNothing`), and no handler fails (`NoFailReply`). `IdleCorrect`
follows; without the assumption it is false (`Release` of one handler while another
serves). The steps are proved for what they need, that no other connection was
started, which also gives `FailNeedsOtherCorrect` without any assumption: as long as
only connection `c` was started (`LoneOwns`) it finds its own acquisition in the slot,
so that a FAIL (`SendFail`) takes another START.

The module ends with `ImplementsCorrect`, `Spec => Implements`, again with
`Overlap = FALSE`, from `IInv`, `XInv` and `Accounts` together: one lemma per
action of the service says when a step of the engine is that action, and one per
step of the engine that it is. START is `Begin` because an exclusive slot is empty
when a START is accepted; a write is `Deliver`, with the detector given back when it
finds the `None` behind the last frame; the other ways through the finally clause
are `End`, which `Accounts` allows because the account is settled or cut; a kill
that ends a producer and a client that leaves are `Interrupt`; the rest stutters.

`MythenSessionProofs` is about the client's iteration and the simulator together.
The simulator's half of the session is a client that `SimServer` allows, so
`ServerInv == IInv /\ Accounts /\ CyclesInOrder` comes for free (one lemma maps each step
of the session to a step or a stutter of `SimServer`). To it `Reading` adds what
the client has read: what is on the wire is what was sent and not received, in
the order of its cycle, with a FAIL only at its end (`WireInCycle`), and an
iteration ends with the first frame that closes a cycle (`FirstCycle`). Four
steps lead from the most general to the most special result:

- `OneCycleReturned`, without any assumption: a result returned as complete holds
  one whole cycle;
- `ReturnedCorrect` assumes `NbCycles \subseteq {0, 1}`: one cycle is everything.
  With more it is false, which is the second finding of section 3 (`session_cycles`);
- `ReleasedCorrect` and `FreshCorrect` also assume no frame period and no consumer
  that leaves its loop. Both are needed: with a period the producer sleeps once more
  after the last frame and still has the detector, and a left loop closes no
  connection. `InOrder` says that the program's acquisitions do not overlap,
  `Tidy` that one that is over for the program has no handler or producer left
  in the simulator. Since the program stops iterating when it reads the last frame,
  `Tidy` has to follow that frame from the write on: a handler that still serves
  has not sent it (`LastSent`);
- `NoErrorCorrect` assumes no stops of other programs and no period, but allows
  left loops: `OwnCalls` says which connections a program's stop uses, `Caused` that
  whatever cut an acquisition was such a stop.

The assumptions are the bounds of the runs `session_stops` and `session_live`;
the number of acquisitions, frames and stops and the room of the socket are free.

`ProgressSessionProofs` proves, for any timers, any room of the socket and wherever
the reports and the stops fall,

    ProgressInv == /\ ServerInv /\ Advanced(Me) /\ GenTypes /\ Alone
                   /\ Buffered /\ Iterating /\ Counted /\ Silenced

Every step of the session is a step of `SimServer`, except that a reader may take
several messages at once (`FetchWire`), so `ServerInv` has to be carried over that
one by hand. `Advanced` ties the simulator's counters to its frames: what a running
producer has counted down is what it has sent and queued (`Produced`), and a dead
one has produced all the cycles that it has counted down; it is proved for every
connection whose client is there, also with overlapping STARTs. `Produced` never
shrinks, which is why a report made of two counters read at different moments
stays behind the detector (`Counted`): the first counter alone already bounds the
report, because `progress_report` adds two to the cycles that are left. With nothing
added (the mutant `NotAhead`) the two would have to be of one moment. That a report
can be far behind the detector is not denied. `Buffered` is the order of the cycle over what was
received, what the reader holds and what is in the socket, in this sequence, with
no FAIL in it, and `Iterating` that the loop ends at the last frame of
the cycle and nowhere else, whichever of `select` and the reader sees it first. They
give `ReturnedWholeCorrect`. `Silenced` says that the stop which precedes an exception
has left no greenlet alive or about to run (`Quiet`): a stop that is answered killed
it or found it gone, and nothing starts it again (`QuietStays`); `RaisedCorrect`
follows. `Alone` uses `ProgressAssumption`: one program, whose acquisition nobody
prepares or overlaps. Timers of 0 are among the values.

`ConfigurationProofs` proves, for any detectors, clients, hosts, values and requests,

    Inv == TypeOK /\ ConfigGiven /\ InFlight /\ AnsweredIsInformed

`ConfigGiven` (only the clocks can be missing) is why the snapshot that
UPDATE_CLIENT reports consists of values, and `InFlight` (an answered
UPDATE_CLIENT carries a snapshot) why the client that gets it is informed.
`CommandTypes` and `AnswerInforms` follow; `FailureIsAtomic` proves the action
property `FailChangesNothing` from it: a step to a FAIL reply is a handler that
raised, and `RaisedStore` says what such a handler leaves alone.

Its second part proves `RestoredCorrect`, for any list of properties, from

    EnsureInv == Inv /\ EnsureTypes /\ Settable /\ Paced /\ Remembered /\ Dumping /\ Restoring

`Dumping` says that what was read so far is what the detector has, `Restoring` that
what was written back so far is what was read (`RestoredUpTo`), also between the
simulator's handler and its reply, where an error means that the property was
`synchronization_mode` (`Refused`); `Settable` that the detector's values are such
that no other set of them is refused; `Remembered` that the dump does not change
any more. The interesting part is that one write undoes another: the property
`lock` writes the readout flags, as 0 or 1 (client.py:214-219), so they are restored
only if the property `readout` (client.py:412-417), which writes all of them,
comes later, and before the set that fails. `EnsureAssumption` says that it does
(`InOrder`), as it does in the sorted `dir()` that `dump_state` goes through
(client.py:633-646); it is asked of the programs' own states too. For a state
without `synchronization_mode` the theorem says that the block ends with every
property back.

`ClientThreadsProofs` is a library for programs whose threads share Connections
(the GUI, the controller and the camera). It proves two
invariants of any program that starts its calls with `Begin`; the program only
has to meet the conditions of the lemmas `BeginShared` and `BeginOwn`:

    SharedInv == ThreadsTypeOK /\ Placed /\ Closing /\ Served
    OwnInv    == Solo /\ (what a thread sees of its Connection while nobody crosses it)

`Placed` and `Closing` say what a thread at each point of `Connection.write_read`
holds, `Served` what the simulator's side of each socket can be. `OwnInv` says that
on a Connection on which no two threads have been at once, the socket, its request,
its replies and the reader belong to the one thread that is in a call, and that no
reply is left over between calls. `NoneAssumption` (the missing value
is neither a socket nor a call) is needed to tell the cases apart.

`GuiThreadsProofs` proves, for any monitors, numbers of acquisitions, presses and
stops, and whatever the threads do to each other's Connections,

    GuiInv == WindowTypes /\ ButtonFollows /\ StopRemembered

`ButtonFollows` says that the button and `acq_thread` are functions of where the
acquisition thread is, which is what makes `OneAcquisition` inductive;
`StopRemembered` that the flag of a stop lasts until the finally clause, from which
`StopIsQuiet` follows: the only step that shows an error is `AcqRaised`, and it
reads the flag. `ProgramInv` adds the Connections: `SharedInv` and `OwnInv`, that
only the acquisition thread uses the control Connection (`CtrlUser`), so that it is
never crossed, and `AcqInv`, whose heart is `Flow`: the frames shown, those in
the socket and those the simulator has left add up to what was asked for, until
somebody stops. From it follow `GuiTypesCorrect`, `OwnAnswersCorrect` and
`SilentMeansCompleteCorrect`, the last also when the stop Connection is crossed.

`LimaProofs` proves, for any number of acquisitions, frames, stops and stops of
other programs,

    LimaInv == PluginInv /\ (Calm => Settled)
    Calm    == crossed = {} /\ ~wiped

`PluginInv` holds whatever the threads do to each other's Connections: `SharedInv`
and `OwnInv`, the call that the control thread and each acquisition's thread makes
where it is (`CtlCalls`, `LoopCalls`), and that a thread between START and its exit
is in its own block (`LoopBlock`). `Settled` is what the three theorems need as
long as the plugin is `Calm`: only the newest acquisition is under way, and none
while one is prepared (`OnlyNewest`); `stopAcq` joins the thread it has to wait for,
also when STOP overtakes START (`StopsIt`); and the frames shown, those in the
socket and those the simulator has left add up (`Delivers`, with the `FlowOf` of
`ClientThreadsProofs`). The proof of a step from a calm state to a calm one goes
through all actions; that calm never returns once it is lost makes the rest
trivial. `LimaTypeOKCorrect`, `ReadyIsCompleteCorrect` and `StopMeansReleasedCorrect`
follow. The premise `~wiped` came out of this proof: the invariant without it is not
inductive, and TLC then found `ReadyIsComplete` itself false with three acquisitions
and two stops. An older thread in its finally clause clears `_acq` between the test
and the use of it in `stopAcq` (`camera.py:144-148` and `167`); `stopAcq` raises, Lima
believes the acquisition stopped and prepares a third one, and the thread that nobody
joined sets the status of the third to Ready. `wiped` is set at exactly that step.

`SardanaProofs` proves, for any number of acquisitions, frames, aborts, parameters
and stops of other programs,

    SardanaInv == PoolInv /\ Delivered /\ MethodsSucceed /\ CutShort /\ Blamed
    CalmInv    == spent["aborts"] = 0 /\ spent["pars"] = 0 /\ foreign = 0 => CalmNow

`PoolInv` says, as `PluginInv` does, which call each thread makes where it is, how far
the acquisition of the pool can be (`Phases`), and that the block which `StartOne` opens
is the pool's until `StartEnds` and then the new thread's until it leaves (`PoolBlock`,
`LoopBlock`): the only place where a block changes hands, so the lemmas on it use
that no call is under way then. `Delivered` follows the frames of every acquisition
from the simulator to `read` and `queued` while nobody crossed the control
Connection, and that a thread which is over has delivered all of them, or has
`failed`, `told` or been stopped (`Delivers`): from it come `SardanaTypeOKCorrect` and
`NeverSilentlyShortCorrect`. `MethodsSucceed` says that each method of the pool gets an answer
that it understands, `CutShort` that an acquisition with an error is short of a frame,
in the queue and for the pool, and `Blamed` that whatever was raised had an abort or
such an error before it: from them `RaisesOnlyCutCorrect` follows.

`UndisturbedCorrect` has no such premise: that nobody crosses a Connection is part of
what it proves. `CalmNow` says that only one acquisition is not over (`OneAtATime`),
that only the pool or the thread which took its block over is in a block (`Entered`),
that the simulator has no STOP to handle (`Unstopped`), that what it runs is the
pool's acquisition and ends when its last frame was read (`Wanted`), that an answer
IDLE to `StateAll` means that nothing runs (`Quiesced`), and that the stream in the
socket ends with its last frame and no FAIL (`Whole`). `Quiesced` and `Wanted` carry the argument:
the pool loads the next acquisition only after On, so its START finds the detector free.

The only assumptions are the named ones on the constants of each module and those
that the theorems of `SimServerProofs` (`Overlap`) and `MythenSessionProofs` state.

Every invariant and action property of the passing runs is stated by a theorem, but
for `NoFailReply`, which is the part of `XInv` that `FailNeedsOther` states more
generally. Only model-checked: liveness (`EndsUnlessCancelled`,
`IterationEnds`, `ProgressEnds`, `ButtonComesBack`, `EndIsReported`,
`StopComesBack`), which is out of the prover's reach, and the two violations of
section 3. The order in which dir() lists the properties and what Sardana's pool and
Lima's core do are not code of the repository, and are constants or external actions.

## 6. Not modelled, and plan

Not modelled: file parsing and writing (`config.py`, `settings.py`, `save.py`, whose
load is a sequence of client calls with a read back after each), ssh commands
(`server.py`), the shared-memory layout (`shm.py`), the vendored enum backport
(`enum36.py`), the command line and the network scan (`cli.py`): input and output
without state of their own. The Tango device (`tango.py`) forwards attributes to the
client, one command each; its `init_device` calls a name that does not exist, so it
has no behaviour to model. `AcquisitionIter.stop` is used by nobody. The byte
layouts, `read_frame` and the regions of interest of the protocol are data.

Planned: the lock that would make `crossed` empty, as a variant of `ClientThreads`,
with the properties of its users without their premises on `crossed`.
