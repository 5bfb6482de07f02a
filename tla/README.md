# Lumi Lab: a TLA+ model

Lumi Lab runs a pulsed-laser-deposition laboratory as a set of nodes that talk
over RabbitMQ. These modules model the parts whose correctness depends on the
order in which threads, requests, files and messages meet. TLC checks them on
small instances; TLAPS proves the safety properties for every value of the
constants. Paths below are relative to the repository (`src/lumi/...` and
`src/nodes/...`).

## The system

| Component | State it keeps | Operations | Talks to |
|---|---|---|---|
| Machine-instruction (MI) mode, `pascal/mi_mode.py` | `queue`, `update_queue`, `executions`, `current_mi_execution`, three flags per execution, a script folder | `register_commands` (also `$stop`, `$clean`), worker `run`, file observer, `next_update` | the PASCAL controller through two files; the experiment node through the `mi_mode` capability |
| Simulated controller, `pascal/sim/runner.py` | the name of the assist file, the text it read | poll, read, rename Load/Loaded/Running/Completed/Aborted | the folder |
| MI command runner, `experiment/mi.py` | `_pending`: a future per uuid | `execute`, `_on_update` | chamber node: one RPC, one lossy update stream |
| Experiment driver, `experiment/handlers.py` | `_motion`, `_pending` gate, `_current_task` | about 60 ops: moves, `begin_*`/`confirm_*` gates, long tasks | manager, journal, every client through one update channel |
| Experiment manager, `experiment/manager.py` | substrate positions and progress, pixel check, calibration, requested laser power | moves, recipes, `finish_current_position`, `restore_progress`, ... | MI runner, RHEED, growth database |
| Step journal, `experiment/journal.py` | `_last_step_id`, rows in the database | `begin`, `end` | growth database |
| Growth database, files, snapshots | SQL rows | queries | manager |
| Capability server and client, `base/mq/` | request queues (durable work queue, prefetch 8, TTL 30 s; exclusive queues), in-flight set, state and update channels | serve, drain, stream, publish, call with a deadline | RabbitMQ |
| Node lifecycle, `node/` | phase, heartbeat task | start, drain, stop, beat every 2 s | monitor |
| Monitor, registry, supervisor, agents, `system/` | a record per instance (up, down, left), waiters, an event log of 1000 | beat, leave, reap, spawn, kill, restart | every node |
| Storage, `storage/`, `pascal/auto_storage.py` | one `Recorder`: indices, HDF5 file, buffer of samples; a pool of 8 threads | `start_recording`, stream callbacks, `save_*`, `stop_recording` | camera, integrator, chamber log, detection |
| API bridge, `api/` | fan-out queues per browser, subscriptions, users | bridge, settings, auth | capability clients |
| MCP server, `mcp/` | token store | tools, OAuth | capability clients |
| Chamber log, `pascal/log_reader.py`, `log_archive.py` | read offset, tail | poll, archive | log file |
| Simulated chamber, `pascal/sim/model.py`, `script.py` | temperature, pressure, motors | advance, execute a script | controller |
| Cameras, `base/camera/`; RHEED, `rheed/` | a queue per consumer, fragments, boxes and their caches; one thread each for camera, compressor, integrator | grab, encode, integrate, register and remove a box, stream | streams |
| Recipes, `experiment/recipes.py` | the index they read at the start | `perform_pixel_deposition` and others, as a sequence of requests | experiment node |
| `rheedsim/`, `detection/`, `opt/` | numeric | - | - |
| Contracts, policy, code generation | declarations | - | - |

How they interact on the path that grows a film: a client sends
`perform_deposition` to the experiment node. The driver claims the motion,
shows the task, opens a journal row and spawns the task. The manager makes a
script; the MI runner registers a future under a fresh uuid and calls
`register_commands` on the chamber node. The chamber queues the uuid; its worker
writes script and assist file; the controller renames the assist file as the
script proceeds; the observer turns each rename into an update; the update
stream carries it back; the future resolves; the task releases the claim and
pushes its result.

What makes this hard:

* four parties share one folder and one object without locks that span more than
  one file operation (MI mode);
* `queue.put` and `queue.get` block the event loop, which is also the only
  producer and the only publisher of updates;
* completion travels on an exclusive no-ack queue, submission on a durable one:
  one may be lost, the other outlives its caller;
* the driver serves up to eight requests at once and awaits in the middle of
  each; the gate, the claim and `current_task` are single slots;
* nodes crash, restart and are reaped, and their last words arrive on another
  queue than their heartbeats.

The properties that would make each part correct are listed with the hazards in
`PROJECT.json`; the sections below say which are checked and proved.

## Modules

| Module | Models |
|---|---|
| `MiMode` | `MIModeServer`, its observer and worker threads, `MIModeHandler`, and the controller of `SimMIBackend` |
| `MCMiMode` | its instance for TLC |
| `MiModeProofs` | its theorems |
| `MiPromise` | what `MiCommandRunner.execute` promises its caller |
| `MiPipeline` | `MiMode` composed with the runner, the request queue, the acknowledgement and the update stream |
| `MCMiPipeline` | its instance for TLC |
| `MiPipelineProofs` | its theorems |
| `ExperimentDriver` | `ExperimentHandler`: claim, gates, tasks, pushes |
| `MCExperimentDriver` | its instance for TLC |
| `ExperimentDriverProofs` | its theorems |
| `NodePresence` | heartbeats and goodbyes of the nodes, the monitor's registry, reaper and `wait_for` |
| `MCNodePresence` | its instance for TLC |
| `NodePresenceProofs` | its theorems |
| `RpcPromise` | what a call promises its caller |
| `CapabilityRpc` | `CapabilityClient.call`, `CapabilityServer` and the broker's work queue, with drain, crash and lost connections |
| `MCCapabilityRpc` | its instance for TLC |
| `CapabilityRpcProofs` | its theorems |
| `SubstrateBook` | which positions of a substrate are spent: manager, database rows, the pixel recipe |
| `MCSubstrateBook` | its instance for TLC |
| `SubstrateBookProofs` | its theorems |
| `RecorderPool` | `Recorder`, `RecorderServer` and `stop_recording` |
| `MCRecorderPool` | its instance for TLC |
| `RecorderPoolProofs` | its theorems |
| `RheedStreams` | the frame fan-out, `VideoCompressor`, `MultiBoxIntegrator` and `_stream_loop` |
| `MCRheedStreams` | its instance for TLC |
| `RheedStreamsProofs` | its theorems |

### MiMode

State and code correspond by name: `queue`, `executions` and `current` are
fields of `MIModeServer`; `finished`, `aborted` and `stopped` are the sets of
executions whose flag is set; `updates` is `update_queue`; `script` and `assist`
are the two files, `assist` as the set of prefixes under which the assist file
exists (`Idle` is the bare name); `events` are the file events that watchdog has
queued. `lpc`, `wpc`, `opc` and `cpc` say where the loop, the worker, the observer
and the controller are, `wfile` which file `clean_up` is at. `started` and `done`
are history: what the controller really ran; `missed` is too: an end was
dispatched while no execution was current.

Every window between two operations that other threads can see is one step:
`queue.empty()` and `queue.get()` in both the worker and `clear_queue`;
`queue.put` and the entry in `executions` (the entry is written twice, by
`create_mi_execution` and by `register_commands`; one step stands for both);
writing the script, writing the assist file, setting `current_mi_execution`; the
unlinks, the rewrite and the flags of `stop()`; the `exists()` and the `unlink()`
of each of the four files of `clean_up`; the observer's iteration over
`executions`, under a lock that the loop does not take when it inserts. An
exception is a branch that leaves the rest of the handler undone; one that leaves
a thread's `run` ends the thread (`wpc`, `opc` or `cpc` is `"dead"`). A `$clean`
that runs while the controller is renaming takes the renamed file from under it,
and one that runs inside `clean_up` from under the worker, as the code does.

`_execution_lock` is held by the worker from `WorkerLock` to `WorkerFinish` and by
the observer from `Watch` to `WatchList`. `WorkerDeath` names the three races that
end the worker; `Wedged` says that the worker or the observer is gone or that an
end was `missed`, which is what `ScriptFinishes` excepts, since nothing in the
code recovers from it.

Abstractions: a uuid is a model value, submitted once; a script's text is its
uuid; the observer sees every rename once and in order. Not modelled: `hold` and
`resume`, which nothing calls.

Constants: `ColdStart` says whether the files that `run` creates at start are
still waiting for the controller. `MaxSpecials` bounds the `$stop` and `$clean` commands
of a behaviour; `specials` counts each kind, because most of the properties
survive a `$clean` and none but the bookkeeping survives a `$stop`.

### MiPipeline and MiPromise

`MiPipeline` extends `MiMode`: `Submit`, `ReceiveAck`, `AckTimeout`,
`WaitTimeout`, `Deliver` and `Finish` are the steps of `execute`; `Serve`,
`Reply` and `Publish` join the chamber's own steps to the message each consumes
or produces; `Lose` drops an update, and `Observe` notes the one of an end that
finds `update_queue` full. The acknowledgement says what there is of the
execution when it is made: unfinished, finished, or nothing, in which case the
handler calls it "special"; either of the last two is the result of the call
(`ReceiveAck`). `CallReturns` excepts, for calls without a deadline, a lost update
and the races of `Wedged`. A progress update is published by the code
and ignored by `_on_update`; it is left off the wire. A request is never lost
(durable queue, publisher confirms) but may outlive the call that sent it.
`Unbounded` are the calls made without a deadline. `MiPromise` has the calls and
the set of scripts that ran; `KeepsPromise` instantiates it with the calls'
outcomes and `done`.

### ExperimentDriver

A call runs one op, and one step is what runs between two awaits. `motion`,
`pending` and `task` are `_motion`, `_pending` and `_current_task`; `stash` is
the manager's `_pending_laser_power`, by the call that set it; `view` is the
picture of the last `_push`. Each gate carries a fresh id in the code; a call
opens at most one gate, so here the call is the id. `saw` is the gate on show
when the caller sent its request, `checked` the gate that `_require_pending`
found. Ops that differ only in the motor they move are one op (`set_target`),
likewise the two moving recipes (`perform_deposition`) and the three thermal
tasks (`to_temperature`). Any await may fail (`Fail`, `EndTask`), and the one of a
script, in a move or a ramp, may never end (`LoseCompletion`): its completion is
one message that can be lost, and `MiCommandRunner.execute` has no deadline by
default. The call then stays where it is (`"lost"`) with all that it holds. The
role poll looks at its gate and then for the marker, with an await in between
(`RoleLook`, `RoleTagged`): a gate that is replaced then does not stop the move.
Not modelled
here: ops that touch none of the three slots (listings, substrate bookkeeping).

### NodePresence

`life` is where each node's process is: beating from `Start`, still beating
while `drain()` awaits its goodbye (`draining`), silent afterwards. `beats` and
`leave` are what lies on the monitor's two queues, by age, so the two are taken
in any order of one to the other; `due` counts down to the next turn of the
heartbeat loop. `status` and `age` are the registry's record of an instance and
the seconds since its `_last_seen`; `ask` is each client's `wait_for`. The
monitor may crash: its records, its exclusive queues and its clients' calls go
with it, the nodes go on.

Time is counted in whole seconds. `Tick` passes one, when every loop that is due
in this second has run and, unless the monitor's loop is blocked, the reaper has had
its turn. So an order within a second is free, and what the code does "about every
second" is done once in each. A message may wait for as long as the broker keeps
it: `Queued` drops what is older than `Expiration`, the three intervals that
`_publish` sets. The monitor's loop may be blocked for up to `Stall` seconds
(`Block`); what it has been handed by then no longer expires (`Handed`), so that a
beat may be taken in at an age of `Expiration + Stall`. `dead` counts the seconds
since a process ended, up to `LongDead`, one more than that.

`NoResurrection` says that no record comes up for a node that is long dead, which
is what the expiration is for (`heartbeat.py:102-104`): its mutant, a beat without
one, breaks it. A node that has stopped more recently can come back up; the code
does not prevent it. `NoFalseDown` claims something only as long as nothing has
been backed up (`backlog`: a message older than `Delay`, or a blocked monitor), and
for that `TimingAssumption` says what the broker may lose: a beat of a live node
gets through at least every `Gap` seconds, and `Gap + Delay` is within the TTL. With
the code's numbers (a beat every 2 s, TTL `max(2 * 3, 5) = 6`) `Gap = 4` and
`Delay = 2` are one lost beat and two seconds. `Ttl + Stall < Grace` has a record
marked down before it is forgotten.

Abstractions: all instances are of one equipment, since the registry and
`wait_for` never relate two; a record is its status and its age; the events a
handler emits go to a bounded log that nothing here reads. An instance id is
used once, as the nodes make a fresh one at each start.

### CapabilityRpc and RpcPromise

`call` is how each call stands with its caller; `replies` the answers on their
way to it; `queue` the durable work queue and `shed` what the broker dropped from
it. A request may be delivered more than once: each delivery has a slot of its
own in `at` (what the server does with it), `by` (the instance) and `unacked`.
Handling, replying and acknowledging are three steps, as `_on_request` orders
them. An instance consumes from `Start`, consumes no more from `Drain`, and leaves
when nothing is in flight (`Leave`) or at its deadline (`LeaveForced`). It may
crash, or lose its connection; the broker then puts back what it held, while the
instance, if it lives, goes on handling it (`Blip`, `Reconnect`). `done` and `cut`
are history: the outcomes of a request's runs, and the faults that met it.
Timers may fire at any moment.

Codecs, update and state broadcasts, and control requests are left out; the two
of them that start and stop a stream are in `RheedStreams`.

### SubstrateBook

`plan`, `rows`, `sample` and `root` are the substrate, experiment and sample
rows; `stack` is `manager.substrates` with `current_position_id` and
`_accessed_position_ids` of each copy; `recipe` is where the pixel recipe is and
the `pixel_index` it read; `mask` is where the mask lets the plume through. One
action is one request, or one step of the recipe between two requests, so that
whatever an operator does may come in between. A handler commits after each
statement, and where a crash between two statements leaves something behind
there is an action for it (`RegisterTorn`, `UpdateTorn`). `resume_substrate` reads
first and loads last, so what is served between is another pair of actions
(`ResumeBehindRetire`, `ResumeBehindUpdate`): the copy is loaded as it was before
the correction. Each row also carries
the place it was grown at, which the program does not store: `RowsTellTruth` and
`spoilt` compare with it.

The book does not survive everything, and the code does not say that it does.
`slips` records what happened that no promise covers: a growth whose record was
never written, a record without its finish, an operator's correction in the
middle of a recipe, one substrate loaded twice, positions dropped (in memory
only), a reopening by force, a crash halfway through creating sample rows, a
position reopened below finished ones (`gap`), a retired growth made active
again after its position was reopened (`reinstated`), a copy loaded as it was
before a correction (`stale`). Every property names the slips
it does not survive, and holds whatever else happens:

| | claims nothing after | holds whatever the rest |
|---|---|---|
| `RowsTellTruth` | `meddled`, `copies`, `dropped`, `stale` (`Misplacing`) | the other six |
| `CursorAgrees`, copy with itself | `dropped`, `gap` | the other eight |
| `CursorAgrees`, copy with rows | `Misplacing`, `unfinished`, `forced` (`Mistaking`) | `gap`, `torn`, `unrecorded`, `reinstated` |
| `NoSpentPixel` | `Mistaking`, `gap`, `unrecorded` | `torn`, `reinstated` |
| `SamplesAgree` | `Mistaking`, `torn`, `reinstated` | `gap`, `unrecorded` |

Each of these was seen to break its property, but for three. An unrecorded growth
is no part of `spoilt`, which goes by the rows, hence `NoSpentPixel` claims
nothing after one. Dropping positions breaks neither the copy's agreement with
itself nor the samples on the instance, but what is proved of them rests on types,
and types are proved until then. `gap` is the slip the code claims to
survive and does not: `substrate_gap`.

Abstractions: one substrate; places are model values; recordings, projects and
dry runs are left out; retiring a substrate changes nothing that is modelled.

### RecorderPool

`handler` follows `stop_recording`; `jobs` and `at` are the pool's queue and
what each thread does; `lock` is `_lock_write`; `next` the indices; `written`,
`size`, `boxRows` and `root` the datasets; `buffer` and `content` are
`_buffer_integrations`: the indices of each sample in it, and whose each of its
rows is, end to end, which is how the flush writes them.
Taking an index, writing a row and counting it are three steps under the lock. A
sample's indices are taken under one lock and put in the buffer under another,
hence in two steps. `Flush` is one step: it holds both locks. A frame stands for
the three streams saved row by row. A save may raise (`Fail`). `join(timeout=10)`
may give up (`JoinTimeout`): the file is then closed under the threads, and
nothing is claimed of such a run. `overtaken` records that a sample was buffered
ahead of one with a lower index. A sample's save may raise after it has taken its
indices and before it comes to the buffer (`FailSample`): a value is missing, or
the sample has no box, as when the only box is removed while its frame is
fetched, and hence no first row. An empty sample does nothing else. `broken` are
the samples whose save raised: the hole they leave in the run of rows can lose
the buffer they were to be in, so `SamplesKept` and `BufferedSamplesKept` claim
nothing once there is one.

### RheedStreams

`videoQ` and `boxQ` are the camera's queues for the two threads, `enc` the
compressor with the number of its container and of the fragments cut in it,
`frags` and `startup` its fragments; `int` is the integrator, `boxes` and
`caches` its two dicts, `out` its queue; `loop` is the handler the event loop is
in, `streaming` the servers' flags, `item` and `wire` what each stream loop
holds and has published. A box and its cache are registered in two steps, and
`copy.deepcopy` begins and ends in two. `quiet` records that no handler changed
the boxes while the integrator was at its frame. `MaxFrames`, `Limits` and
`MaxFailures` bound a behaviour.

Left out: the camera's own stream and its latest-frame slot, the STFT (which is
built like the integrator), `stop` of the threads.

## Runs

| Run | Instance | Shows |
|---|---|---|
| `mi` | 2 scripts, queue of 1, update queue of 2, one `$stop` or `$clean` | type, hand-over bookkeeping, the worker's deaths; until a `$stop`: started once, everything listed is in line, no script overwritten; until any special command: no phantom completion, every script finishes unless a race of `Wedged` was lost |
| `mi_wedge` | 2 scripts, one `$stop` | the event loop blocked for ever |
| `pipe_specials` | 2 scripts, queues of 1, one `$stop` or `$clean` | results are the call's own, also with a full update queue, a result implies the request was served |
| `pipe_promise` | 2 scripts, one without a deadline, queues of 1, lost updates | the refinement of `MiPromise`, and that calls return unless their update was lost or dropped or a race of `Wedged` was lost |
| `driver` | 3 concurrent requests, 11 op shapes | claim, gate, stash, task and picture agree, an answer clears the gate it checked, claim and task come to an end unless a completion was lost |
| `presence` | 1 instance, 2 clients, one lost beat in a row, messages up to 2 s on the way, or 6 s in a queue and 3 s more in a blocked monitor, one crash of the monitor | no live node is called down while nothing is backed up, silence is noticed, clients wake, nobody long dead comes up |
| `rpc` | 2 calls, 2 instances, prefetch and queue of 1, 3 deliveries, one crash or lost connection | no kept request is lost, a request runs again only after a fault, the refinement of `RpcPromise` |
| `substrate` | 3 places, 2 geometries that index them differently, 3 rows, 2 loaded copies | no growth on a spent place, copy and rows agree, rows and samples tell the truth |
| `substrate_gap` | the same | a growth on a spent place after a reopening |
| `recorder` | 2 threads, 2 frames, 4 samples of 1, 2, 1 and no boxes, buffer of 2, one failing save of a frame, any of samples | frames in rows of their own; no sample lost, unless one overtook another or one's save failed with its indices taken |
| `recorder_overtaken` | the same | a whole buffer lost |
| `rheed` | queues of 1, 2 and 1; 6 frames for the compressor, or 2 and 3 for the integrator; a good and a bad box; one encoder failure | streams go forward, the start-up fragments are current, the newest fragment is kept, the encoder is rebuilt, the integrator dies in known ways only |

Bounds, and why they suffice. With a queue of size 1, one script fills it while
the other is current, and a `register_commands` that comes before the worker has
taken the first blocks the loop in `put`: every relation between queue,
hand-over, current and finished occurs, and two executions are enough to confuse
one with another. An update queue of 1 or 2 is full, and drops updates, whenever
the loop is behind. `pipe_specials` keeps the observer at most one event behind and
one message under way (`FewPending`); the proofs have no such bound, and
`pipe_promise` none either. One
special command suffices for each race that `$stop` and `$clean` have with the
worker; it can meet any state of two scripts. Three requests give an op that
holds the claim or a gate, one that replaces it, and one that answers. In
`presence`, an instance id is never used again and instances touch one another
only through `wait_for`, which asks whether there is one; two clients differ in
when they ask. The grave period is 10 s in place of 60 s, above the TTL of 6 s and
a block of 3 s, which leaves room for a record in each of its states. In `rpc`, a request can pass
from one instance to the other by a crash, a lost connection or a forced leave,
while the first still handles it, and a second request overflows the queue. In
`substrate`, three positions give one below, at and above the cursor; the second
geometry gives two places another index; a behaviour is followed past its first
slip of each kind but `dropped`, and any number of `reinstated` ones, up to the
second slip (`FewSlips`), with two rows where copies or places are mixed up and one
where a copy is `stale`; two slips in a row, without the misplacing kinds, were
also run once, and held.
In `recorder`, two threads can meet at every step; three samples fill the buffer
of two once and leave one for the close; a sample of two boxes makes runs of
rows and entries differ, and the fourth has lost its only box. In `rheed`, six
frames cut fragments enough to fill, evict from and empty the queue before and after a failure, and three frames take
the integrator through a box change. The proofs do not depend on these bounds.

Deadlock is not checked where a system rests once every client is served or
every frame is saved; `substrate` checks it, as an operator can always do
something. The type invariants of `MiMode`, `MiPipeline` and `NodePresence` are
checked by their runs and proved; those of `ExperimentDriver`, `CapabilityRpc`,
`RheedStreams`, `RecorderPool` and `SubstrateBook` are proved only.

### Fairness

`MiMode`: weak fairness of the loop inside a handler, the worker, the observer
and the controller, because the first three are threads the interpreter
schedules and the controller ends every script (`command_timeout`). A thread that
has ended takes no step, and fairness asks for none. Nobody is obliged to submit,
stop or clean. `MiPipeline`: also that what the broker does not lose is delivered,
and that the deadlines there are run out: the acknowledgement's always, the
completion's where the call has one.
`ExperimentDriver`: a request on the queue is dispatched, and an await comes back:
of the camera, the journal and the calibration since RPCs carry deadlines, of a
script if its completion arrives. It need not: the completion wait has no deadline by
default and `_start_task` keeps no handle to cancel it (`docs/TODO.md:26-28`,
`47-55`), so `LoseCompletion` leaves the call with nothing enabled and no fairness,
and `MotionComesBack` and `TaskEnds` except that call. No fairness on clients, so
gates may stay open for ever; `TaskEnds` holds nevertheless because the role poll
has a time-out.
`NodePresence` assumes none: its deadlines are guards of `Tick`, and everything
it states is safety.
`CapabilityRpc`, `SubstrateBook` and `RecorderPool` are safety too. `RheedStreams`:
weak fairness of the compressor's thread only; `EncoderRecovers` asks for nothing
else, since its steps wait for nobody but in the one `get()` it excepts.

## Disagreements

Three have a run:

* `mi_wedge`: `clear_queue` can block the event loop for ever.
* `substrate_gap`: skip position 0, grow on 1, reopen 0, finish it: the cursor
  counts on to 1, which was grown on, and the recipe deposits there.
* `recorder_overtaken`: two threads buffer their samples in the other order than
  they took their indices; the slice of the flush does not fit, the exception is
  logged and the whole buffer is emptied.

More were met and have no run of their own:

* A cold start (`ColdStart = TRUE` in `Mi.cfg`): the empty script that `run`
  writes is executed while the first submission is current; the submission is
  reported completed before it ran (`NoPhantomCompletion`). The theorem about
  phantom completions assumes a warm folder.
* Hand-over: files are written before `current_mi_execution` is set; a script
  whose end is dispatched in between never finishes (`missed`).
* `list_executions` iterates the dict on the observer's thread while the event
  loop inserts (`mi_mode.py:333`, `482`, `415`): the `RuntimeError` ends the
  observer, and no later script is seen to finish.
* `clean_up` tests and unlinks four files one at a time: a `$clean` or a `$stop` in
  between ends the worker with `FileNotFoundError` (`WorkerDeath`).
  `ScriptFinishes` and `CallReturns` except these three by name (`Wedged`).
* A lost completion keeps the motion claim, and the task, until the experiment node
  restarts (`docs/TODO.md:47-55`).
* An alignment whose gate is replaced while it looks for the marker moves on if it
  finds it, instead of being cancelled (`handlers.py:1340-1345`).
* A sample's save that raises after it has taken its indices, as the one of an
  empty sample does (`record.py:711-731`), leaves a hole: the slice of a later flush
  does not fit and the buffer is lost, with one thread too.
* A correction served while `resume_substrate` awaits the database leaves the copy
  it then loads out of date (`manager.py:380-387`).
* The pixel check (`begin_check_rheed_pixels` among the `Ops`) moves two motors
  without the claim (`OneMoveAtATime`).
* Typed answers match a gate by kind, not by id (`NoStaleResolve`), and
  `confirm_center_mask` clears whatever gate is open after its await
  (`ClearsWhatItChecked`). `AnswerClears` is what does hold: only a confirmed
  calibration clears a gate it did not check, and then one of an op that opened
  its gate without the claim.
* A beat sent before the goodbye and taken in after it brings a stopped node
  back up; it is then reaped as crashed (`CleanStopRecorded`).
* `$stop` leaves the drained uuids listed in `executions`, and no update tells a
  waiting `execute` of a stop.
* Overlapping tasks clear one another's `current_task` (listed in `docs/TODO.md`).
* The supervisor's `kill` and `restart` name instances by ids that the host
  agent does not know (`system/agent.py:129` and `node/node.py:60` each make
  their own).
* The compressor's `clear()` waits in `get()` for ever if the event loop takes
  the last fragment after `empty()` said no (`video_stream.py:341`);
  `EncoderRecovers` excepts it.
* A box outside the picture, or one that changes while the integrator copies,
  ends its thread for good (`integrator.py:86`, `99`); `IntegratorLives` says
  that nothing else does.

## Proofs

TLAPS checks the following for every value of the constants: any sets of
scripts, requests, instances, places, frames and boxes, any sizes of queues and
numbers of threads, any number of crashes, losses and failures. The only
assumptions are the named ones of the modules (`MiAssumption`, `CmdsAssumption`,
`DriverAssumption`, `NumberAssumption`, `TimingAssumption`, `NobodyAssumption`,
`LayoutAssumption`, `ItemAssumption`, `PoolAssumption`, `BoundAssumption`,
`SizeAssumption`, `LimitAssumption`) and those a theorem states itself.

`MiModeProofs`, with `$stop`, `$clean` and cold starts:

* `TypeCorrect`, `HandOverCorrect`, `WorkerDeathCorrect`. The inductive
  invariant `LineInv` adds to `HandOverSound` that waiting uuids are distinct
  and that the loop's own uuid is where `lpc` says. Without distinctness,
  taking one uuid could leave a second copy of it in the queue. For `WorkerDeath` it
  also says what may have gone from the folder between the test and the unlink of
  `clean_up`, and by whose doing: the script by a special command, a terminal assist
  file by a `$clean`. That the bare one is there at all only after a `$stop` or on a
  cold start follows from `CalmInv` below.

`MiModeProofs`, on a warm folder (`~ColdStart`):

* `StartedOnceCorrect`, `NoOverwriteCorrect`, `ListedCorrect`, until the first
  `$stop`; `NoPhantomCorrect`, until the first special command. The inductive
  invariants `CalmInv` (files, controller and events take turns, `$clean` or not)
  and `QuietInv` (what they say is true) follow a script through its life: while
  one is in flight the assist file bears the name the controller gave it last;
  the text the controller holds is that script's, or none where a `$clean`
  removed it; a terminal event is the last one pending, and undisturbed a
  `Completed` one belongs to a script that ran to its end; when none is in
  flight, no event is pending. The properties alone are not inductive: an event
  of a past run left in `events` would break the next step. `InLineInv` adds for
  `ListedIsInLine` that the uuid about to be entered in `executions` still waits.
  A script that ends during the hand-over is lost, which is a matter of liveness,
  but it is never credited to another.

`ExperimentDriverProofs`:

* `DriverTypeCorrect`, `ClaimCorrect`, `StashCorrect`, `TaskShownCorrect`,
  `ViewCorrect`, from one invariant that adds where each op may be (`Places`): a
  release happens only where the releasing op holds the claim.
* `TwoMovesUnclaimed`: whatever is requested, two motors run at once only where
  one is the pixel check's; hence `OneMoveCorrect`, one motor at a time, if no
  request is for the pixel check.
* `AnswerClearsCorrect`, an action property. Answers but one check and clear
  between the same two awaits. `confirm_center_mask` saves in between, and
  `GateKept` is what its wait keeps true: the open gate is the one it checked, or
  none, or one of an op that claims nothing, since it holds the claim all the
  while and whoever claims must wait for it. `MovingTaskShown` holds in the sense
  that the task of a claimed move is on show, and none that is over.

`NodePresenceProofs`:

* `PresenceTypeCorrect`, `NoFalseDownCorrect`, `NoticedInTimeCorrect`,
  `WaiterCorrect`, `NoResurrectionCorrect`, for every set of instances and
  clients and every timing within the assumptions. `NoFalseDown` says nothing of
  a record's age, so it is not inductive. As long as nothing is backed up, `Fresh`
  bounds the age by what is on its way: with nothing on its way, the record is no
  older than the last beat that got through; with a beat `m` seconds on its way, no
  older than `m + Gap`. Either is within the TTL, hence `Reap` meets only nodes with
  no beat to come, and `Placed` records that this stays so once a node is down.
  `OnItsWay` bounds the age of every message, backed up or not: by `Expiration`
  while the monitor's loop runs, by as much more as it has been blocked otherwise.
  It also says that a sender has been dead no longer than its beat is old, so that a
  beat that is taken in is of a node that is not long dead: `NoResurrection`. `Reaped` bounds the
  ages by the reaper's own period and what is left of a block.

`MiPipelineProofs`, for any calls, special commands and lost updates:

* `ChamberInPipeline`: the pipeline implements `MiMode!Spec`. Every step of the
  pipeline is one of the chamber's or leaves it alone, hence all theorems of
  `MiModeProofs` hold in the composition too.
* `PipeTypeCorrect`, `ResultMeansServedCorrect`, `ResultIsOwnCorrect`, over
  `LineInv`, which the chamber's steps keep. `Asked` adds that nothing in the chamber's hands, wherever it is, is
  of a call that was not made, and that a request that waits has no reply; without
  it the reply of a served request could meet the same request still waiting.
  `UpdatesTrue`, `WireTrue` and `EndsTrue` follow an outcome from the flags into
  the update queue, over the wire, into the future and the return: each is true of
  its execution when it is made, and flags are never taken back.
* `CompletedRan`: on a warm folder and until the first special command, a call
  that returned "completed" is of a script the controller ran to its end. `Said`
  carries `NoPhantomCompletion` over the wire, into the future and the return.
* `PromiseUntilSpecial`: on a warm folder every step up to the first special
  command is a step of `MiPromise` or leaves it alone, from `Said`. After a `$clean` `Said` need not hold, and a
  run of `KeepsPromise` with special commands shows it: one that comes between the
  two files of a script removes the script, the controller finds the assist file
  and runs no text, and the end of that is credited to the script. `KeepsPromiseCorrect` is the case of a
  behaviour without special commands.

`CapabilityRpcProofs`:

* `RpcTypeCorrect`, `NotLostCorrect`, `OncePerFaultCorrect`, from one invariant.
  `HeldByOne` says that what the broker counts as delivered is in an instance's
  hands; `Tokens` that a request that waits again was cut off as often as it was
  delivered, so that each run beyond the first was paid for by a fault; `Kept` that
  a request once published is queued or shed, delivered and unacknowledged, or has
  run; `Fresh` and `Unpublished` that nothing is kept of deliveries not made yet and
  of requests not published. `NotLost` alone is not inductive: it speaks only of
  calls still waiting and does not say in whose hands a request is.
* `KeepsPromiseCorrect`: client, broker and instances implement `RpcPromise`.
  `Outcomes` says that a handler that answered did run, and that an answer on its
  way is one that a run gave.

`SubstrateBookProofs`:

* `SubstrateTypeCorrect`: types hold until an operator drops positions
  (`SelectSeq` is defined by recursion, so what it returns cannot be proved here).
* `NoSpentPixelCorrect`, `CursorAgreesCorrect`, `RowsTellTruthCorrect`,
  `SamplesAgreeCorrect`, from `BookInv`, which is built in layers, each under the
  slips it needs spared and resting on those before. `WholeInv`: every loaded copy
  takes exactly what is below its cursor; `FinishedCopy`, `ReopenedCopy` and
  `RestoredCopy` show that only a gap breaks this. `PlacedInv`: one copy at most is
  loaded, of the geometry in the database; every row's index names its place there;
  the recipe works at the cursor and the mask is there. `TakenInv`: what is active
  is taken, but for the row whose finish is to follow. `FreshInv`: the position the
  recipe works on is free, since it is the cursor of a whole copy in which all that
  is active is taken, and stays free until its own row; the growth is on a fresh
  place because two indices of one geometry are two places (`LayoutAssumption`).
  `SampleInv`: every position has a sample row once there is any, and one that is
  taken says grown.

`RecorderPoolProofs`:

* `FramesKeptCorrect`: frames land in rows of their own and none that was offered
  is lost. The invariant says who holds the lock, that the row at work is the last
  index given (`RowsApart`), that every index given is counted, failed or at work
  (`IndicesCounted`), and where a frame that was offered is (`FramesHeld`).
* `SamplesKeptCorrect`: no sample is lost or misplaced unless one overtook another
  or one's save raised with its indices taken (`Whole` is neither). Empty samples
  may be offered: they fail, or are still to be saved.
  The inductive invariant is `SampleInv`. The runs of box rows that threads hold
  follow one another in the order of their root rows, without a gap up to the next
  index (`RunsApart`); in a `Whole` recording there is a frontier with
  all rows below it buffered or written and all from it on in the hands of threads
  (`InOrder`), and the buffer is a block of consecutive entries that ends there and
  whose content is as long as its rows (`BufferInOrder`). So the slice that a flush
  writes has the length of the content, nothing in the file lies in it, and a
  sample in the buffer ends up in its own rows (`SamplesHeld`).
* `OneThreadKeepsOrder`: with one thread `BufferedSamplesKept` holds, which says the
  same of every order, for saves that did not raise. `recorder_overtaken` violates
  it with two.
* `RecorderTypeCorrect`: the type invariant, from the two above.

`RheedStreamsProofs`:

* `StreamsTypeCorrect`, `StreamsForwardCorrect`, `InitCurrentCorrect`,
  `NewestKeptCorrect`, `IntegratorLivesCorrect`. `VideoInOrder` orders every
  fragment there is, queued, held by the stream loop, published or about to be
  put, by container and number, across evictions and a rebuild of the encoder;
  `StartupCurrent` ties the start-up fragments to the container that runs;
  `FramesInOrder` and `SamplesInOrder` do the same for frames and samples;
  `BoxesInStep` says that boxes and caches differ only while a handler is at them.

Model-checked only: liveness (`ScriptFinishes`, `CallReturns`,
`MotionComesBack`, `TaskEnds`, `EncoderRecovers`), which is out of the prover's
reach.

## Not modelled

* The step journal: a chain of parents that no decision reads.
* Supervisor and host agent: with ids that never match (above), kill and restart
  raise before they change anything.
* Web bridge, users and settings; MCP server: relays and an authorisation flow.
* Starting a recording (two starts in flight both pass the check at
  `storage/handlers.py:87`), the archive's reads, the automatic recorder.
* Files, snapshots, measurements, projects: rows that are listed and edited.
* Chamber log and simulated chamber: parsing, and physics in real numbers.
* RHEED kinematics, Gaussian processes, detection: real numbers.
* Camera drivers, web front end, generated clients, declarations, and the
  notebooks and earlier programs under `old/`.
