------------------------------- MODULE MiMode -------------------------------
(***************************************************************************)
(* The chamber node's machine-instruction mode (pascal/mi_mode.py).        *)
(*                                                                         *)
(* Three threads share the MIModeServer object and one folder on disk:     *)
(*   - the asyncio loop, which runs register_commands and drains the       *)
(*     update queue (pascal/handlers.py, MIModeHandler);                   *)
(*   - the worker, MIModeServer.run, which hands one script at a time to   *)
(*     the controller through the folder;                                  *)
(*   - the watchdog observer, which turns renames of the assist file into  *)
(*     state changes of whatever execution is current.                     *)
(* The fourth party is the PASCAL controller, modelled from SimMIBackend   *)
(* (pascal/sim/runner.py), which speaks the same file protocol.            *)
(*                                                                         *)
(* Every lock-free window of the code is a window of the model: between    *)
(* queue.empty() and queue.get(), between queue.put and the entry in       *)
(* `executions`, between writing the files and setting                     *)
(* current_mi_execution, between the file operations of stop() and of      *)
(* clean_up(), and while the observer iterates `executions`.               *)
(***************************************************************************)
EXTENDS Naturals, Sequences, FiniteSets

CONSTANTS
    Cmds,           \* the uuids submitted, each once
    QueueSize,      \* MIModeServerConfig.queue_size for `queue`
    UpdateSize,     \* the same setting for `update_queue`
    Specials,       \* which of "stop", "clean" clients may send
    MaxSpecials,    \* bound: special commands sent in a behaviour
    ColdStart       \* TRUE: the start-up files are still waiting in the folder

ASSUME MiAssumption ==
    /\ QueueSize \in Nat \ {0}
    /\ UpdateSize \in Nat \ {0}
    /\ MaxSpecials \in Nat
    /\ Specials \subseteq {"stop", "clean"}
    /\ ColdStart \in BOOLEAN

\* No uuid, no file, and the script a fresh or stopped server leaves behind.
NoCmd  == "none"
NoFile == "nofile"
Blank  == "blank"

ASSUME CmdsAssumption == {NoCmd, NoFile, Blank} \cap Cmds = {}

\* MIState: the prefix of the assist file's name ("Idle" is the bare name).
MIState == {"Idle", "Completed", "Aborted", "Load", "Loaded", "Running"}

VARIABLES
    queue,       \* uuids waiting for the worker
    executions,  \* uuids with an entry in the dict
    current,     \* current_mi_execution
    finished,    \* executions with is_execution_finished
    aborted,     \* executions with is_execution_aborted
    stopped,     \* executions with is_stopped
    updates,     \* update_queue
    lpc, lcmd,   \* where the loop thread is in register_commands, for which uuid
    wpc, wcmd,   \* where the worker thread is, and the execution it hands over
    wfile,       \* the file its clean_up is at
    opc,         \* where the observer thread is
    script,      \* content of the script file
    assist,      \* names of assist files that exist
    events,      \* file events the observer has not dispatched yet
    cpc, csrc,   \* where the controller is, and the script text it read
    specials,    \* how often $stop and $clean were sent
    missed,      \* history: an end was dispatched while nothing was current
    started,     \* history: how often the controller began each script
    done         \* history: scripts the controller ran to the end

loopVars == <<lpc, lcmd>>
workVars == <<wpc, wcmd, wfile>>
watchVars == <<opc, missed>>
fileVars == <<script, assist, events>>
ctrlVars == <<cpc, csrc, started, done>>
flagVars == <<finished, aborted, stopped>>
vars == <<queue, executions, current, flagVars, updates, loopVars, workVars,
          fileVars, ctrlVars, specials, watchVars>>

\* What a reader of an update learns: the three flags as MiCommandRunner
\* tells them apart. "all" is the all_executions entry nobody publishes.
Outcome(u, fin, ab) ==
    IF u \notin fin THEN "progress"
    ELSE IF u \in stopped THEN "stopped"
    ELSE IF u \in ab THEN "aborted" ELSE "completed"

Update == [cmd: Cmds, kind: {"progress", "stopped", "aborted", "completed"}]
          \cup {[cmd |-> NoCmd, kind |-> "all"]}

Sent == [stop : 0..MaxSpecials, clean : 0..MaxSpecials]

\* The files of an execution in the order in which clean_up goes through them.
CleanedFiles == {"script", "Idle", "Completed", "Aborted"}
NextCleaned == [script |-> "Idle", Idle |-> "Completed",
                Completed |-> "Aborted", Aborted |-> "none"]
Exists(f) == IF f = "script" THEN script # NoFile ELSE f \in assist

\* _execution_lock: clean_up and pop by the worker, callbacks by the observer.
LockedByWorker == wpc \in {"test", "unlink"}
LockedByObserver == opc \in {"list", "torn"}

TypeOK ==
    /\ queue \in Seq(Cmds) /\ Len(queue) <= QueueSize
    /\ executions \subseteq Cmds
    /\ current \in Cmds \cup {NoCmd}
    /\ finished \subseteq Cmds /\ aborted \subseteq Cmds /\ stopped \subseteq Cmds
    /\ updates \in Seq(Update) /\ Len(updates) <= UpdateSize
    /\ lpc \in {"idle", "put", "store", "reply", "drain", "take", "stop", "unlink",
                "rewrite", "mark"}
    /\ lcmd \in Cmds \cup {NoCmd}
    /\ wpc \in {"loop", "get", "script", "assist", "current", "test", "unlink", "dead"}
    /\ wcmd \in Cmds \cup {NoCmd} /\ wfile \in CleanedFiles \cup {"none"}
    /\ opc \in {"watch", "list", "torn", "dead"}
    /\ missed \in BOOLEAN
    /\ script \in Cmds \cup {Blank, NoFile}
    /\ assist \subseteq MIState
    /\ events \in Seq(MIState)
    /\ cpc \in {"poll", "read", "Load", "Loaded", "Running", "dead"}
    /\ csrc \in Cmds \cup {Blank}
    /\ specials \in Sent
    /\ started \in [Cmds -> Nat]
    /\ done \subseteq Cmds

(***************************************************************************)
(* MIModeServer.run has cleaned the folder and created an empty script and *)
(* an assist file. On a cold start the controller has not looked yet;      *)
(* otherwise it has run that empty script while no execution was current,  *)
(* so its events were dropped with a warning.                              *)
(***************************************************************************)
Init ==
    /\ queue = <<>> /\ executions = {} /\ current = NoCmd
    /\ finished = {} /\ aborted = {} /\ stopped = {}
    /\ updates = <<>>
    /\ lpc = "idle" /\ lcmd = NoCmd
    /\ wpc = "loop" /\ wcmd = NoCmd /\ wfile = "none"
    /\ opc = "watch" /\ missed = FALSE
    /\ script = Blank
    /\ assist = IF ColdStart THEN {"Idle"} ELSE {"Completed"}
    /\ events = <<>>
    /\ cpc = "poll" /\ csrc = Blank
    /\ specials = [stop |-> 0, clean |-> 0]
    /\ started = [u \in Cmds |-> 0] /\ done = {}

-----------------------------------------------------------------------------
(* The loop thread: MIModeServer.register_commands.                        *)

\* A request for u reaches the handler; each uuid is submitted once.
RegisterBegin(u) ==
    /\ lpc = "idle"
    /\ u \notin executions /\ u \notin finished
    /\ \A i \in 1..Len(queue) : queue[i] # u
    /\ lpc' = "put" /\ lcmd' = u
    /\ UNCHANGED <<queue, executions, current, flagVars, updates, workVars,
                   fileVars, ctrlVars, specials, watchVars>>

\* Mutant: put_nowait with the exception swallowed; a full queue drops the uuid.
RegisterPutDropping ==
    /\ lpc = "put"
    /\ queue' = IF Len(queue) < QueueSize THEN Append(queue, lcmd) ELSE queue
    /\ lpc' = "store"
    /\ UNCHANGED <<executions, current, flagVars, updates, lcmd, workVars,
                   fileVars, ctrlVars, specials, watchVars>>

\* queue.put blocks the whole event loop while the queue is full.
RegisterPut ==
    /\ lpc = "put" /\ Len(queue) < QueueSize
    /\ queue' = Append(queue, lcmd)
    /\ lpc' = "store"
    /\ UNCHANGED <<executions, current, flagVars, updates, lcmd, workVars,
                   fileVars, ctrlVars, specials, watchVars>>

\* Only now does the uuid the worker may already have taken get its entry. The
\* entry goes in without the lock: an iteration in progress will raise.
RegisterStore ==
    /\ lpc = "store"
    /\ executions' = executions \cup {lcmd}
    /\ lpc' = "reply"
    /\ opc' = IF opc = "list" THEN "torn" ELSE opc
    /\ UNCHANGED <<queue, current, flagVars, updates, lcmd, workVars, fileVars,
                   ctrlVars, specials, missed>>

\* The handler looks its execution up again for the acknowledgement.
RegisterReply ==
    /\ lpc = "reply"
    /\ lpc' = "idle" /\ lcmd' = NoCmd
    /\ UNCHANGED <<queue, executions, current, flagVars, updates, workVars,
                   fileVars, ctrlVars, specials, watchVars>>

SendSpecial(s) ==
    /\ lpc = "idle" /\ s \in Specials
    /\ specials.stop + specials.clean < MaxSpecials
    /\ specials' = [specials EXCEPT ![s] = @ + 1]

\* "$stop": clear_queue tests queue.empty() and then blocks in queue.get();
\* the worker may take the last uuid in between, and nobody will put another.
StopBegin ==
    /\ SendSpecial("stop")
    /\ lpc' = "drain"
    /\ UNCHANGED <<queue, executions, current, flagVars, updates, lcmd,
                   workVars, fileVars, ctrlVars, watchVars>>

StopDrain ==
    /\ lpc = "drain"
    /\ lpc' = IF queue = <<>> THEN "stop" ELSE "take"
    /\ updates' = IF queue = <<>> THEN <<>> ELSE updates
    /\ UNCHANGED <<queue, executions, current, flagVars, lcmd, workVars,
                   fileVars, ctrlVars, specials, watchVars>>

StopTake ==
    /\ lpc = "take" /\ queue # <<>>
    /\ queue' = Tail(queue)
    /\ lpc' = "drain"
    /\ UNCHANGED <<executions, current, flagVars, updates, lcmd, workVars,
                   fileVars, ctrlVars, specials, watchVars>>

\* Mutant: $stop also forgets the entry of the execution it stops.
StopScriptForgetting ==
    /\ lpc = "stop"
    /\ IF current = NoCmd \/ script = NoFile
       THEN lpc' = "idle" /\ UNCHANGED <<lcmd, script>>
       ELSE lpc' = "unlink" /\ lcmd' = current /\ script' = NoFile
    /\ executions' = executions \ {current}
    /\ UNCHANGED <<queue, current, flagVars, updates, workVars, assist, events,
                   ctrlVars, specials, watchVars>>

\* stop_execution and the first unlink of MIModeExecution.stop. A missing
\* file raises out of register_commands and leaves the flags alone.
StopScript ==
    /\ lpc = "stop"
    /\ IF current = NoCmd \/ script = NoFile
       THEN lpc' = "idle" /\ UNCHANGED <<lcmd, script>>
       ELSE lpc' = "unlink" /\ lcmd' = current /\ script' = NoFile
    /\ UNCHANGED <<queue, executions, current, flagVars, updates, workVars,
                   assist, events, ctrlVars, specials, watchVars>>

StopAssist ==
    /\ lpc = "unlink"
    /\ IF "Idle" \in assist
       THEN lpc' = "rewrite" /\ UNCHANGED lcmd
       ELSE lpc' = "idle" /\ lcmd' = NoCmd
    /\ assist' = assist \ {"Idle"}
    /\ UNCHANGED <<queue, executions, current, flagVars, updates, workVars,
                   script, events, ctrlVars, specials, watchVars>>

StopRewrite ==
    /\ lpc = "rewrite"
    /\ script' = Blank /\ assist' = assist \cup {"Idle"}
    /\ events' = Append(events, "Idle")
    /\ lpc' = "mark"
    /\ UNCHANGED <<queue, executions, current, flagVars, updates, lcmd,
                   workVars, ctrlVars, specials, watchVars>>

StopMark ==
    /\ lpc = "mark"
    /\ stopped' = stopped \cup {lcmd} /\ finished' = finished \cup {lcmd}
    /\ lpc' = "idle" /\ lcmd' = NoCmd
    /\ UNCHANGED <<queue, executions, current, aborted, updates, workVars,
                   fileVars, ctrlVars, specials, watchVars>>

\* "$clean": clean_mi_files removes "_<assist>", not the bare name, so the
\* assist file that the controller polls for survives.
Clean ==
    /\ SendSpecial("clean")
    /\ assist' = assist \cap {"Idle"} /\ script' = NoFile
    /\ UNCHANGED <<queue, executions, current, flagVars, updates, loopVars,
                   workVars, events, ctrlVars, watchVars>>

\* MIModeHandler.next_update, polled by the server's update loop.
NextUpdate ==
    /\ lpc = "idle" /\ updates # <<>>
    /\ updates' = Tail(updates)
    /\ UNCHANGED <<queue, executions, current, flagVars, loopVars, workVars,
                   fileVars, ctrlVars, specials, watchVars>>

-----------------------------------------------------------------------------
(* The worker thread: MIModeServer.run.                                    *)

\* get_next_execution tests queue.empty() first.
WorkerCheck ==
    /\ wpc = "loop" /\ current = NoCmd /\ queue # <<>>
    /\ wpc' = "get"
    /\ UNCHANGED <<queue, executions, current, flagVars, updates, loopVars,
                   wcmd, fileVars, ctrlVars, specials, wfile, watchVars>>

\* A queue drained since the test raises queue.Empty; a uuid without an entry
\* raises KeyError. Neither is caught: the thread ends.
WorkerGet ==
    /\ wpc = "get"
    /\ IF queue # <<>> /\ Head(queue) \in executions
       THEN wpc' = "script" /\ wcmd' = Head(queue)
       ELSE wpc' = "dead" /\ UNCHANGED wcmd
    /\ queue' = IF queue = <<>> THEN queue ELSE Tail(queue)
    /\ UNCHANGED <<executions, current, flagVars, updates, loopVars, fileVars,
                   ctrlVars, specials, wfile, watchVars>>

\* generate_scripts, one file at a time.
WorkerScript ==
    /\ wpc = "script"
    /\ script' = wcmd
    /\ wpc' = "assist"
    /\ UNCHANGED <<queue, executions, current, flagVars, updates, loopVars,
                   wcmd, assist, events, ctrlVars, specials, wfile, watchVars>>

WorkerAssist ==
    /\ wpc = "assist"
    /\ assist' = assist \cup {"Idle"}
    /\ events' = Append(events, "Idle")
    /\ wpc' = "current"
    /\ UNCHANGED <<queue, executions, current, flagVars, updates, loopVars,
                   wcmd, script, ctrlVars, specials, wfile, watchVars>>

\* start_next_execution: only now may the observer attribute events to it.
WorkerCurrent ==
    /\ wpc = "current"
    /\ current' = wcmd
    /\ wpc' = "loop" /\ wcmd' = NoCmd
    /\ UNCHANGED <<queue, executions, flagVars, updates, loopVars, fileVars,
                   ctrlVars, specials, wfile, watchVars>>

\* Mutant: the worker does not wait for is_execution_finished.
WorkerLockEarly ==
    /\ wpc = "loop" /\ current # NoCmd /\ ~LockedByObserver
    /\ wpc' = "test" /\ wfile' = "script"
    /\ UNCHANGED <<queue, executions, current, flagVars, updates, loopVars,
                   wcmd, fileVars, ctrlVars, specials, watchVars>>

\* wait_for_execution_finished says yes; execution_finished needs the lock.
WorkerLock ==
    /\ wpc = "loop" /\ current \in finished /\ ~LockedByObserver
    /\ wpc' = "test" /\ wfile' = "script"
    /\ UNCHANGED <<queue, executions, current, flagVars, updates, loopVars,
                   wcmd, fileVars, ctrlVars, specials, watchVars>>

\* clean_up tests for a file ...
CleanUpTest ==
    /\ wpc = "test" /\ wfile \in CleanedFiles
    /\ IF Exists(wfile) THEN wpc' = "unlink" /\ UNCHANGED wfile
                        ELSE wfile' = NextCleaned[wfile] /\ UNCHANGED wpc
    /\ UNCHANGED <<queue, executions, current, flagVars, updates, loopVars,
                   wcmd, fileVars, ctrlVars, specials, watchVars>>

\* ... and then removes it. One that is gone by now raises FileNotFoundError
\* out of run(), before the entry is popped.
CleanUpUnlink ==
    /\ wpc = "unlink"
    /\ IF Exists(wfile) THEN wpc' = "test" /\ wfile' = NextCleaned[wfile]
                        ELSE wpc' = "dead" /\ UNCHANGED wfile
    /\ script' = IF wfile = "script" THEN NoFile ELSE script
    /\ assist' = assist \ {wfile}
    /\ UNCHANGED <<queue, executions, current, flagVars, updates, loopVars,
                   wcmd, events, ctrlVars, specials, watchVars>>

\* Mutant: executions.clear() in place of executions.pop(uuid).
WorkerFinishClearing ==
    /\ wpc = "test" /\ wfile = "none"
    /\ executions' = {}
    /\ current' = NoCmd
    /\ wpc' = "loop"
    /\ UNCHANGED <<queue, flagVars, updates, loopVars, wcmd, wfile, fileVars,
                   ctrlVars, specials, watchVars>>

\* executions.pop, and the lock is given back.
WorkerFinish ==
    /\ wpc = "test" /\ wfile = "none"
    /\ executions' = executions \ {current}
    /\ current' = NoCmd
    /\ wpc' = "loop"
    /\ UNCHANGED <<queue, flagVars, updates, loopVars, wcmd, wfile, fileVars,
                   ctrlVars, specials, watchVars>>

-----------------------------------------------------------------------------
(* The observer thread: MIModeFileSystemHandler.on_moved / on_modified,    *)
(* change_current_execution_state and default_execution_callback.          *)

\* Mutant: the full() test is gone.
PutUpdateUnchecked(q, e) == Append(q, e)

\* Each put is skipped, silently, when the queue is full.
PutUpdate(q, e) == IF Len(q) < UpdateSize THEN Append(q, e) ELSE q

All == [cmd |-> NoCmd, kind |-> "all"]

\* Mutant: change_state knows COMPLETED but not ABORTED as an end.
MarkNoAbort(e) ==
    /\ finished' = IF e = "Completed" THEN finished \cup {current} ELSE finished
    /\ UNCHANGED <<aborted, stopped>>

\* Mutant: a script that has begun to run counts as finished.
MarkRunningEnds(e) ==
    /\ finished' = IF e \in {"Running", "Aborted"}
                   THEN finished \cup {current} ELSE finished
    /\ aborted' = IF e = "Aborted" THEN aborted \cup {current} ELSE aborted
    /\ stopped' = stopped

\* MIModeExecution.change_state.
Mark(e) ==
    /\ finished' = IF e \in {"Completed", "Aborted"}
                   THEN finished \cup {current} ELSE finished
    /\ aborted' = IF e = "Aborted" THEN aborted \cup {current} ELSE aborted
    /\ stopped' = stopped

\* An event while nothing is current is dropped with a warning.
WatchNobody ==
    /\ opc = "watch" /\ events # <<>> /\ current = NoCmd
    /\ events' = Tail(events)
    /\ missed' = (missed \/ Head(events) \in {"Completed", "Aborted"})
    /\ UNCHANGED <<queue, executions, current, flagVars, updates, loopVars,
                   workVars, script, assist, ctrlVars, specials, opc>>

\* Under the lock: the state changes, the update of it is put, and where the
\* queue is not full then, list_executions begins to iterate the dict.
Watch ==
    /\ opc = "watch" /\ events # <<>> /\ current # NoCmd /\ ~LockedByWorker
    /\ events' = Tail(events)
    /\ Mark(Head(events))
    /\ updates' = PutUpdate(updates,
                     [cmd |-> current, kind |-> Outcome(current, finished', aborted')])
    /\ opc' = IF Len(updates') < UpdateSize THEN "list" ELSE "watch"
    /\ UNCHANGED <<queue, executions, current, loopVars, workVars, script,
                   assist, ctrlVars, specials, missed>>

\* The iteration ends and the list is put; one that an entry was added under
\* raises RuntimeError, which ends the observer's thread and frees the lock.
WatchList ==
    /\ LockedByObserver
    /\ IF opc = "list" THEN opc' = "watch" /\ updates' = PutUpdate(updates, All)
                       ELSE opc' = "dead" /\ UNCHANGED updates
    /\ UNCHANGED <<queue, executions, current, flagVars, loopVars, workVars,
                   fileVars, ctrlVars, specials, missed>>

-----------------------------------------------------------------------------
(* The controller: SimMIBackend.run and execute_pending.                   *)

\* The poll finds the bare assist file and reads the script, if it is there.
CtrlRead ==
    /\ cpc = "poll" /\ "Idle" \in assist
    /\ csrc' = IF script = NoFile THEN Blank ELSE script
    /\ cpc' = "read"
    /\ UNCHANGED <<queue, executions, current, flagVars, updates, loopVars,
                   workVars, fileVars, specials, started, done, watchVars>>

\* Mutant: the assist file is copied to its new name, not moved.
RenameCopying(from, to, next) ==
    IF from \in assist
    THEN /\ assist' = assist \cup {to}
         /\ events' = Append(events, to)
         /\ cpc' = next
    ELSE cpc' = "dead" /\ UNCHANGED <<assist, events>>

\* _rename: a source that has been removed raises, and the thread ends.
Rename(from, to, next) ==
    IF from \in assist
    THEN /\ assist' = (assist \ {from}) \cup {to}
         /\ events' = Append(events, to)
         /\ cpc' = next
    ELSE cpc' = "dead" /\ UNCHANGED <<assist, events>>

CtrlLoad ==
    /\ cpc = "read"
    /\ Rename("Idle", "Load", "Load")
    /\ UNCHANGED <<queue, executions, current, flagVars, updates, loopVars,
                   workVars, script, csrc, specials, started, done, watchVars>>

\* parse_script accepts the text ...
CtrlLoaded ==
    /\ cpc = "Load"
    /\ Rename("Load", "Loaded", "Loaded")
    /\ UNCHANGED <<queue, executions, current, flagVars, updates, loopVars,
                   workVars, script, csrc, specials, started, done, watchVars>>

CtrlRunning ==
    /\ cpc = "Loaded"
    /\ Rename("Loaded", "Running", "Running")
    /\ started' = IF csrc \in Cmds /\ "Loaded" \in assist
                  THEN [started EXCEPT ![csrc] = @ + 1] ELSE started
    /\ UNCHANGED <<queue, executions, current, flagVars, updates, loopVars,
                   workVars, script, csrc, specials, done, watchVars>>

\* ... or refuses it, or the executor fails: Aborted.
CtrlAborted ==
    /\ cpc \in {"Load", "Running"}
    /\ csrc \in Cmds
    /\ Rename(cpc, "Aborted", "poll")
    /\ UNCHANGED <<queue, executions, current, flagVars, updates, loopVars,
                   workVars, script, csrc, specials, started, done, watchVars>>

CtrlCompleted ==
    /\ cpc = "Running"
    /\ Rename("Running", "Completed", "poll")
    /\ done' = IF csrc \in Cmds THEN done \cup {csrc} ELSE done
    /\ UNCHANGED <<queue, executions, current, flagVars, updates, loopVars,
                   workVars, script, csrc, specials, started, watchVars>>
-----------------------------------------------------------------------------
Loop == \/ \E u \in Cmds : RegisterBegin(u)
        \/ RegisterPut \/ RegisterStore \/ RegisterReply
        \/ StopBegin \/ StopDrain \/ StopTake \/ StopScript \/ StopAssist
        \/ StopRewrite \/ StopMark
        \/ Clean \/ NextUpdate
Worker == \/ WorkerCheck \/ WorkerGet \/ WorkerScript \/ WorkerAssist
          \/ WorkerCurrent \/ WorkerLock \/ CleanUpTest \/ CleanUpUnlink
          \/ WorkerFinish
Observer == WatchNobody \/ Watch \/ WatchList
Ctrl == \/ CtrlRead \/ CtrlLoad \/ CtrlLoaded \/ CtrlRunning
        \/ CtrlAborted \/ CtrlCompleted

Next == Loop \/ Worker \/ Observer \/ Ctrl

Spec == Init /\ [][Next]_vars

(***************************************************************************)
(* Fairness. Each thread keeps being scheduled and the observer keeps      *)
(* dispatching; the controller keeps polling and every script it runs ends *)
(* one way or the other (SimMIBackend's command_timeout). Clients are not  *)
(* obliged to submit anything.                                             *)
(***************************************************************************)
LoopStep == \/ RegisterPut \/ RegisterStore \/ RegisterReply \/ StopDrain \/ StopTake
            \/ StopScript \/ StopAssist \/ StopRewrite \/ StopMark \/ NextUpdate

Fairness == /\ WF_vars(LoopStep) /\ WF_vars(Worker)
            /\ WF_vars(Observer) /\ WF_vars(Ctrl)

FairSpec == Spec /\ Fairness
-----------------------------------------------------------------------------
(* Properties.                                                             *)

NoStop == specials.stop = 0
Undisturbed == NoStop /\ specials.clean = 0

\* A script reported completed -- by its flags or by an update waiting to be
\* published -- is one the controller really ran to the end, as long as nobody
\* sent a special command. The observer attributes every assist-file event to
\* whatever is current, so this needs the folder to carry nobody else's run.
\* (A $clean between the two files of a script has the controller run no text.)
NoPhantomCompletion ==
    Undisturbed =>
       /\ finished \ (aborted \cup stopped) \subseteq done
       /\ \A i \in 1..Len(updates) :
             updates[i].kind = "completed" => updates[i].cmd \in done

\* The controller begins a submitted script at most once, although the assist
\* file it polls for is rewritten for every script, whatever $clean removes.
\* (A late $stop, between unlinking and rewriting, can break it.)
StartedOnce == NoStop => \A u \in Cmds : started[u] <= 1

\* The worker never replaces the script file while the controller holds a
\* script it has not finished (execute_pending reads the file once, but the
\* physical controller works from it), unless a $stop called it finished.
NoOverwrite ==
    [][WorkerScript /\ NoStop => cpc = "poll"]_vars

\* Every execution list_executions calls unfinished is still going somewhere:
\* it is waiting in the queue, being handed over, or current (mi_mode.py:328,
\* "all other executions that is still in the line"). A $stop that drains the
\* queue leaves its executions listed.
ListedIsInLine ==
    NoStop =>
       \A u \in executions \ finished :
          \/ \E i \in 1..Len(queue) : queue[i] = u
          \/ u \in {wcmd, current}
          \/ wpc = "dead"

\* executions.pop in clean_up_mi_execution finds the key, whatever stops and
\* cleans went on: the current execution and the one being handed over are
\* registered, never both at once, and no longer wait in the queue.
HandOverSound ==
    /\ {current, wcmd} \ {NoCmd} \subseteq executions
    /\ wpc \in {"script", "assist", "current"} <=> wcmd # NoCmd
    /\ wcmd # NoCmd => current = NoCmd
    /\ \A i \in 1..Len(queue) : queue[i] \notin {current, wcmd} \cup finished

\* The worker thread ends only on one of three races: $stop emptied the queue
\* after queue.empty() said no; the uuid it took was put but not yet entered in
\* `executions`; or a file of the execution it cleans up after went away between
\* exists() and unlink(). The last needs a special command: the script goes by
\* either, a terminal assist file by $clean, and the bare one is there at all
\* after a $stop only, or on a folder with start-up files in it.
WorkerDeath ==
    [][wpc' = "dead" /\ wpc # "dead" =>
          \/ wpc = "get" /\ queue = <<>> /\ ~NoStop
          \/ wpc = "get" /\ queue # <<>> /\ lpc = "store" /\ Head(queue) = lcmd
          \/ wpc = "unlink" /\ wfile = "script" /\ ~Undisturbed
          \/ wpc = "unlink" /\ wfile = "Idle" /\ (ColdStart \/ ~NoStop)
          \/ wpc = "unlink" /\ wfile \in {"Completed", "Aborted"} /\ specials.clean > 0]_vars

\* One of the races that nobody recovers from: the worker or the observer ended,
\* or the script's end was dispatched before current_mi_execution was set.
Wedged == wpc = "dead" \/ opc = "dead" \/ missed

\* Completion arrives: a registered script is eventually finished, unless one of
\* those races was lost or a special command intervened.
ScriptFinishes ==
    \A u \in Cmds :
       u \in executions ~> u \in finished \/ Wedged \/ ~Undisturbed

\* register_commands returns ("Queue a script. Returns immediately",
\* contracts/chamber.py:81): the event loop is not left inside it.
RegisterReturns == lpc # "idle" ~> lpc = "idle"
=============================================================================
