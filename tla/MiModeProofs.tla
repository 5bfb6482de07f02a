---------------------------- MODULE MiModeProofs ----------------------------
(***************************************************************************)
(* Theorems about MiMode, for every set of uuids and every queue size.     *)
(*                                                                         *)
(* LineInv is the inductive invariant behind HandOverSound and WorkerDeath *)
(* and holds whatever special commands are sent. CalmInv adds the          *)
(* controller's side of the hand-over on a folder without start-up files,  *)
(* until the first $stop; QuietInv adds that what is reported is true,     *)
(* until the first special command of either kind.                         *)
(***************************************************************************)
EXTENDS MiMode, SequenceTheorems, TLAPS

InQueue(u) == \E i \in 1..Len(queue) : queue[i] = u

Terminal == {"Completed", "Aborted"}

\* The uuids waiting in line, and what the two threads hold of them.
LineInv ==
    /\ TypeOK
    /\ wpc \in {"script", "assist", "current"} <=> wcmd # NoCmd
    /\ wpc \in {"get", "script", "assist", "current"} => current = NoCmd
    /\ wpc \in {"test", "unlink"} => current \in finished
    /\ {current, wcmd} \ {NoCmd} \subseteq executions
    /\ wcmd \notin finished
    /\ \A i, j \in 1..Len(queue) : queue[i] = queue[j] => i = j
    /\ \A i \in 1..Len(queue) :
          /\ queue[i] \notin {current, wcmd} \cup finished
          /\ queue[i] \in executions \/ (lpc = "store" /\ queue[i] = lcmd)
    /\ lpc \in {"put", "store"} =>
          lcmd \in Cmds /\ lcmd \notin executions \cup finished
    /\ lpc \in {"put", "unlink", "rewrite", "mark"} =>
          lcmd \in Cmds /\ \A i \in 1..Len(queue) : queue[i] # lcmd
    /\ lpc \in {"unlink", "rewrite", "mark"} => lcmd # wcmd
    /\ lpc \in {"drain", "take", "stop", "unlink", "rewrite", "mark"} => ~NoStop
    /\ lpc = "reply" => lcmd \in executions \cup finished
    /\ wpc = "get" /\ queue = <<>> => ~NoStop
    /\ wpc = "unlink" => wfile \in CleanedFiles
    /\ wpc = "unlink" /\ wfile = "script" => script # NoFile \/ ~Undisturbed
    /\ wpc = "unlink" /\ wfile \in Terminal => wfile \in assist \/ specials.clean > 0

\* The script in the controller's hands, from the moment its assist file is
\* written until the worker has cleaned up after it.
InFlight == IF wpc = "current" THEN wcmd ELSE current

\* The controller holds nobody's script.
Resting == cpc = "poll" /\ "Idle" \notin assist

\* Without a $stop the controller works on the script in flight or, where a
\* $clean removed it, on none; a terminal event is always the last event, of a
\* script that has ended.
CalmInv ==
    /\ NoStop /\ stopped = {} /\ lpc \in {"idle", "put", "store", "reply"}
    /\ InFlight = NoCmd => events = <<>> /\ Resting
    /\ current \in finished => events = <<>> /\ Resting
    /\ wpc = "unlink" => wfile # "Idle"
    /\ cpc \in {"read", "Load", "Loaded", "Running"} =>
          csrc \in {InFlight, Blank} /\ InFlight # NoCmd
    /\ cpc = "read" => "Idle" \in assist
    /\ cpc \notin {"poll", "read"} => "Idle" \notin assist
    /\ "Idle" \in assist => script \in {InFlight, NoFile}
    /\ wpc = "assist" => script \in {wcmd, NoFile}
    /\ \A i \in 1..Len(events) : events[i] \in Terminal => i = Len(events) /\ Resting
    /\ \A u \in Cmds : started[u] <= 1
    /\ \A u \in Cmds : started[u] = 0 \/ u \in finished \/ u = InFlight
    /\ "Idle" \in assist \/ cpc \in {"Load", "Loaded"} => started[InFlight] = 0

\* Undisturbed, it works on that script and no other, and what is reported
\* completed it did run to the end.
QuietInv ==
    /\ Undisturbed /\ cpc # "dead"
    /\ cpc # "poll" => csrc = InFlight
    /\ cpc \in {"Load", "Loaded", "Running"} => cpc \in assist
    /\ "Idle" \in assist => script = InFlight
    /\ wpc = "assist" => script = wcmd
    /\ \A i \in 1..Len(events) : events[i] = "Completed" => InFlight \in done
    /\ finished \ aborted \subseteq done
    /\ \A i \in 1..Len(updates) :
          updates[i].kind = "completed" => updates[i].cmd \in done

\* What makes ListedIsInLine inductive: the uuid about to be entered in
\* `executions` still waits, unless taking it early has ended the worker.
InLineInv ==
    /\ \A u \in executions \ finished : InQueue(u) \/ u \in {wcmd, current} \/ wpc = "dead"
    /\ lpc = "store" => InQueue(lcmd) \/ wpc = "dead"

-----------------------------------------------------------------------------
\* A rename of the assist file leaves the folder and the controller well typed.
LEMMA RenameType ==
    ASSUME TypeOK, NEW from \in MIState, NEW to \in MIState, NEW next,
           next \in {"poll", "read", "Load", "Loaded", "Running", "dead"},
           Rename(from, to, next)
    PROVE  /\ assist' \subseteq MIState /\ events' \in Seq(MIState)
           /\ cpc' \in {"poll", "read", "Load", "Loaded", "Running", "dead"}
<1>1. CASE from \in assist
  <2>1. assist' \subseteq MIState
    BY <1>1 DEF TypeOK, Rename
  <2>2. events' \in Seq(MIState)
    <3>1. events \in Seq(MIState) /\ events' = Append(events, to)
      BY <1>1 DEF TypeOK, Rename
    <3>. QED  BY <3>1, AppendProperties
  <2>. QED  BY <1>1, <2>1, <2>2 DEF Rename
<1>2. CASE from \notin assist
  BY <1>2 DEF TypeOK, Rename
<1>. QED  BY <1>1, <1>2

\* A special command is counted, up to the bound of the model.
LEMMA SpecialSent ==
    ASSUME TypeOK, NEW s \in {"stop", "clean"}, SendSpecial(s)
    PROVE  /\ specials' \in Sent
           /\ specials'[s] > 0
<1>1. /\ specials \in [stop : 0..MaxSpecials, clean : 0..MaxSpecials]
      /\ specials.stop + specials.clean < MaxSpecials
      /\ specials' = [specials EXCEPT ![s] = @ + 1]
  BY DEF TypeOK, Sent, SendSpecial
<1>2. CASE s = "stop"
  BY <1>1, <1>2, MiAssumption DEF Sent
<1>3. CASE s = "clean"
  BY <1>1, <1>3, MiAssumption DEF Sent
<1>. QED  BY <1>2, <1>3

\* After a special command nothing is undisturbed, after a $stop nothing calm.
LEMMA SpecialTells ==
    ASSUME TypeOK
    PROVE  /\ StopBegin => ~NoStop' /\ ~Undisturbed'
           /\ Clean => ~Undisturbed' /\ NoStop' = NoStop /\ specials'.clean > 0
<1>1. ASSUME StopBegin PROVE ~NoStop' /\ ~Undisturbed'
  <2>1. specials'["stop"] > 0
    BY <1>1, SpecialSent DEF StopBegin
  <2>. QED  BY <2>1 DEF NoStop, Undisturbed
<1>2. ASSUME Clean PROVE ~Undisturbed' /\ NoStop' = NoStop /\ specials'.clean > 0
  <2>1. specials'["clean"] > 0
    BY <1>2, SpecialSent DEF Clean
  <2>2. specials'.stop = specials.stop
    BY <1>2 DEF Clean, SendSpecial, TypeOK, Sent
  <2>. QED  BY <2>1, <2>2 DEF NoStop, Undisturbed
<1>. QED  BY <1>1, <1>2

\* What is put in the update queue fits in.
LEMMA PutUpdateType ==
    ASSUME NEW q \in Seq(Update), NEW x \in Update, Len(q) <= UpdateSize
    PROVE  PutUpdate(q, x) \in Seq(Update) /\ Len(PutUpdate(q, x)) <= UpdateSize
BY MiAssumption DEF PutUpdate

\* Every handler keeps the state of the MI server well typed: in particular
\* neither bounded queue ever exceeds its size.
LEMMA TypeStep ==
    ASSUME LineInv, [Next]_vars PROVE TypeOK'
<1>. /\ TypeOK
     /\ lpc \in {"put", "store", "unlink", "rewrite", "mark"} => lcmd \in Cmds
     /\ wpc \in {"script", "assist", "current"} <=> wcmd # NoCmd
  BY DEF LineInv
<1>. USE MiAssumption, CmdsAssumption DEF TypeOK, MIState
<1>1. ASSUME NEW u \in Cmds, RegisterBegin(u) PROVE TypeOK'
  BY <1>1 DEF RegisterBegin, loopVars, workVars, fileVars, ctrlVars, flagVars, watchVars
<1>2. CASE RegisterPut
  BY <1>2 DEF RegisterPut, loopVars, workVars, fileVars, ctrlVars, flagVars, watchVars
<1>3. CASE RegisterStore
  BY <1>3 DEF RegisterStore, loopVars, workVars, fileVars, ctrlVars, flagVars, watchVars
<1>27. CASE RegisterReply
  BY <1>27 DEF RegisterReply, loopVars, workVars, fileVars, ctrlVars, flagVars, watchVars
<1>4. CASE StopBegin
  <2>1. SendSpecial("stop")
    BY <1>4 DEF StopBegin
  <2>2. specials' \in Sent
    <3>. HIDE DEF TypeOK
    <3>. QED  BY <2>1, SpecialSent
  <2>. QED
    BY <1>4, <2>2 DEF StopBegin, loopVars, workVars, fileVars, ctrlVars, flagVars, watchVars
<1>5. CASE StopDrain
  BY <1>5 DEF StopDrain, loopVars, workVars, fileVars, ctrlVars, flagVars, watchVars
<1>6. CASE StopTake
  BY <1>6, SMTT(30) DEF StopTake, loopVars, workVars, fileVars, ctrlVars, flagVars, watchVars
<1>7. CASE StopScript
  BY <1>7 DEF StopScript, loopVars, workVars, fileVars, ctrlVars, flagVars, watchVars
<1>8. CASE StopAssist
  BY <1>8 DEF StopAssist, loopVars, workVars, fileVars, ctrlVars, flagVars, watchVars
<1>9. CASE StopRewrite
  BY <1>9 DEF StopRewrite, loopVars, workVars, fileVars, ctrlVars, flagVars, watchVars
<1>10. CASE StopMark
  BY <1>10 DEF StopMark, loopVars, workVars, fileVars, ctrlVars, flagVars, watchVars
<1>11. CASE Clean
  <2>1. SendSpecial("clean")
    BY <1>11 DEF Clean
  <2>2. specials' \in Sent
    <3>. HIDE DEF TypeOK
    <3>. QED  BY <2>1, SpecialSent
  <2>. QED
    BY <1>11, <2>2 DEF Clean, loopVars, workVars, fileVars, ctrlVars, flagVars, watchVars
<1>12. CASE NextUpdate
  BY <1>12 DEF NextUpdate, loopVars, workVars, fileVars, ctrlVars, flagVars, watchVars
<1>13. CASE WorkerCheck
  BY <1>13 DEF WorkerCheck, loopVars, workVars, fileVars, ctrlVars, flagVars, watchVars
<1>14. CASE WorkerGet
  BY <1>14, SMTT(30) DEF WorkerGet, loopVars, workVars, fileVars, ctrlVars, flagVars, watchVars
<1>15. CASE WorkerScript
  BY <1>15 DEF WorkerScript, loopVars, workVars, fileVars, ctrlVars, flagVars, watchVars
<1>16. CASE WorkerAssist
  BY <1>16 DEF WorkerAssist, loopVars, workVars, fileVars, ctrlVars, flagVars, watchVars
<1>17. CASE WorkerCurrent
  BY <1>17 DEF WorkerCurrent, loopVars, workVars, fileVars, ctrlVars, flagVars, watchVars
<1>28. CASE WorkerLock
  BY <1>28 DEF WorkerLock, CleanedFiles, loopVars, workVars, fileVars, ctrlVars, flagVars, watchVars
<1>29. CASE CleanUpTest
  BY <1>29 DEF Exists, CleanedFiles, NextCleaned, CleanUpTest, loopVars, workVars, fileVars, ctrlVars, flagVars, watchVars
<1>30. CASE CleanUpUnlink
  BY <1>30 DEF Exists, CleanedFiles, NextCleaned, CleanUpUnlink, loopVars, workVars, fileVars, ctrlVars, flagVars, watchVars
<1>18. CASE WorkerFinish
  BY <1>18 DEF WorkerFinish, loopVars, workVars, fileVars, ctrlVars, flagVars, watchVars
<1>31. CASE WatchNobody
  BY <1>31 DEF WatchNobody, loopVars, workVars, fileVars, ctrlVars, flagVars, watchVars
<1>32. CASE WatchList
  <2>1. All \in Update
    BY DEF All, Update
  <2>2. updates' \in Seq(Update) /\ Len(updates') <= UpdateSize
    BY <1>32, <2>1, PutUpdateType DEF WatchList
  <2>. QED
    BY <1>32, <2>2 DEF WatchList, LockedByObserver, loopVars, workVars, fileVars, ctrlVars, flagVars, watchVars
<1>19. CASE Watch
  <2>. DEFINE e == [cmd |-> current, kind |-> Outcome(current, finished', aborted')]
  <2>1. e \in Update /\ updates' = PutUpdate(updates, e)
    BY <1>19 DEF Watch, Update, Outcome
  <2>2. updates' \in Seq(Update) /\ Len(updates') <= UpdateSize
    <3>. HIDE DEF e
    <3>. QED  BY <2>1, PutUpdateType
  <2>3. events' \in Seq(MIState)
    BY <1>19 DEF Watch
  <2>. QED
    BY <1>19, <2>2, <2>3, SMTT(30) DEF Watch, Mark, loopVars, workVars, fileVars, ctrlVars, flagVars, watchVars
<1>20. CASE CtrlRead
  BY <1>20 DEF CtrlRead, loopVars, workVars, fileVars, ctrlVars, flagVars, watchVars
<1>21. CASE CtrlLoad
  BY <1>21, RenameType, SMTT(30) DEF CtrlLoad, loopVars, workVars, fileVars, ctrlVars, flagVars, watchVars
<1>22. CASE CtrlLoaded
  BY <1>22, RenameType, SMTT(30) DEF CtrlLoaded, loopVars, workVars, fileVars, ctrlVars, flagVars, watchVars
<1>23. CASE CtrlRunning
  BY <1>23, RenameType, SMTT(30) DEF CtrlRunning, loopVars, workVars, fileVars, ctrlVars, flagVars, watchVars
<1>24. CASE CtrlAborted
  BY <1>24, RenameType, SMTT(30) DEF CtrlAborted, loopVars, workVars, fileVars, ctrlVars, flagVars, watchVars
<1>25. CASE CtrlCompleted
  BY <1>25, RenameType, SMTT(30) DEF CtrlCompleted, loopVars, workVars, fileVars, ctrlVars, flagVars, watchVars
<1>26. CASE UNCHANGED vars
  BY <1>26 DEF vars, loopVars, workVars, fileVars, ctrlVars, flagVars, watchVars
<1>. QED
  BY <1>1, <1>2, <1>3, <1>4, <1>5, <1>6, <1>7, <1>8, <1>9, <1>10, <1>11, <1>12, <1>13, <1>14, <1>15, <1>16, <1>17, <1>18, <1>19, <1>20, <1>21, <1>22, <1>23, <1>24, <1>25, <1>26, <1>27, <1>28,
     <1>29, <1>30, <1>31, <1>32 DEF Next, Loop, Worker, Observer, Ctrl

\* The line of waiting uuids stays sound across every step of every thread.
LEMMA LineStep ==
    ASSUME LineInv, [Next]_vars PROVE LineInv'
<1>. TypeOK' BY TypeStep
<1>. USE CmdsAssumption DEF TypeOK, LineInv, NoStop, Undisturbed, Terminal
<1>1. ASSUME NEW u \in Cmds, RegisterBegin(u) PROVE LineInv'
  BY <1>1 DEF RegisterBegin, loopVars, workVars, fileVars, ctrlVars, flagVars, watchVars
<1>2. CASE RegisterPut
  <2>1. /\ Len(queue) \in Nat
        /\ Len(queue') = Len(queue) + 1 /\ queue'[Len(queue) + 1] = lcmd
        /\ \A i \in 1..Len(queue) : queue'[i] = queue[i]
    <3>1. queue \in Seq(Cmds) /\ lcmd \in Cmds /\ queue' = Append(queue, lcmd)
      BY <1>2 DEF RegisterPut
    <3>. HIDE DEF LineInv, TypeOK
    <3>. QED  BY <3>1, AppendProperties
  <2>. HIDE DEF TypeOK
  <2>2. \A i, j \in 1..Len(queue') : queue'[i] = queue'[j] => i = j
    BY <1>2, <2>1 DEF RegisterPut
  <2>3. lcmd \notin {current, wcmd}
    BY <1>2 DEF RegisterPut
  <2>4. \A i \in 1..Len(queue') :
           /\ queue'[i] \notin {current, wcmd} \cup finished
           /\ queue'[i] \in executions \/ queue'[i] = lcmd
    BY <1>2, <2>1, <2>3 DEF RegisterPut
  <2>. QED
    BY <1>2, <2>2, <2>4 DEF RegisterPut, loopVars, workVars, fileVars, ctrlVars, flagVars, watchVars
<1>3. CASE RegisterStore
  BY <1>3 DEF RegisterStore, loopVars, workVars, fileVars, ctrlVars, flagVars, watchVars
<1>27. CASE RegisterReply
  BY <1>27 DEF RegisterReply, loopVars, workVars, fileVars, ctrlVars, flagVars, watchVars
<1>4. CASE StopBegin
  <2>. ~NoStop' /\ ~Undisturbed'
    BY <1>4, SpecialTells
  <2>. QED
    BY <1>4 DEF StopBegin, SendSpecial, loopVars, workVars, fileVars, ctrlVars, flagVars, watchVars
<1>5. CASE StopDrain
  BY <1>5 DEF StopDrain, loopVars, workVars, fileVars, ctrlVars, flagVars, watchVars
<1>6. CASE StopTake
  BY <1>6, SMTT(30) DEF StopTake, loopVars, workVars, fileVars, ctrlVars, flagVars, watchVars
<1>7. CASE StopScript
  BY <1>7 DEF StopScript, loopVars, workVars, fileVars, ctrlVars, flagVars, watchVars
<1>8. CASE StopAssist
  BY <1>8 DEF StopAssist, loopVars, workVars, fileVars, ctrlVars, flagVars, watchVars
<1>9. CASE StopRewrite
  BY <1>9 DEF StopRewrite, loopVars, workVars, fileVars, ctrlVars, flagVars, watchVars
<1>10. CASE StopMark
  BY <1>10 DEF StopMark, loopVars, workVars, fileVars, ctrlVars, flagVars, watchVars
<1>11. CASE Clean
  <2>. ~Undisturbed' /\ NoStop' = NoStop /\ specials'.clean > 0
    BY <1>11, SpecialTells
  <2>. QED
    BY <1>11 DEF Clean, SendSpecial, loopVars, workVars, fileVars, ctrlVars, flagVars, watchVars
<1>12. CASE NextUpdate
  BY <1>12 DEF NextUpdate, loopVars, workVars, fileVars, ctrlVars, flagVars, watchVars
<1>13. CASE WorkerCheck
  BY <1>13 DEF WorkerCheck, loopVars, workVars, fileVars, ctrlVars, flagVars, watchVars
<1>14. CASE WorkerGet
  BY <1>14, SMTT(30) DEF WorkerGet, loopVars, workVars, fileVars, ctrlVars, flagVars, watchVars
<1>15. CASE WorkerScript
  BY <1>15 DEF WorkerScript, loopVars, workVars, fileVars, ctrlVars, flagVars, watchVars
<1>16. CASE WorkerAssist
  BY <1>16 DEF WorkerAssist, loopVars, workVars, fileVars, ctrlVars, flagVars, watchVars
<1>17. CASE WorkerCurrent
  BY <1>17 DEF WorkerCurrent, loopVars, workVars, fileVars, ctrlVars, flagVars, watchVars
<1>28. CASE WorkerLock
  BY <1>28 DEF WorkerLock, CleanedFiles, loopVars, workVars, fileVars, ctrlVars, flagVars, watchVars
<1>29. CASE CleanUpTest
  BY <1>29 DEF Exists, CleanedFiles, NextCleaned, CleanUpTest, loopVars, workVars, fileVars, ctrlVars, flagVars, watchVars
<1>30. CASE CleanUpUnlink
  BY <1>30 DEF Exists, CleanedFiles, NextCleaned, CleanUpUnlink, loopVars, workVars, fileVars, ctrlVars, flagVars, watchVars
<1>18. CASE WorkerFinish
  BY <1>18 DEF WorkerFinish, loopVars, workVars, fileVars, ctrlVars, flagVars, watchVars
<1>31. CASE WatchNobody
  BY <1>31 DEF WatchNobody, loopVars, workVars, fileVars, ctrlVars, flagVars, watchVars
<1>32. CASE WatchList
  BY <1>32 DEF WatchList, LockedByObserver, loopVars, workVars, fileVars, ctrlVars, flagVars, watchVars
<1>19. CASE Watch
  BY <1>19, SMTT(30) DEF Watch, Mark, PutUpdate, Outcome, Update, loopVars, workVars, fileVars, ctrlVars, flagVars, watchVars
<1>20. CASE CtrlRead
  BY <1>20 DEF CtrlRead, loopVars, workVars, fileVars, ctrlVars, flagVars, watchVars
<1>21. CASE CtrlLoad
  BY <1>21 DEF CtrlLoad, Rename, loopVars, workVars, fileVars, ctrlVars, flagVars, watchVars
<1>22. CASE CtrlLoaded
  BY <1>22 DEF CtrlLoaded, Rename, loopVars, workVars, fileVars, ctrlVars, flagVars, watchVars
<1>23. CASE CtrlRunning
  BY <1>23 DEF CtrlRunning, Rename, loopVars, workVars, fileVars, ctrlVars, flagVars, watchVars
<1>24. CASE CtrlAborted
  BY <1>24 DEF CtrlAborted, Rename, loopVars, workVars, fileVars, ctrlVars, flagVars, watchVars
<1>25. CASE CtrlCompleted
  BY <1>25 DEF CtrlCompleted, Rename, loopVars, workVars, fileVars, ctrlVars, flagVars, watchVars
<1>26. CASE UNCHANGED vars
  BY <1>26, SMTT(30) DEF vars, loopVars, workVars, fileVars, ctrlVars, flagVars, watchVars
<1>. QED
  BY <1>1, <1>2, <1>3, <1>4, <1>5, <1>6, <1>7, <1>8, <1>9, <1>10, <1>11, <1>12, <1>13, <1>14, <1>15, <1>16, <1>17, <1>18, <1>19, <1>20, <1>21, <1>22, <1>23, <1>24, <1>25, <1>26, <1>27, <1>28,
     <1>29, <1>30, <1>31, <1>32 DEF Next, Loop, Worker, Observer, Ctrl

\* A started MIModeServer satisfies the invariant of the waiting line.
LEMMA LineInit ==
    Init => LineInv
<1>1. Init => TypeOK
  <2>1. Init => /\ queue \in Seq(Cmds) /\ Len(queue) <= QueueSize
                /\ updates \in Seq(Update) /\ Len(updates) <= UpdateSize
                /\ events \in Seq(MIState)
    BY MiAssumption DEF Init
  <2>2. Init => /\ specials \in Sent /\ started \in [Cmds -> Nat]
                /\ assist \subseteq MIState
    BY MiAssumption DEF Init, Sent, MIState
  <2>. QED
    BY <2>1, <2>2 DEF Init, TypeOK
<1>. QED
  BY <1>1, CmdsAssumption DEF Init, LineInv, NoStop

\* The invariant of the waiting line holds in every reachable state.
THEOREM LineCorrect ==
    Spec => []LineInv
<1>1. LineInv /\ [Next]_vars => LineInv'
  BY LineStep
<1>. QED
  BY <1>1, LineInit, PTL DEF Spec

\* Type correctness of the MI server, the folder and the controller.
THEOREM TypeCorrect ==
    Spec => []TypeOK
<1>1. LineInv => TypeOK
  BY DEF LineInv
<1>. QED
  BY <1>1, LineCorrect, PTL

\* What is current or being handed over is registered and out of the line, so
\* executions.pop never misses, whatever $stop and $clean commands arrive.
THEOREM HandOverCorrect ==
    Spec => []HandOverSound
<1>1. LineInv => HandOverSound
  BY DEF LineInv, HandOverSound
<1>. QED
  BY <1>1, LineCorrect, PTL

\* A rename appends exactly one event.
LEMMA RenameEvents ==
    ASSUME TypeOK, NEW from \in MIState, NEW to \in MIState, NEW next,
           from \in assist, Rename(from, to, next)
    PROVE  /\ Len(events) \in Nat /\ Len(events') = Len(events) + 1
           /\ events'[Len(events) + 1] = to
           /\ \A i \in 1..Len(events) : events'[i] = events[i]
<1>1. events \in Seq(MIState) /\ events' = Append(events, to)
  BY DEF TypeOK, Rename
<1>. QED  BY <1>1, AppendProperties

\* Dispatching the first event keeps a terminal event last; a terminal event
\* that is dispatched was the only one.
LEMMA DispatchEvents ==
    ASSUME NEW S, NEW s \in Seq(S), NEW T, s # <<>>,
           \A i \in 1..Len(s) : s[i] \in T => i = Len(s)
    PROVE  /\ \A i \in 1..Len(Tail(s)) : Tail(s)[i] \in T =>
                i = Len(Tail(s)) /\ Tail(s)[i] = s[Len(s)]
           /\ Head(s) \in T => Tail(s) = <<>> /\ Head(s) = s[Len(s)]
           /\ Len(s) \in 1..Len(s)
<1>. DEFINE t == Tail(s)
            n == Len(s)
<1>1. /\ n \in Nat /\ n >= 1 /\ Len(t) = n - 1 /\ t \in Seq(S) /\ Head(s) = s[1]
      /\ \A i \in 1..Len(t) : t[i] = s[i + 1]
  BY HeadTailProperties
<1>2. \A i \in 1..n : s[i] \in T => i = n
  OBVIOUS
<1>3. n = 1 => t = <<>>
  <2>1. ASSUME NEW q \in Seq(S), Len(q) = 0 PROVE q = <<>>
    BY <2>1, EmptySeq
  <2>2. n = 1 => Len(t) = 0
    BY <1>1
  <2>. HIDE DEF t, n
  <2>. QED  BY <1>1, <2>1, <2>2
<1>. HIDE DEF t, n
<1>4. ASSUME NEW i \in 1..Len(t), t[i] \in T PROVE i = Len(t) /\ t[i] = s[n]
  <2>1. i \in Int /\ i + 1 \in 1..n /\ s[i + 1] \in T
    BY <1>1, <1>4
  <2>2. i + 1 = n
    BY <1>2, <2>1
  <2>. QED  BY <1>1, <2>1, <2>2
<1>5. ASSUME Head(s) \in T PROVE t = <<>> /\ Head(s) = s[n]
  <2>1. 1 \in 1..n /\ s[1] \in T
    BY <1>1, <1>5
  <2>2. n = 1
    BY <1>2, <2>1
  <2>. QED  BY <1>1, <1>3, <2>2
<1>6. n \in 1..n
  BY <1>1
<1>. QED  BY <1>4, <1>5, <1>6 DEF t, n

\* Dispatching the first event of a calm server, whoever it is attributed to.
LEMMA DispatchCalm ==
    ASSUME TypeOK, CalmInv, events # <<>>, events' = Tail(events)
    PROVE  /\ \A i \in 1..Len(events') : events'[i] \in Terminal =>
                /\ i = Len(events') /\ Resting
                /\ events'[i] = events[Len(events)]
           /\ Head(events) \in Terminal =>
                events' = <<>> /\ Resting /\ Head(events) = events[Len(events)]
           /\ Len(events) \in 1..Len(events) /\ InFlight # NoCmd
<1>1. /\ events \in Seq(MIState)
      /\ \A i \in 1..Len(events) : events[i] \in Terminal => i = Len(events) /\ Resting
      /\ InFlight # NoCmd
  BY DEF TypeOK, CalmInv
<1>2. /\ \A i \in 1..Len(events') : events'[i] \in Terminal =>
           i = Len(events') /\ events'[i] = events[Len(events)]
      /\ Head(events) \in Terminal => events' = <<>> /\ Head(events) = events[Len(events)]
      /\ Len(events) \in 1..Len(events)
  <2>. HIDE DEF Terminal
  <2>. QED  BY <1>1, DispatchEvents
<1>. QED  BY <1>1, <1>2

\* Until the first $stop calm is preserved by every step: the proof follows the
\* script through hand-over, renames, dispatch of the events and clean-up.
LEMMA CalmStep ==
    ASSUME NoStop', LineInv, CalmInv, [Next]_vars PROVE CalmInv'
<1>. TypeOK /\ TypeOK' BY TypeStep DEF LineInv
<1>. USE CmdsAssumption DEF TypeOK, LineInv, CalmInv, InFlight, Terminal, Resting, NoStop
<1>1. ASSUME NEW u \in Cmds, RegisterBegin(u) PROVE CalmInv'
  BY <1>1 DEF RegisterBegin, loopVars, workVars, fileVars, ctrlVars, flagVars, watchVars
<1>2. CASE RegisterPut
  BY <1>2 DEF RegisterPut, loopVars, workVars, fileVars, ctrlVars, flagVars, watchVars
<1>3. CASE RegisterStore
  BY <1>3 DEF RegisterStore, loopVars, workVars, fileVars, ctrlVars, flagVars, watchVars
<1>27. CASE RegisterReply
  BY <1>27 DEF RegisterReply, loopVars, workVars, fileVars, ctrlVars, flagVars, watchVars
<1>4. CASE StopBegin
  <2>. ~NoStop' /\ ~Undisturbed'
    BY <1>4, SpecialTells
  <2>. QED
    BY <1>4 DEF StopBegin, loopVars, workVars, fileVars, ctrlVars, flagVars, watchVars
<1>5. CASE StopDrain
  BY <1>5 DEF StopDrain, loopVars, workVars, fileVars, ctrlVars, flagVars, watchVars
<1>6. CASE StopTake
  BY <1>6 DEF StopTake, loopVars, workVars, fileVars, ctrlVars, flagVars, watchVars
<1>7. CASE StopScript
  BY <1>7 DEF StopScript, loopVars, workVars, fileVars, ctrlVars, flagVars, watchVars
<1>8. CASE StopAssist
  BY <1>8 DEF StopAssist, loopVars, workVars, fileVars, ctrlVars, flagVars, watchVars
<1>9. CASE StopRewrite
  BY <1>9 DEF StopRewrite, loopVars, workVars, fileVars, ctrlVars, flagVars, watchVars
<1>10. CASE StopMark
  BY <1>10 DEF StopMark, loopVars, workVars, fileVars, ctrlVars, flagVars, watchVars
<1>11. CASE Clean
  <2>. ~Undisturbed' /\ NoStop' = NoStop
    BY <1>11, SpecialTells
  <2>. QED
    BY <1>11 DEF Clean, loopVars, workVars, fileVars, ctrlVars, flagVars, watchVars
<1>12. CASE NextUpdate
  BY <1>12 DEF NextUpdate, loopVars, workVars, fileVars, ctrlVars, flagVars, watchVars
<1>13. CASE WorkerCheck
  BY <1>13 DEF WorkerCheck, loopVars, workVars, fileVars, ctrlVars, flagVars, watchVars
<1>14. CASE WorkerGet
  BY <1>14 DEF WorkerGet, loopVars, workVars, fileVars, ctrlVars, flagVars, watchVars
<1>15. CASE WorkerScript
  BY <1>15 DEF WorkerScript, loopVars, workVars, fileVars, ctrlVars, flagVars, watchVars
<1>16. CASE WorkerAssist
  BY <1>16 DEF WorkerAssist, loopVars, workVars, fileVars, ctrlVars, flagVars, watchVars
<1>17. CASE WorkerCurrent
  BY <1>17 DEF WorkerCurrent, loopVars, workVars, fileVars, ctrlVars, flagVars, watchVars
<1>28. CASE WorkerLock
  BY <1>28 DEF WorkerLock, CleanedFiles, loopVars, workVars, fileVars, ctrlVars, flagVars, watchVars
<1>29. CASE CleanUpTest
  BY <1>29 DEF Exists, CleanedFiles, NextCleaned, CleanUpTest, loopVars, workVars, fileVars, ctrlVars, flagVars, watchVars
<1>30. CASE CleanUpUnlink
  BY <1>30 DEF Exists, CleanedFiles, NextCleaned, CleanUpUnlink, loopVars, workVars, fileVars, ctrlVars, flagVars, watchVars
<1>18. CASE WorkerFinish
  BY <1>18 DEF WorkerFinish, loopVars, workVars, fileVars, ctrlVars, flagVars, watchVars
<1>31. CASE WatchNobody
  <2>1. events' = Tail(events) /\ events # <<>>
    BY <1>31 DEF WatchNobody
  <2>2. /\ InFlight # NoCmd /\ InFlight' = InFlight /\ Resting' = Resting
        /\ \A i \in 1..Len(events') : events'[i] \in Terminal => i = Len(events') /\ Resting'
    BY <1>31, <2>1, DispatchCalm DEF WatchNobody, workVars, ctrlVars
  <2>. QED
    BY <1>31, <2>2 DEF WatchNobody, loopVars, workVars, fileVars, ctrlVars, flagVars, watchVars
<1>32. CASE WatchList
  BY <1>32 DEF WatchList, loopVars, workVars, fileVars, ctrlVars, flagVars, watchVars
<1>19. CASE Watch
  <2>1. events' = Tail(events) /\ events # <<>>
    BY <1>19 DEF Watch
  <2>2. /\ InFlight # NoCmd /\ InFlight' = InFlight /\ Resting' = Resting
        /\ \A i \in 1..Len(events') : events'[i] \in Terminal => i = Len(events') /\ Resting'
        /\ Head(events) \in Terminal => events' = <<>> /\ Resting
    BY <1>19, <2>1, DispatchCalm DEF Watch, workVars, ctrlVars
  <2>3. current \in finished' => events' = <<>> /\ Resting'
    BY <1>19, <2>1, <2>2 DEF Watch, Mark
  <2>4. finished \subseteq finished'
    BY <1>19 DEF Watch, Mark
  <2>. QED
    BY <1>19, <2>2, <2>3, <2>4 DEF Watch, Mark, loopVars, workVars, fileVars, ctrlVars, flagVars, watchVars
<1>20. CASE CtrlRead
  BY <1>20 DEF CtrlRead, loopVars, workVars, fileVars, ctrlVars, flagVars, watchVars
<1>21. CASE CtrlLoad
  <2>1. cpc # "poll" /\ cpc # "dead" /\ InFlight # NoCmd /\ Rename("Idle", "Load", "Load")
    BY <1>21 DEF CtrlLoad
  <2>2. CASE "Idle" \in assist
    <3>1. /\ Len(events) \in Nat /\ Len(events') = Len(events) + 1
          /\ events'[Len(events) + 1] = "Load"
          /\ \A i \in 1..Len(events) : events'[i] = events[i]
      BY <1>21, <2>1, <2>2, RenameEvents DEF MIState, CtrlLoad
    <3>2. \A i \in 1..Len(events) : events[i] \notin Terminal
      BY <2>1
    <3>3. \A i \in 1..Len(events') : events'[i] \notin Terminal
      <4>. HIDE DEF TypeOK, LineInv, CalmInv, InFlight
      <4>. QED  BY <3>1, <3>2
    <3>4. cpc' = "Load" /\ assist' = (assist \ {"Idle"}) \cup {"Load"}
      BY <2>1, <2>2 DEF Rename
    <3>. QED
      BY <1>21, <2>1, <3>3, <3>4 DEF CtrlLoad, loopVars, workVars, fileVars, ctrlVars, flagVars, watchVars
  <2>3. CASE "Idle" \notin assist
    <3>1. cpc' = "dead" /\ UNCHANGED <<assist, events>>
      BY <2>1, <2>3 DEF Rename
    <3>. QED
      BY <1>21, <2>1, <2>3, <3>1 DEF CtrlLoad, loopVars, workVars, fileVars, ctrlVars, flagVars, watchVars
  <2>. QED  BY <2>2, <2>3
<1>22. CASE CtrlLoaded
  <2>1. cpc # "poll" /\ cpc # "dead" /\ InFlight # NoCmd /\ Rename("Load", "Loaded", "Loaded")
    BY <1>22 DEF CtrlLoaded
  <2>2. CASE "Load" \in assist
    <3>1. /\ Len(events) \in Nat /\ Len(events') = Len(events) + 1
          /\ events'[Len(events) + 1] = "Loaded"
          /\ \A i \in 1..Len(events) : events'[i] = events[i]
      BY <1>22, <2>1, <2>2, RenameEvents DEF MIState, CtrlLoaded
    <3>2. \A i \in 1..Len(events) : events[i] \notin Terminal
      BY <2>1
    <3>3. \A i \in 1..Len(events') : events'[i] \notin Terminal
      <4>. HIDE DEF TypeOK, LineInv, CalmInv, InFlight
      <4>. QED  BY <3>1, <3>2
    <3>4. cpc' = "Loaded" /\ assist' = (assist \ {"Load"}) \cup {"Loaded"}
      BY <2>1, <2>2 DEF Rename
    <3>. QED
      BY <1>22, <2>1, <3>3, <3>4 DEF CtrlLoaded, loopVars, workVars, fileVars, ctrlVars, flagVars, watchVars
  <2>3. CASE "Load" \notin assist
    <3>1. cpc' = "dead" /\ UNCHANGED <<assist, events>>
      BY <2>1, <2>3 DEF Rename
    <3>. QED
      BY <1>22, <2>1, <2>3, <3>1 DEF CtrlLoaded, loopVars, workVars, fileVars, ctrlVars, flagVars, watchVars
  <2>. QED  BY <2>2, <2>3
<1>23. CASE CtrlRunning
  <2>1. cpc # "poll" /\ cpc # "dead" /\ InFlight # NoCmd /\ Rename("Loaded", "Running", "Running")
    BY <1>23 DEF CtrlRunning
  <2>2. CASE "Loaded" \in assist
    <3>1. /\ Len(events) \in Nat /\ Len(events') = Len(events) + 1
          /\ events'[Len(events) + 1] = "Running"
          /\ \A i \in 1..Len(events) : events'[i] = events[i]
      BY <1>23, <2>1, <2>2, RenameEvents DEF MIState, CtrlRunning
    <3>2. \A i \in 1..Len(events) : events[i] \notin Terminal
      BY <2>1
    <3>3. \A i \in 1..Len(events') : events'[i] \notin Terminal
      <4>. HIDE DEF TypeOK, LineInv, CalmInv, InFlight
      <4>. QED  BY <3>1, <3>2
    <3>4. cpc' = "Running" /\ assist' = (assist \ {"Loaded"}) \cup {"Running"}
      BY <2>1, <2>2 DEF Rename
    <3>. QED
      BY <1>23, <2>1, <3>3, <3>4 DEF CtrlRunning, loopVars, workVars, fileVars, ctrlVars, flagVars, watchVars
  <2>3. CASE "Loaded" \notin assist
    <3>1. cpc' = "dead" /\ UNCHANGED <<assist, events>>
      BY <2>1, <2>3 DEF Rename
    <3>. QED
      BY <1>23, <2>1, <2>3, <3>1 DEF CtrlRunning, loopVars, workVars, fileVars, ctrlVars, flagVars, watchVars
  <2>. QED  BY <2>2, <2>3
<1>24. CASE CtrlAborted
  <2>1. cpc # "poll" /\ cpc # "dead" /\ InFlight # NoCmd /\ Rename(cpc, "Aborted", "poll")
    BY <1>24 DEF CtrlAborted
  <2>2. CASE cpc \in assist
    <3>1. /\ Len(events) \in Nat /\ Len(events') = Len(events) + 1
          /\ events'[Len(events) + 1] = "Aborted"
          /\ \A i \in 1..Len(events) : events'[i] = events[i]
      BY <1>24, <2>1, <2>2, RenameEvents DEF MIState, CtrlAborted
    <3>2. \A i \in 1..Len(events) : events[i] \notin Terminal
      BY <2>1
    <3>3. \A i \in 1..Len(events') : events'[i] \in Terminal => i = Len(events')
      <4>. HIDE DEF TypeOK, LineInv, CalmInv, InFlight
      <4>. QED  BY <3>1, <3>2
    <3>4. cpc' = "poll" /\ assist' = (assist \ {cpc}) \cup {"Aborted"}
      BY <2>1, <2>2 DEF Rename
    <3>. QED
      BY <1>24, <2>1, <3>3, <3>4 DEF CtrlAborted, loopVars, workVars, fileVars, ctrlVars, flagVars, watchVars
  <2>3. CASE cpc \notin assist
    <3>1. cpc' = "dead" /\ UNCHANGED <<assist, events>>
      BY <2>1, <2>3 DEF Rename
    <3>. QED
      BY <1>24, <2>1, <2>3, <3>1 DEF CtrlAborted, loopVars, workVars, fileVars, ctrlVars, flagVars, watchVars
  <2>. QED  BY <2>2, <2>3
<1>25. CASE CtrlCompleted
  <2>1. cpc # "poll" /\ cpc # "dead" /\ InFlight # NoCmd /\ Rename("Running", "Completed", "poll")
    BY <1>25 DEF CtrlCompleted
  <2>2. CASE "Running" \in assist
    <3>1. /\ Len(events) \in Nat /\ Len(events') = Len(events) + 1
          /\ events'[Len(events) + 1] = "Completed"
          /\ \A i \in 1..Len(events) : events'[i] = events[i]
      BY <1>25, <2>1, <2>2, RenameEvents DEF MIState, CtrlCompleted
    <3>2. \A i \in 1..Len(events) : events[i] \notin Terminal
      BY <2>1
    <3>3. \A i \in 1..Len(events') : events'[i] \in Terminal => i = Len(events')
      <4>. HIDE DEF TypeOK, LineInv, CalmInv, InFlight
      <4>. QED  BY <3>1, <3>2
    <3>4. cpc' = "poll" /\ assist' = (assist \ {"Running"}) \cup {"Completed"}
      BY <2>1, <2>2 DEF Rename
    <3>. QED
      BY <1>25, <2>1, <3>3, <3>4 DEF CtrlCompleted, loopVars, workVars, fileVars, ctrlVars, flagVars, watchVars
  <2>3. CASE "Running" \notin assist
    <3>1. cpc' = "dead" /\ UNCHANGED <<assist, events>>
      BY <2>1, <2>3 DEF Rename
    <3>. QED
      BY <1>25, <2>1, <2>3, <3>1 DEF CtrlCompleted, loopVars, workVars, fileVars, ctrlVars, flagVars, watchVars
  <2>. QED  BY <2>2, <2>3
<1>26. CASE UNCHANGED vars
  BY <1>26 DEF vars, loopVars, workVars, fileVars, ctrlVars, flagVars, watchVars
<1>. QED
  BY <1>1, <1>2, <1>3, <1>4, <1>5, <1>6, <1>7, <1>8, <1>9, <1>10, <1>11, <1>12, <1>13, <1>14, <1>15, <1>16, <1>17, <1>18, <1>19, <1>20, <1>21, <1>22, <1>23, <1>24, <1>25, <1>26, <1>27, <1>28,
     <1>29, <1>30, <1>31, <1>32 DEF Next, Loop, Worker, Observer, Ctrl

\* Putting an entry that tells the truth keeps the update queue truthful.
LEMMA PutUpdateTrue ==
    ASSUME NEW D, NEW q \in Seq(Update), NEW e \in Update,
           e.kind = "completed" => e.cmd \in D,
           \A i \in 1..Len(q) : q[i].kind = "completed" => q[i].cmd \in D
    PROVE  \A i \in 1..Len(PutUpdate(q, e)) :
              PutUpdate(q, e)[i].kind = "completed" => PutUpdate(q, e)[i].cmd \in D
<1>. Len(q) \in Nat  OBVIOUS
<1>1. CASE Len(q) < UpdateSize
  BY <1>1, AppendProperties DEF PutUpdate
<1>2. CASE ~(Len(q) < UpdateSize)
  BY <1>2 DEF PutUpdate
<1>. QED  BY <1>1, <1>2

\* Undisturbed, what is reported stays true: the files are those of the script
\* in flight, and its terminal event is credited to it.
LEMMA QuietStep ==
    ASSUME Undisturbed', LineInv, CalmInv, QuietInv, [Next]_vars PROVE QuietInv'
<1>. TypeOK /\ TypeOK' BY TypeStep DEF LineInv
<1>. USE CmdsAssumption DEF TypeOK, LineInv, CalmInv, QuietInv, InFlight, Terminal, Resting,
    NoStop, Undisturbed
<1>1. ASSUME NEW u \in Cmds, RegisterBegin(u) PROVE QuietInv'
  BY <1>1 DEF RegisterBegin, loopVars, workVars, fileVars, ctrlVars, flagVars, watchVars
<1>2. CASE RegisterPut
  BY <1>2 DEF RegisterPut, loopVars, workVars, fileVars, ctrlVars, flagVars, watchVars
<1>3. CASE RegisterStore
  BY <1>3 DEF RegisterStore, loopVars, workVars, fileVars, ctrlVars, flagVars, watchVars
<1>27. CASE RegisterReply
  BY <1>27 DEF RegisterReply, loopVars, workVars, fileVars, ctrlVars, flagVars, watchVars
<1>4. CASE StopBegin
  <2>. ~NoStop' /\ ~Undisturbed'
    BY <1>4, SpecialTells
  <2>. QED
    BY <1>4 DEF StopBegin, loopVars, workVars, fileVars, ctrlVars, flagVars, watchVars
<1>5. CASE StopDrain
  BY <1>5 DEF StopDrain, loopVars, workVars, fileVars, ctrlVars, flagVars, watchVars
<1>6. CASE StopTake
  BY <1>6 DEF StopTake, loopVars, workVars, fileVars, ctrlVars, flagVars, watchVars
<1>7. CASE StopScript
  BY <1>7 DEF StopScript, loopVars, workVars, fileVars, ctrlVars, flagVars, watchVars
<1>8. CASE StopAssist
  BY <1>8 DEF StopAssist, loopVars, workVars, fileVars, ctrlVars, flagVars, watchVars
<1>9. CASE StopRewrite
  BY <1>9 DEF StopRewrite, loopVars, workVars, fileVars, ctrlVars, flagVars, watchVars
<1>10. CASE StopMark
  BY <1>10 DEF StopMark, loopVars, workVars, fileVars, ctrlVars, flagVars, watchVars
<1>11. CASE Clean
  <2>. ~Undisturbed' /\ NoStop' = NoStop
    BY <1>11, SpecialTells
  <2>. QED
    BY <1>11 DEF Clean, loopVars, workVars, fileVars, ctrlVars, flagVars, watchVars
<1>12. CASE NextUpdate
  BY <1>12 DEF NextUpdate, loopVars, workVars, fileVars, ctrlVars, flagVars, watchVars
<1>13. CASE WorkerCheck
  BY <1>13 DEF WorkerCheck, loopVars, workVars, fileVars, ctrlVars, flagVars, watchVars
<1>14. CASE WorkerGet
  BY <1>14 DEF WorkerGet, loopVars, workVars, fileVars, ctrlVars, flagVars, watchVars
<1>15. CASE WorkerScript
  BY <1>15 DEF WorkerScript, loopVars, workVars, fileVars, ctrlVars, flagVars, watchVars
<1>16. CASE WorkerAssist
  BY <1>16 DEF WorkerAssist, loopVars, workVars, fileVars, ctrlVars, flagVars, watchVars
<1>17. CASE WorkerCurrent
  BY <1>17 DEF WorkerCurrent, loopVars, workVars, fileVars, ctrlVars, flagVars, watchVars
<1>28. CASE WorkerLock
  BY <1>28 DEF WorkerLock, CleanedFiles, loopVars, workVars, fileVars, ctrlVars, flagVars, watchVars
<1>29. CASE CleanUpTest
  BY <1>29 DEF Exists, CleanedFiles, NextCleaned, CleanUpTest, loopVars, workVars, fileVars, ctrlVars, flagVars, watchVars
<1>30. CASE CleanUpUnlink
  BY <1>30 DEF Exists, CleanedFiles, NextCleaned, CleanUpUnlink, loopVars, workVars, fileVars, ctrlVars, flagVars, watchVars
<1>18. CASE WorkerFinish
  BY <1>18 DEF WorkerFinish, loopVars, workVars, fileVars, ctrlVars, flagVars, watchVars
<1>31. CASE WatchNobody
  <2>1. events' = Tail(events) /\ events # <<>>
    BY <1>31 DEF WatchNobody
  <2>2. InFlight' = InFlight /\ Resting' = Resting
    BY <1>31 DEF WatchNobody, workVars, ctrlVars
  <2>3. \A i \in 1..Len(events') : events'[i] = "Completed" => InFlight' \in done
    BY <2>1, <2>2, DispatchCalm
  <2>. QED
    BY <1>31, <2>2, <2>3 DEF WatchNobody, loopVars, workVars, fileVars, ctrlVars, flagVars, watchVars
<1>32. CASE WatchList
  <2>1. \A i \in 1..Len(updates') : updates'[i].kind = "completed" => updates'[i].cmd \in done
    <3>1. All \in Update /\ All.kind # "completed"
      BY DEF All, Update
    <3>2. /\ updates \in Seq(Update)
          /\ \A i \in 1..Len(updates) : updates[i].kind = "completed" => updates[i].cmd \in done
      OBVIOUS
    <3>3. updates' \in {updates, PutUpdate(updates, All)}
      BY <1>32 DEF WatchList
    <3>. HIDE DEF CalmInv, LineInv, QuietInv, TypeOK
    <3>. QED  BY <3>1, <3>2, <3>3, PutUpdateTrue
  <2>. QED
    BY <1>32, <2>1 DEF WatchList, loopVars, workVars, fileVars, ctrlVars, flagVars, watchVars
<1>19. CASE Watch
  <2>1. events' = Tail(events) /\ events # <<>>
    BY <1>19 DEF Watch
  <2>2. InFlight' = InFlight /\ Resting' = Resting /\ InFlight = current
    BY <1>19 DEF Watch, workVars, ctrlVars
  <2>3. /\ \A i \in 1..Len(events') : events'[i] = "Completed" => InFlight' \in done
        /\ Head(events) = "Completed" => current \in done
    BY <2>1, <2>2, DispatchCalm
  <2>4. finished' \ aborted' \subseteq done
    BY <1>19, <2>3 DEF Watch, Mark
  <2>5. \A i \in 1..Len(updates') : updates'[i].kind = "completed" => updates'[i].cmd \in done
    <3>. DEFINE e == [cmd |-> current, kind |-> Outcome(current, finished', aborted')]
    <3>1. e \in Update /\ (e.kind = "completed" => e.cmd \in done)
      BY <1>19, <2>4 DEF Watch, Outcome, Update
    <3>2. updates' = PutUpdate(updates, e)
      BY <1>19 DEF Watch
    <3>. HIDE DEF e, CalmInv, LineInv
    <3>. QED  BY <3>1, <3>2, PutUpdateTrue
  <2>. QED
    BY <1>19, <2>2, <2>3, <2>4, <2>5
       DEF Watch, Mark, loopVars, workVars, fileVars, ctrlVars, flagVars, watchVars
<1>20. CASE CtrlRead
  BY <1>20 DEF CtrlRead, loopVars, workVars, fileVars, ctrlVars, flagVars, watchVars
<1>21. CASE CtrlLoad
  <2>1. "Idle" \in assist /\ cpc # "poll" /\ csrc = InFlight /\ Rename("Idle", "Load", "Load")
    BY <1>21 DEF CtrlLoad
  <2>2. /\ Len(events) \in Nat /\ Len(events') = Len(events) + 1
        /\ events'[Len(events) + 1] = "Load"
        /\ \A i \in 1..Len(events) : events'[i] = events[i]
    BY <2>1, RenameEvents DEF MIState
  <2>3. \A i \in 1..Len(events) : events[i] \notin Terminal
    BY <2>1
  <2>4. \A i \in 1..Len(events') : events'[i] \notin Terminal
    <3>. HIDE DEF TypeOK, LineInv, CalmInv, QuietInv, InFlight
    <3>. QED  BY <2>2, <2>3
  <2>5. cpc' = "Load" /\ assist' = (assist \ {"Idle"}) \cup {"Load"}
    BY <2>1 DEF Rename
  <2>. QED
    BY <1>21, <2>1, <2>4, <2>5 DEF CtrlLoad, loopVars, workVars, fileVars, ctrlVars, flagVars, watchVars
<1>22. CASE CtrlLoaded
  <2>1. "Load" \in assist /\ cpc # "poll" /\ csrc = InFlight /\ Rename("Load", "Loaded", "Loaded")
    BY <1>22 DEF CtrlLoaded
  <2>2. /\ Len(events) \in Nat /\ Len(events') = Len(events) + 1
        /\ events'[Len(events) + 1] = "Loaded"
        /\ \A i \in 1..Len(events) : events'[i] = events[i]
    BY <2>1, RenameEvents DEF MIState
  <2>3. \A i \in 1..Len(events) : events[i] \notin Terminal
    BY <2>1
  <2>4. \A i \in 1..Len(events') : events'[i] \notin Terminal
    <3>. HIDE DEF TypeOK, LineInv, CalmInv, QuietInv, InFlight
    <3>. QED  BY <2>2, <2>3
  <2>5. cpc' = "Loaded" /\ assist' = (assist \ {"Load"}) \cup {"Loaded"}
    BY <2>1 DEF Rename
  <2>. QED
    BY <1>22, <2>1, <2>4, <2>5 DEF CtrlLoaded, loopVars, workVars, fileVars, ctrlVars, flagVars, watchVars
<1>23. CASE CtrlRunning
  <2>1. "Loaded" \in assist /\ cpc # "poll" /\ csrc = InFlight /\ Rename("Loaded", "Running", "Running")
    BY <1>23 DEF CtrlRunning
  <2>2. /\ Len(events) \in Nat /\ Len(events') = Len(events) + 1
        /\ events'[Len(events) + 1] = "Running"
        /\ \A i \in 1..Len(events) : events'[i] = events[i]
    BY <2>1, RenameEvents DEF MIState
  <2>3. \A i \in 1..Len(events) : events[i] \notin Terminal
    BY <2>1
  <2>4. \A i \in 1..Len(events') : events'[i] \notin Terminal
    <3>. HIDE DEF TypeOK, LineInv, CalmInv, QuietInv, InFlight
    <3>. QED  BY <2>2, <2>3
  <2>5. cpc' = "Running" /\ assist' = (assist \ {"Loaded"}) \cup {"Running"}
    BY <2>1 DEF Rename
  <2>. QED
    BY <1>23, <2>1, <2>4, <2>5 DEF CtrlRunning, loopVars, workVars, fileVars, ctrlVars, flagVars, watchVars
<1>24. CASE CtrlAborted
  <2>1. cpc \in assist /\ cpc # "poll" /\ csrc = InFlight /\ Rename(cpc, "Aborted", "poll")
    BY <1>24 DEF CtrlAborted
  <2>2. /\ Len(events) \in Nat /\ Len(events') = Len(events) + 1
        /\ events'[Len(events) + 1] = "Aborted"
        /\ \A i \in 1..Len(events) : events'[i] = events[i]
    BY <2>1, <1>24, RenameEvents DEF MIState, CtrlAborted
  <2>3. \A i \in 1..Len(events) : events[i] \notin Terminal
    BY <2>1
  <2>4. \A i \in 1..Len(events') :
           events'[i] # "Completed" /\ (events'[i] \in Terminal => i = Len(events'))
    <3>. HIDE DEF TypeOK, LineInv, CalmInv, QuietInv, InFlight
    <3>. QED  BY <2>2, <2>3
  <2>5. cpc' = "poll" /\ assist' = (assist \ {cpc}) \cup {"Aborted"}
    BY <2>1 DEF Rename
  <2>. QED
    BY <1>24, <2>1, <2>4, <2>5 DEF CtrlAborted, loopVars, workVars, fileVars, ctrlVars, flagVars, watchVars
<1>25. CASE CtrlCompleted
  <2>1. "Running" \in assist /\ cpc # "poll" /\ csrc = InFlight /\ Rename("Running", "Completed", "poll")
    BY <1>25 DEF CtrlCompleted
  <2>2. /\ Len(events) \in Nat /\ Len(events') = Len(events) + 1
        /\ events'[Len(events) + 1] = "Completed"
        /\ \A i \in 1..Len(events) : events'[i] = events[i]
    BY <2>1, RenameEvents DEF MIState
  <2>3. \A i \in 1..Len(events) : events[i] \notin Terminal
    BY <2>1
  <2>4. \A i \in 1..Len(events') : events'[i] \in Terminal => i = Len(events')
    <3>. HIDE DEF TypeOK, LineInv, CalmInv, QuietInv, InFlight
    <3>. QED  BY <2>2, <2>3
  <2>5. cpc' = "poll" /\ assist' = (assist \ {"Running"}) \cup {"Completed"}
    BY <2>1 DEF Rename
  <2>. QED
    BY <1>25, <2>1, <2>4, <2>5 DEF CtrlCompleted, loopVars, workVars, fileVars, ctrlVars, flagVars, watchVars
<1>26. CASE UNCHANGED vars
  BY <1>26 DEF vars, loopVars, workVars, fileVars, ctrlVars, flagVars, watchVars
<1>. QED
  BY <1>1, <1>2, <1>3, <1>4, <1>5, <1>6, <1>7, <1>8, <1>9, <1>10, <1>11, <1>12, <1>13, <1>14, <1>15, <1>16, <1>17, <1>18, <1>19, <1>20, <1>21, <1>22, <1>23, <1>24, <1>25, <1>26, <1>27, <1>28,
     <1>29, <1>30, <1>31, <1>32 DEF Next, Loop, Worker, Observer, Ctrl

\* Until the first $stop nothing takes a uuid out of the line but the worker
\* that hands it over.
LEMMA InLineStep ==
    ASSUME NoStop', LineInv, CalmInv, InLineInv, [Next]_vars PROVE InLineInv'
<1>. TypeOK /\ TypeOK' BY TypeStep DEF LineInv
<1>. USE CmdsAssumption DEF InLineInv, InQueue
<1>1. ASSUME NEW u \in Cmds, RegisterBegin(u) PROVE InLineInv'
  BY <1>1 DEF RegisterBegin, flagVars, workVars
<1>2. CASE RegisterPut
  <2>1. queue \in Seq(Cmds) /\ lcmd \in Cmds /\ queue' = Append(queue, lcmd)
    BY <1>2 DEF RegisterPut, LineInv, TypeOK
  <2>2. /\ Len(queue) \in Nat /\ Len(queue') = Len(queue) + 1
        /\ queue'[Len(queue) + 1] = lcmd
        /\ \A i \in 1..Len(queue) : queue'[i] = queue[i]
    <3>. HIDE DEF InLineInv
    <3>. QED  BY <2>1, AppendProperties
  <2>3. 1..Len(queue) \subseteq 1..Len(queue') /\ Len(queue) + 1 \in 1..Len(queue')
    BY <2>2
  <2>4. InQueue(lcmd)'
    BY <1>2, <2>2, <2>3 DEF RegisterPut
  <2>5. \A u : InQueue(u) => InQueue(u)'
    BY <2>2, <2>3
  <2>. HIDE DEF InQueue
  <2>6. \A u \in executions \ finished : InQueue(u) \/ u \in {wcmd, current} \/ wpc = "dead"
    BY DEF InQueue
  <2>7. \A u \in executions' \ finished' : InQueue(u)' \/ u \in {wcmd', current'} \/ wpc' = "dead"
    BY <1>2, <2>5, <2>6 DEF RegisterPut, flagVars, workVars
  <2>. QED  BY <1>2, <2>4, <2>7 DEF RegisterPut, InQueue
<1>3. CASE RegisterStore
  BY <1>3 DEF RegisterStore, flagVars, workVars
<1>4. CASE StopBegin \/ Clean \/ StopDrain \/ StopTake \/ StopScript \/ StopAssist
           \/ StopRewrite \/ StopMark
  BY <1>4, SpecialTells DEF Clean, StopDrain, StopTake, StopScript,
      StopAssist, StopRewrite, StopMark, CalmInv, flagVars, workVars, loopVars
<1>5. CASE NextUpdate
  BY <1>5 DEF NextUpdate, flagVars, workVars, loopVars
<1>6. CASE WorkerCheck
  BY <1>6 DEF WorkerCheck, flagVars, workVars, loopVars
<1>7. CASE WorkerGet
  <2>1. CASE wpc' = "dead"
    BY <2>1
  <2>2. CASE wpc' # "dead"
    <3>1. /\ queue \in Seq(Cmds) /\ queue # <<>> /\ queue' = Tail(queue)
          /\ wcmd' = Head(queue) /\ Head(queue) \in executions
      BY <1>7, <2>2 DEF WorkerGet, LineInv, TypeOK
    <3>2. /\ Len(queue) \in Nat /\ Len(queue') = Len(queue) - 1 /\ queue[1] = wcmd'
          /\ \A i \in 1..Len(queue') : queue'[i] = queue[i + 1]
      <4>. HIDE DEF InLineInv
      <4>. QED  BY <3>1, HeadTailProperties
    <3>3. ASSUME NEW u, InQueue(u) PROVE InQueue(u)' \/ u = wcmd'
      <4>1. PICK i \in 1..Len(queue) : queue[i] = u
        BY <3>3
      <4>2. CASE i = 1
        BY <3>2, <4>1, <4>2
      <4>3. CASE i # 1
        <5>1. i - 1 \in 1..Len(queue') /\ queue'[i - 1] = queue[i]
          BY <3>2, <4>3
        <5>. QED  BY <4>1, <5>1
      <4>. QED  BY <4>2, <4>3
    <3>4. wcmd = NoCmd /\ current = NoCmd /\ current' = NoCmd /\ lpc' = lpc /\ lcmd' = lcmd
          /\ executions' = executions /\ finished' = finished /\ wpc # "dead"
      BY <1>7 DEF WorkerGet, LineInv, flagVars, loopVars
    <3>5. lpc = "store" => lcmd # wcmd'
      BY <3>1, <3>4 DEF LineInv
    <3>6. NoCmd \notin executions
      BY DEF LineInv, TypeOK
    <3>. HIDE DEF InQueue
    <3>7. \A u \in executions \ finished : InQueue(u) \/ u \in {wcmd, current} \/ wpc = "dead"
      BY DEF InQueue
    <3>8. \A u \in executions' \ finished' : InQueue(u)' \/ u \in {wcmd', current'} \/ wpc' = "dead"
      BY <3>3, <3>4, <3>6, <3>7
    <3>9. (lpc = "store" => InQueue(lcmd) \/ wpc = "dead")'
      BY <3>3, <3>4, <3>5
    <3>. QED  BY <3>8, <3>9 DEF InQueue
  <2>. QED  BY <2>1, <2>2
<1>8. CASE WorkerScript
  BY <1>8 DEF WorkerScript, flagVars, loopVars
<1>9. CASE WorkerAssist
  BY <1>9 DEF WorkerAssist, flagVars, loopVars
<1>10. CASE WorkerCurrent
  BY <1>10 DEF WorkerCurrent, flagVars, loopVars, LineInv, TypeOK
<1>11. CASE WorkerFinish
  BY <1>11 DEF WorkerFinish, LineInv, flagVars, loopVars, workVars
<1>12. CASE Watch
  BY <1>12 DEF Watch, Mark, flagVars, loopVars, workVars
<1>15. CASE WatchNobody \/ WatchList
  BY <1>15 DEF WatchNobody, WatchList, flagVars, loopVars, workVars
<1>16. CASE RegisterReply
  BY <1>16 DEF RegisterReply, flagVars, workVars
<1>17. CASE WorkerLock \/ CleanUpTest \/ CleanUpUnlink
  BY <1>17 DEF WorkerLock, CleanUpTest, CleanUpUnlink, flagVars, loopVars
<1>13. CASE Ctrl
  BY <1>13 DEF Ctrl, CtrlRead, CtrlLoad, CtrlLoaded, CtrlRunning, CtrlAborted,
      CtrlCompleted, flagVars, loopVars, workVars
<1>14. CASE UNCHANGED vars
  BY <1>14 DEF vars, flagVars, loopVars, workVars
<1>. QED
  BY <1>1, <1>2, <1>3, <1>4, <1>5, <1>6, <1>7, <1>8, <1>9, <1>10, <1>11,
     <1>12, <1>13, <1>14, <1>15, <1>16, <1>17 DEF Next, Loop, Worker, Observer

\* A special command that was sent stays counted.
LEMMA SpecialsGrow ==
    ASSUME LineInv, [Next]_vars
    PROVE  (NoStop' => NoStop) /\ (Undisturbed' => Undisturbed)
<1>. TypeOK  BY DEF LineInv
<1>1. CASE StopBegin \/ Clean
  BY <1>1, SpecialTells DEF Undisturbed
<1>2. CASE ~(StopBegin \/ Clean)
  <2>1. specials' = specials
    BY <1>2 DEF Next, Loop, Worker, Observer, Ctrl, vars, RegisterBegin, RegisterPut,
       RegisterStore, RegisterReply, StopDrain, StopTake, StopScript, StopAssist,
       StopRewrite, StopMark, NextUpdate, WorkerCheck, WorkerGet, WorkerScript,
       WorkerAssist, WorkerCurrent, WorkerLock, CleanUpTest, CleanUpUnlink,
       WorkerFinish, WatchNobody, Watch, WatchList, CtrlRead, CtrlLoad, CtrlLoaded, CtrlRunning, CtrlAborted, CtrlCompleted
  <2>. QED  BY <2>1 DEF NoStop, Undisturbed
<1>. QED  BY <1>1, <1>2

\* On a warm folder the server starts at rest.
LEMMA QuietInit ==
    ~ColdStart /\ Init => CalmInv /\ QuietInv /\ InLineInv
BY MiAssumption, CmdsAssumption DEF Init, CalmInv, QuietInv, InLineInv, InQueue,
   InFlight, Terminal, Resting, NoStop, Undisturbed

-----------------------------------------------------------------------------
\* From a start on a warm folder calm lasts to the first $stop, and quiet to
\* the first special command.
Quiet == (NoStop => CalmInv /\ InLineInv) /\ (Undisturbed => QuietInv)

\* It survives every step.
LEMMA QuietKept ==
    ASSUME LineInv, Quiet, [Next]_vars PROVE Quiet'
<1>1. ASSUME NoStop' PROVE CalmInv' /\ InLineInv'
  BY <1>1, SpecialsGrow, CalmStep, InLineStep DEF Quiet
<1>2. ASSUME Undisturbed' PROVE QuietInv'
  <2>1. Undisturbed /\ NoStop
    BY <1>2, SpecialsGrow DEF Undisturbed
  <2>. QED  BY <1>2, <2>1, QuietStep DEF Quiet
<1>. QED  BY <1>1, <1>2 DEF Quiet

\* The two hold in every reachable state.
THEOREM QuietCorrect ==
    ASSUME ~ColdStart PROVE Spec => [](LineInv /\ Quiet)
<1>1. Init => LineInv /\ Quiet
  BY LineInit, QuietInit DEF Quiet
<1>2. LineInv /\ Quiet /\ [Next]_vars => (LineInv /\ Quiet)'
  BY LineStep, QuietKept
<1>. QED
  BY <1>1, <1>2, PTL DEF Spec

\* Until the first special command a script is reported completed only after
\* the controller ran that very script to the end.
THEOREM NoPhantomCorrect ==
    ASSUME ~ColdStart PROVE Spec => []NoPhantomCompletion
<1>1. Quiet => NoPhantomCompletion
  BY DEF Quiet, CalmInv, QuietInv, NoPhantomCompletion, Undisturbed
<1>. QED
  BY <1>1, QuietCorrect, PTL

\* Until the first $stop the controller begins each script at most once.
THEOREM StartedOnceCorrect ==
    ASSUME ~ColdStart PROVE Spec => []StartedOnce
<1>1. Quiet => StartedOnce
  BY DEF Quiet, CalmInv, StartedOnce
<1>. QED
  BY <1>1, QuietCorrect, PTL

\* Until the first $stop every execution listed as unfinished is in the line,
\* being handed over or current, unless the registration race ended the worker.
THEOREM ListedCorrect ==
    ASSUME ~ColdStart PROVE Spec => []ListedIsInLine
<1>1. Quiet => ListedIsInLine
  BY DEF Quiet, InLineInv, InQueue, ListedIsInLine
<1>. QED
  BY <1>1, QuietCorrect, PTL

\* Until the first $stop the worker never rewrites the script file under the
\* controller.
THEOREM NoOverwriteCorrect ==
    ASSUME ~ColdStart PROVE Spec => NoOverwrite
<1>1. LineInv /\ Quiet => [WorkerScript /\ NoStop => cpc = "poll"]_vars
  BY DEF LineInv, Quiet, CalmInv, InFlight, Resting, WorkerScript
<1>. QED
  BY <1>1, QuietCorrect, PTL DEF NoOverwrite

\* The worker ends only on one of the three races, whatever is sent: a drained
\* queue, a uuid put before its entry, or a file of the finished execution that
\* goes away between exists() and unlink(). The last takes a special command,
\* and which one the file says; but for the bare assist file, which start-up
\* files can leave there too.
THEOREM WorkerDeathCorrect ==
    Spec => WorkerDeath
<1>. DEFINE Death == wpc' = "dead" /\ wpc # "dead" =>
               \/ wpc = "get" /\ queue = <<>> /\ ~NoStop
               \/ wpc = "get" /\ queue # <<>> /\ lpc = "store" /\ Head(queue) = lcmd
               \/ wpc = "unlink" /\ wfile = "script" /\ ~Undisturbed
               \/ wpc = "unlink" /\ wfile = "Idle" /\ (ColdStart \/ ~NoStop)
               \/ wpc = "unlink" /\ wfile \in {"Completed", "Aborted"} /\ specials.clean > 0
<1>1. LineInv /\ (ColdStart \/ Quiet) /\ [Next]_vars => [Death]_vars
  <2>. SUFFICES ASSUME LineInv, ColdStart \/ Quiet, Next, wpc' = "dead", wpc # "dead"
                PROVE  Death
    OBVIOUS
  <2>1. WorkerGet \/ CleanUpUnlink
    BY DEF Next, Loop, Worker, Observer, Ctrl, RegisterBegin, RegisterPut, RegisterStore,
        RegisterReply, StopBegin, StopDrain, StopTake, StopScript, StopAssist, StopRewrite,
        StopMark, Clean, NextUpdate, WorkerCheck, WorkerScript, WorkerAssist,
        WorkerCurrent, WorkerLock, CleanUpTest, WorkerFinish, WatchNobody, Watch,
        WatchList, CtrlRead, CtrlLoad, CtrlLoaded, CtrlRunning, CtrlAborted,
        CtrlCompleted, workVars
  <2>2. CASE WorkerGet /\ queue = <<>>
    BY <2>2 DEF WorkerGet, LineInv
  <2>3. CASE WorkerGet /\ queue # <<>>
    <3>1. Head(queue) = queue[1] /\ 1 \in 1..Len(queue)
      BY <2>3 DEF LineInv, TypeOK
    <3>. QED
      BY <2>3, <3>1 DEF WorkerGet, LineInv
  <2>4. CASE CleanUpUnlink
    <3>1. wpc = "unlink" /\ ~Exists(wfile) /\ wfile \in CleanedFiles
      BY <2>4 DEF CleanUpUnlink, LineInv
    <3>2. wfile = "Idle" => ColdStart \/ ~NoStop
      BY <3>1 DEF Quiet, CalmInv
    <3>. QED
      BY <3>1, <3>2 DEF Exists, CleanedFiles, LineInv, Terminal
  <2>. QED  BY <2>1, <2>2, <2>3, <2>4
<1>2. CASE ColdStart
  BY <1>1, <1>2, LineCorrect, PTL DEF Spec, WorkerDeath
<1>3. CASE ~ColdStart
  <2>1. Spec => [](LineInv /\ Quiet)
    BY <1>3, QuietCorrect
  <2>. QED
    BY <1>1, <2>1, PTL DEF Spec, WorkerDeath
<1>. QED
  BY <1>2, <1>3
=============================================================================
