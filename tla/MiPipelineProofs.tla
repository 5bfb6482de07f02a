--------------------------- MODULE MiPipelineProofs ---------------------------
(***************************************************************************)
(* Theorems about MiPipeline: what a call of execute() reports is what     *)
(* became of its own execution, and the pipeline implements MiPromise; for *)
(* any calls, queue sizes, special commands and lost updates.              *)
(***************************************************************************)
EXTENDS MiPipeline, MiModeProofs

\* The variables of the runner and the broker.
Wired ==
    /\ req \subseteq Cmds /\ acks \subseteq Ack
    /\ wire \in Seq([cmd: Cmds, kind: Kinds])
    /\ run \in [Cmds -> Reports \cup {"new", "calling", "waiting", "failed"}]
    /\ fut \in [Cmds -> Kinds \cup {"none"}]
    /\ lost \subseteq Cmds

\* What the chamber has of an execution, in whatever hands.
Held(u) == u \in {lcmd, wcmd, current, script, csrc} \/ InQueue(u) \/ started[u] > 0

Acked(u) == \E a \in acks : a.cmd = u

\* Nothing is about an execution that was not submitted; a request that waits
\* has no reply, and the one the loop is at does not wait.
Asked ==
    /\ \A u \in Cmds : Held(u) \/ u \in req \/ Acked(u) => run[u] # "new"
    /\ \A u \in req : run[u] \in {"calling", "failed"} /\ ~Acked(u)
    /\ lpc \in {"put", "store", "reply"} => lcmd \notin req

\* The flags of u are such that an end of kind k is true of it.
Told(u, k) ==
    u \in finished /\ (k = "aborted" => u \in aborted) /\ (k = "stopped" => u \in stopped)

\* Whatever is on its way about an execution, or was taken for its end, is
\* true of it.
UpdatesTrue ==
    \A i \in 1..Len(updates) : updates[i].kind \in Kinds => Told(updates[i].cmd, updates[i].kind)
AcksTrue == \A a \in acks : a.kind \in Reports => Told(a.cmd, a.kind)
WireTrue == \A i \in 1..Len(wire) : Told(wire[i].cmd, wire[i].kind)
EndsTrue ==
    \A u \in Cmds : /\ fut[u] \in Kinds => Told(u, fut[u])
                    /\ run[u] \in Reports => Told(u, run[u])

PipeInv == LineInv /\ Wired /\ Asked /\ UpdatesTrue /\ AcksTrue /\ WireTrue /\ EndsTrue

-----------------------------------------------------------------------------
(* The chamber's steps.                                                    *)

\* Every step of the pipeline is one of the chamber's, or leaves it alone.
LEMMA ChamberSteps ==
    ASSUME [PipeNext]_pipeVars
    PROVE  [Next]_vars
BY DEF PipeNext, Client, Server, ChamberStep, LoopAlone, Observe, Submit, AckTimeout,
       ReceiveAck, WaitTimeout, Finish, Deliver, Lose, Serve, Reply, Publish, Next, Loop,
       Observer, pipeVars

\* The pipeline implements the chamber's own specification: whatever the runner
\* and the broker do to it, every theorem of the MI mode holds in it.
THEOREM ChamberInPipeline ==
    PipeSpec => Spec
<1>1. PipeInit => Init
  BY DEF PipeInit
<1>2. [PipeNext]_pipeVars => [Next]_vars
  BY ChamberSteps
<1> QED BY <1>1, <1>2, PTL DEF PipeSpec, Spec

\* What an execution has come to is never taken back.
LEMMA FlagsGrow ==
    ASSUME [Next]_vars
    PROVE  finished \subseteq finished' /\ aborted \subseteq aborted'
           /\ stopped \subseteq stopped' /\ done \subseteq done'
<1>1. ASSUME NEW u \in Cmds, RegisterBegin(u)
      PROVE  finished' = finished /\ aborted' = aborted /\ stopped' = stopped /\ done' = done
  BY <1>1 DEF RegisterBegin, loopVars, workVars, fileVars, ctrlVars, flagVars, watchVars
<1>2. CASE RegisterPut
  BY <1>2 DEF RegisterPut, loopVars, workVars, fileVars, ctrlVars, flagVars, watchVars
<1>3. CASE RegisterStore
  BY <1>3 DEF RegisterStore, loopVars, workVars, fileVars, ctrlVars, flagVars, watchVars
<1>27. CASE RegisterReply
  BY <1>27 DEF RegisterReply, loopVars, workVars, fileVars, ctrlVars, flagVars, watchVars
<1>4. CASE StopBegin
  BY <1>4 DEF StopBegin, SendSpecial, loopVars, workVars, fileVars, ctrlVars, flagVars, watchVars
<1>5. CASE StopDrain
  BY <1>5 DEF StopDrain, loopVars, workVars, fileVars, ctrlVars, flagVars, watchVars
<1>6. CASE StopTake
  BY <1>6 DEF StopTake, loopVars, workVars, fileVars, ctrlVars, flagVars, watchVars
<1>7. CASE StopScript
  BY <1>7 DEF StopScript, loopVars, workVars, fileVars, ctrlVars, flagVars, watchVars
<1>8. CASE StopAssist
  BY <1>8 DEF StopAssist, loopVars, workVars, fileVars, ctrlVars, flagVars, watchVars
<1>9. CASE StopRewrite
  BY <1>9 DEF StopRewrite, loopVars, workVars, fileVars, ctrlVars, flagVars, watchVars
<1>10. CASE StopMark
  BY <1>10 DEF StopMark, loopVars, workVars, fileVars, ctrlVars, flagVars, watchVars
<1>11. CASE Clean
  BY <1>11 DEF Clean, SendSpecial, loopVars, workVars, fileVars, ctrlVars, flagVars, watchVars
<1>12. CASE NextUpdate
  BY <1>12 DEF NextUpdate, loopVars, workVars, fileVars, ctrlVars, flagVars, watchVars
<1>13. CASE WorkerCheck
  BY <1>13 DEF WorkerCheck, loopVars, workVars, fileVars, ctrlVars, flagVars, watchVars
<1>14. CASE WorkerGet
  BY <1>14 DEF WorkerGet, loopVars, workVars, fileVars, ctrlVars, flagVars, watchVars
<1>15. CASE WorkerScript
  BY <1>15 DEF WorkerScript, loopVars, workVars, fileVars, ctrlVars, flagVars, watchVars
<1>16. CASE WorkerAssist
  BY <1>16 DEF WorkerAssist, loopVars, workVars, fileVars, ctrlVars, flagVars, watchVars
<1>17. CASE WorkerCurrent
  BY <1>17 DEF WorkerCurrent, loopVars, workVars, fileVars, ctrlVars, flagVars, watchVars
<1>28. CASE WorkerLock
  BY <1>28 DEF WorkerLock, loopVars, workVars, fileVars, ctrlVars, flagVars, watchVars
<1>29. CASE CleanUpTest
  BY <1>29 DEF CleanUpTest, loopVars, workVars, fileVars, ctrlVars, flagVars, watchVars
<1>30. CASE CleanUpUnlink
  BY <1>30 DEF CleanUpUnlink, loopVars, workVars, fileVars, ctrlVars, flagVars, watchVars
<1>18. CASE WorkerFinish
  BY <1>18 DEF WorkerFinish, loopVars, workVars, fileVars, ctrlVars, flagVars, watchVars
<1>31. CASE WatchNobody
  BY <1>31 DEF WatchNobody, loopVars, workVars, fileVars, ctrlVars, flagVars, watchVars
<1>32. CASE WatchList
  BY <1>32 DEF WatchList, loopVars, workVars, fileVars, ctrlVars, flagVars, watchVars
<1>19. CASE Watch
  BY <1>19 DEF Watch, Mark, loopVars, workVars, fileVars, ctrlVars, flagVars, watchVars
<1>20. CASE CtrlRead
  BY <1>20 DEF CtrlRead, loopVars, workVars, fileVars, ctrlVars, flagVars, watchVars
<1>21. CASE CtrlLoad
  BY <1>21 DEF CtrlLoad, Rename, loopVars, workVars, fileVars, ctrlVars, flagVars, watchVars
<1>22. CASE CtrlLoaded
  BY <1>22 DEF CtrlLoaded, Rename, loopVars, workVars, fileVars, ctrlVars, flagVars, watchVars
<1>23. CASE CtrlRunning
  BY <1>23 DEF CtrlRunning, Rename, loopVars, workVars, fileVars, ctrlVars, flagVars, watchVars
<1>24. CASE CtrlAborted
  BY <1>24 DEF CtrlAborted, Rename, loopVars, workVars, fileVars, ctrlVars, flagVars, watchVars
<1>25. CASE CtrlCompleted
  BY <1>25 DEF CtrlCompleted, Rename, loopVars, workVars, fileVars, ctrlVars, flagVars, watchVars
<1>26. CASE UNCHANGED vars
  BY <1>26 DEF vars, loopVars, workVars, fileVars, ctrlVars, flagVars, watchVars
<1> QED
  BY <1>1, <1>2, <1>3, <1>4, <1>5, <1>6, <1>7, <1>8, <1>9, <1>10, <1>11, <1>12, <1>13, <1>14,
     <1>15, <1>16, <1>17, <1>18, <1>19, <1>20, <1>21, <1>22, <1>23, <1>24, <1>25, <1>26, <1>27,
     <1>28, <1>29, <1>30, <1>31, <1>32 DEF Next, Loop, Worker, Observer, Ctrl

\* Only a request brings an execution into the chamber.
LEMMA NothingNew ==
    ASSUME LineInv, LineInv', [Next]_vars, NEW u \in Cmds, ~Held(u), ~RegisterBegin(u)
    PROVE  ~Held(u)'
<1> USE CmdsAssumption DEF Held, InQueue
<1>0. started \in [Cmds -> Nat] /\ queue \in Seq(Cmds) /\ csrc \in Cmds \cup {Blank}
  BY DEF LineInv, TypeOK
<1>1. ASSUME NEW v \in Cmds, v # u, RegisterBegin(v) PROVE ~Held(u)'
  BY <1>1 DEF RegisterBegin, loopVars, workVars, fileVars, ctrlVars, flagVars, watchVars
<1>2. CASE RegisterPut
  BY <1>0, <1>2 DEF RegisterPut, loopVars, workVars, fileVars, ctrlVars, flagVars, watchVars
<1>3. CASE RegisterStore
  BY <1>0, <1>3 DEF RegisterStore, loopVars, workVars, fileVars, ctrlVars, flagVars, watchVars
<1>27. CASE RegisterReply
  BY <1>0, <1>27 DEF RegisterReply, loopVars, workVars, fileVars, ctrlVars, flagVars, watchVars
<1>4. CASE StopBegin
  BY <1>0, <1>4 DEF StopBegin, SendSpecial, loopVars, workVars, fileVars, ctrlVars, flagVars, watchVars
<1>5. CASE StopDrain
  BY <1>0, <1>5 DEF StopDrain, loopVars, workVars, fileVars, ctrlVars, flagVars, watchVars
<1>6. CASE StopTake
  BY <1>0, <1>6 DEF StopTake, loopVars, workVars, fileVars, ctrlVars, flagVars, watchVars
<1>7. CASE StopScript
  BY <1>0, <1>7 DEF StopScript, loopVars, workVars, fileVars, ctrlVars, flagVars, watchVars
<1>8. CASE StopAssist
  BY <1>0, <1>8 DEF StopAssist, loopVars, workVars, fileVars, ctrlVars, flagVars, watchVars
<1>9. CASE StopRewrite
  BY <1>0, <1>9 DEF StopRewrite, loopVars, workVars, fileVars, ctrlVars, flagVars, watchVars
<1>10. CASE StopMark
  BY <1>0, <1>10 DEF StopMark, loopVars, workVars, fileVars, ctrlVars, flagVars, watchVars
<1>11. CASE Clean
  BY <1>0, <1>11 DEF Clean, SendSpecial, loopVars, workVars, fileVars, ctrlVars, flagVars, watchVars
<1>12. CASE NextUpdate
  BY <1>0, <1>12 DEF NextUpdate, loopVars, workVars, fileVars, ctrlVars, flagVars, watchVars
<1>13. CASE WorkerCheck
  BY <1>0, <1>13 DEF WorkerCheck, loopVars, workVars, fileVars, ctrlVars, flagVars, watchVars
<1>14. CASE WorkerGet
  BY <1>0, <1>14 DEF WorkerGet, loopVars, workVars, fileVars, ctrlVars, flagVars, watchVars
<1>15. CASE WorkerScript
  BY <1>0, <1>15 DEF WorkerScript, loopVars, workVars, fileVars, ctrlVars, flagVars, watchVars
<1>16. CASE WorkerAssist
  BY <1>0, <1>16 DEF WorkerAssist, loopVars, workVars, fileVars, ctrlVars, flagVars, watchVars
<1>17. CASE WorkerCurrent
  BY <1>0, <1>17 DEF WorkerCurrent, loopVars, workVars, fileVars, ctrlVars, flagVars, watchVars
<1>28. CASE WorkerLock
  BY <1>0, <1>28 DEF WorkerLock, loopVars, workVars, fileVars, ctrlVars, flagVars, watchVars
<1>29. CASE CleanUpTest
  BY <1>0, <1>29 DEF CleanUpTest, loopVars, workVars, fileVars, ctrlVars, flagVars, watchVars
<1>30. CASE CleanUpUnlink
  BY <1>0, <1>30 DEF CleanUpUnlink, loopVars, workVars, fileVars, ctrlVars, flagVars, watchVars
<1>18. CASE WorkerFinish
  BY <1>0, <1>18 DEF WorkerFinish, loopVars, workVars, fileVars, ctrlVars, flagVars, watchVars
<1>31. CASE WatchNobody
  BY <1>0, <1>31 DEF WatchNobody, loopVars, workVars, fileVars, ctrlVars, flagVars, watchVars
<1>32. CASE WatchList
  BY <1>0, <1>32 DEF WatchList, loopVars, workVars, fileVars, ctrlVars, flagVars, watchVars
<1>19. CASE Watch
  BY <1>0, <1>19 DEF Watch, Mark, loopVars, workVars, fileVars, ctrlVars, flagVars, watchVars
<1>20. CASE CtrlRead
  BY <1>0, <1>20 DEF CtrlRead, loopVars, workVars, fileVars, ctrlVars, flagVars, watchVars
<1>21. CASE CtrlLoad
  BY <1>0, <1>21 DEF CtrlLoad, Rename, loopVars, workVars, fileVars, ctrlVars, flagVars, watchVars
<1>22. CASE CtrlLoaded
  BY <1>0, <1>22 DEF CtrlLoaded, Rename, loopVars, workVars, fileVars, ctrlVars, flagVars, watchVars
<1>23. CASE CtrlRunning
  BY <1>0, <1>23 DEF CtrlRunning, Rename, loopVars, workVars, fileVars, ctrlVars, flagVars, watchVars
<1>24. CASE CtrlAborted
  BY <1>0, <1>24 DEF CtrlAborted, Rename, loopVars, workVars, fileVars, ctrlVars, flagVars, watchVars
<1>25. CASE CtrlCompleted
  BY <1>0, <1>25 DEF CtrlCompleted, Rename, loopVars, workVars, fileVars, ctrlVars, flagVars, watchVars
<1>26. CASE UNCHANGED vars
  BY <1>26 DEF vars, loopVars, workVars, fileVars, ctrlVars, flagVars, watchVars
<1> QED
  BY <1>1, <1>2, <1>3, <1>4, <1>5, <1>6, <1>7, <1>8, <1>9, <1>10, <1>11, <1>12, <1>13, <1>14,
     <1>15, <1>16, <1>17, <1>18, <1>19, <1>20, <1>21, <1>22, <1>23, <1>24, <1>25, <1>26, <1>27,
     <1>28, <1>29, <1>30, <1>31, <1>32 DEF Next, Loop, Worker, Observer, Ctrl

\* What is added at the end of a queue.
LEMMA Appended ==
    ASSUME NEW S, NEW q \in Seq(S), NEW x \in S
    PROVE  /\ Append(q, x) \in Seq(S)
           /\ \A i \in 1..Len(Append(q, x)) : Append(q, x)[i] = x \/ \E j \in 1..Len(q) : Append(q, x)[i] = q[j]
OBVIOUS

\* A put update is added at the end, if there was room for it.
LEMMA PutOneUpdate ==
    ASSUME NEW S, NEW q \in Seq(S), NEW x \in S, NEW r, r = PutUpdate(q, x)
    PROVE  \A i \in 1..Len(r) : r[i] = x \/ \E j \in 1..Len(q) : r[i] = q[j]
BY Appended DEF PutUpdate

\* What the observer reports of an execution is what its flags say.
LEMMA UpdatesStayTrue ==
    ASSUME LineInv, [Next]_vars, UpdatesTrue
    PROVE  UpdatesTrue'
<1> USE DEF UpdatesTrue
<1> DEFINE Then(u, k) == /\ u \in finished' /\ (k = "aborted" => u \in aborted')
                        /\ (k = "stopped" => u \in stopped')
<1>0. ASSUME \A i \in 1..Len(updates') : (updates'[i]).kind \in Kinds =>
                                           Then((updates'[i]).cmd, (updates'[i]).kind)
      PROVE  UpdatesTrue'
  BY <1>0 DEF Told
<1>1. /\ finished \subseteq finished' /\ aborted \subseteq aborted' /\ stopped \subseteq stopped'
      /\ updates \in Seq(Update)
  BY FlagsGrow DEF LineInv, TypeOK
<1>2. \A u, k : Told(u, k) => Then(u, k)
  BY <1>1 DEF Told
<1>3. CASE updates' = updates
  BY <1>0, <1>2, <1>3
<1>4. CASE updates' = <<>>
  BY <1>0, <1>4
<1>5. CASE updates # <<>> /\ updates' = Tail(updates)
  <2>1. \A i \in 1..Len(updates') : i + 1 \in 1..Len(updates) /\ updates'[i] = updates[i + 1]
    BY <1>1, <1>5
  <2> QED BY <1>0, <1>2, <2>1
<1>6. ASSUME NEW x \in Update, x.kind \in Kinds => Then(x.cmd, x.kind),
             updates' = PutUpdate(updates, x)
      PROVE  UpdatesTrue'
  <2>1. \A i \in 1..Len(updates') : updates'[i] = x \/ \E j \in 1..Len(updates) : updates'[i] = updates[j]
    <3>1. PICK q, r : q = updates /\ r = updates'
      BY Zenon
    <3>2. q \in Seq(Update) /\ r = PutUpdate(q, x)
      BY <1>1, <1>6, <3>1
    <3>3. \A i \in 1..Len(r) : r[i] = x \/ \E j \in 1..Len(q) : r[i] = q[j]
      BY ONLY <1>6, <3>2, PutOneUpdate
    <3> QED BY <3>1, <3>3
  <2>2. ASSUME NEW i \in 1..Len(updates'), (updates'[i]).kind \in Kinds
        PROVE  Then((updates'[i]).cmd, (updates'[i]).kind)
    <3>1. CASE updates'[i] = x
      BY <1>6, <2>2, <3>1
    <3>2. CASE \E j \in 1..Len(updates) : updates'[i] = updates[j]
      BY <1>2, <2>2, <3>2
    <3> QED BY <2>1, <2>2, <3>1, <3>2
  <2> QED BY <1>0, <2>2
<1>7. CASE Watch
  <2> DEFINE k == Outcome(current, finished', aborted')
             e == [cmd |-> current, kind |-> k]
  <2>1. current \in Cmds /\ stopped' = stopped /\ updates' = PutUpdate(updates, e)
    BY <1>7 DEF LineInv, TypeOK, Watch, Mark
  <2>2. e \in Update /\ e.cmd = current /\ e.kind = k
    BY <2>1 DEF Update, Outcome
  <2>3. k \in Kinds => /\ current \in finished' /\ (k = "aborted" => current \in aborted')
                      /\ (k = "stopped" => current \in stopped)
    BY DEF Outcome, Kinds
  <2> HIDE DEF k, e
  <2>4. e.kind \in Kinds => Then(e.cmd, e.kind)
    BY <2>1, <2>2, <2>3
  <2> HIDE DEF Then
  <2> QED BY <1>6, <2>1, <2>2, <2>4
<1>8. CASE WatchList
  <2>1. All \in Update /\ All.kind \notin Kinds
    BY DEF All, Update, Kinds
  <2>2. updates' = updates \/ updates' = PutUpdate(updates, All)
    BY <1>8 DEF WatchList
  <2> HIDE DEF Then
  <2> QED BY <1>3, <1>6, <2>1, <2>2
<1>9. \/ updates' = updates \/ StopDrain \/ NextUpdate \/ Watch \/ WatchList
  BY DEF Next, Loop, Worker, Observer, Ctrl, vars, RegisterBegin,
     RegisterPut, RegisterStore, RegisterReply, StopBegin, StopTake, StopScript,
     StopAssist, StopRewrite, StopMark, Clean, WorkerCheck, WorkerGet,
     WorkerScript, WorkerAssist, WorkerCurrent, WorkerLock, CleanUpTest,
     CleanUpUnlink, WorkerFinish, WatchNobody, CtrlRead,
     CtrlLoad, CtrlLoaded, CtrlRunning, CtrlAborted, CtrlCompleted
<1>10. StopDrain => updates' = updates \/ updates' = <<>>
  BY DEF StopDrain
<1>11. NextUpdate => updates # <<>> /\ updates' = Tail(updates)
  BY DEF NextUpdate
<1> QED BY <1>3, <1>4, <1>5, <1>7, <1>8, <1>9, <1>10, <1>11

\* The first message and the rest.
LEMMA HeadOfWire ==
    ASSUME Wired, wire # <<>>
    PROVE  /\ Head(wire) \in [cmd: Cmds, kind: Kinds] /\ Tail(wire) \in Seq([cmd: Cmds, kind: Kinds])
           /\ Head(wire) = wire[1] /\ 1 \in 1..Len(wire)
           /\ \A i \in 1..Len(Tail(wire)) : i + 1 \in 1..Len(wire) /\ Tail(wire)[i] = wire[i + 1]
<1>1. \A S : wire \in Seq(S) => /\ Head(wire) \in S /\ Tail(wire) \in Seq(S)
                              /\ Head(wire) = wire[1] /\ 1 \in 1..Len(wire)
                              /\ \A i \in 1..Len(Tail(wire)) : /\ i + 1 \in 1..Len(wire)
                                                             /\ Tail(wire)[i] = wire[i + 1]
  OBVIOUS
<1> QED BY <1>1 DEF Wired

\* A finished update that is published is one of an execution.
LEMMA Published ==
    ASSUME LineInv, Publish
    PROVE  /\ updates # <<>> /\ acks' = acks /\ req' = req /\ run' = run /\ fut' = fut /\ lost' = lost
           /\ \/ wire' = wire
              \/ /\ Head(updates) = updates[1] /\ updates[1] \in [cmd: Cmds, kind: Kinds]
                 /\ wire' = Append(wire, updates[1]) /\ 1 \in 1..Len(updates)
<1>1. updates # <<>> /\ updates \in Seq(Update)
  BY DEF Publish, NextUpdate, LineInv, TypeOK
<1>2. Head(updates) = updates[1] /\ updates[1] \in Update /\ 1 \in 1..Len(updates)
  BY <1>1
<1>3. updates[1].kind \notin {"all", "progress"} => updates[1] \in [cmd: Cmds, kind: Kinds]
  BY <1>2 DEF Update, Kinds
<1> QED BY <1>1, <1>2, <1>3 DEF Publish

-----------------------------------------------------------------------------
(* The invariant.                                                          *)

\* The variables of the runner and the broker stay well typed.
LEMMA WiredStays ==
    ASSUME PipeInv, [PipeNext]_pipeVars
    PROVE  Wired'
<1> USE DEF PipeInv, Wired
<1>1. ASSUME NEW u \in Cmds, Submit(u) PROVE Wired'
  BY <1>1 DEF Submit
<1>2. ASSUME NEW u \in Cmds, AckTimeout(u) PROVE Wired'
  BY <1>2 DEF AckTimeout
<1>3. ASSUME NEW a \in acks, ReceiveAck(a) PROVE Wired'
  <2>1. a.cmd \in Cmds /\ a.kind \in Reports \cup {"progress"}
    BY DEF Ack, Reports
  <2> QED BY <1>3, <2>1 DEF ReceiveAck
<1>4. ASSUME NEW u \in Cmds, WaitTimeout(u) PROVE Wired'
  BY <1>4 DEF WaitTimeout
<1>5. ASSUME NEW u \in Cmds, Finish(u) PROVE Wired'
  <2>1. fut[u] \in Kinds
    BY <1>5 DEF Finish
  <2> QED BY <1>5, <2>1 DEF Finish, Reports
<1>6. CASE Deliver
  <2>1. Head(wire) \in [cmd: Cmds, kind: Kinds] /\ Tail(wire) \in Seq([cmd: Cmds, kind: Kinds])
    BY <1>6, HeadOfWire DEF Deliver
  <2>2. Head(wire).cmd \in Cmds /\ Head(wire).kind \in Kinds
    BY <2>1
  <2> QED BY <1>6, <2>1, <2>2 DEF Deliver
<1>7. CASE Lose
  <2>1. Head(wire) \in [cmd: Cmds, kind: Kinds] /\ Tail(wire) \in Seq([cmd: Cmds, kind: Kinds])
    BY <1>7, HeadOfWire DEF Lose
  <2>2. Head(wire).cmd \in Cmds
    BY <2>1
  <2> QED BY <1>7, <2>1, <2>2 DEF Lose
<1>8. ASSUME NEW u \in Cmds, Serve(u) PROVE Wired'
  BY <1>8 DEF Serve
<1>9. CASE Reply
  <2>1. lcmd \in Cmds
    BY <1>9 DEF Reply, RegisterReply, LineInv, TypeOK
  <2>2. [cmd |-> lcmd, kind |-> Found(lcmd)] \in Ack
    BY <2>1 DEF Ack, Found, Outcome, Kinds
  <2> QED BY <1>9, <2>2 DEF Reply
<1>10. CASE Publish
  <2>1. wire' \in Seq([cmd: Cmds, kind: Kinds])
    <3> DEFINE S == [cmd: Cmds, kind: Kinds]
    <3>1. wire \in Seq(S) /\ (wire' = wire \/ (updates[1] \in S /\ wire' = Append(wire, updates[1])))
      BY <1>10, Published
    <3> HIDE DEF S
    <3>2. wire' \in Seq(S)
      BY <3>1
    <3> QED BY <3>2 DEF S
  <2> QED BY <1>10, <2>1, Published
<1>11. CASE ChamberStep
  BY <1>11 DEF ChamberStep, clientVars
<1>12. CASE UNCHANGED pipeVars
  BY <1>12 DEF pipeVars, clientVars
<1>13. CASE Observe
  BY <1>13 DEF Observe, Watch, LineInv, TypeOK
<1> QED
  BY <1>1, <1>2, <1>3, <1>4, <1>5, <1>6, <1>7, <1>8, <1>9, <1>10, <1>11, <1>12, <1>13 DEF PipeNext, Client, Server

\* What each step does to requests, replies and calls.
LEMMA AskedStays ==
    ASSUME PipeInv, LineInv', [PipeNext]_pipeVars
    PROVE  Asked'
<1> USE DEF Wired
<1>1. [Next]_vars /\ LineInv /\ Wired /\ Asked
  BY ChamberSteps DEF PipeInv
<1>2. \A u \in Cmds : ~RegisterBegin(u) /\ Held(u)' => Held(u)
  BY <1>1, NothingNew
<1>3. lpc' \in {"put", "store", "reply"} => \/ lpc \in {"put", "store", "reply"} /\ lcmd' = lcmd
                                 \/ \E u \in Cmds : RegisterBegin(u)
  BY <1>1 DEF Next, Loop, Worker, Observer, Ctrl, vars, loopVars, SendSpecial,
     RegisterPut, RegisterStore, RegisterReply, StopBegin, StopDrain, StopTake, StopScript,
     StopAssist, StopRewrite, StopMark, Clean, NextUpdate, WorkerCheck, WorkerGet,
     WorkerScript, WorkerAssist, WorkerCurrent, WorkerLock, CleanUpTest, CleanUpUnlink,
     WorkerFinish, WatchNobody, Watch, WatchList, CtrlRead,
     CtrlLoad, CtrlLoaded, CtrlRunning, CtrlAborted, CtrlCompleted
<1>4. \A u, v \in Cmds : RegisterBegin(u) /\ RegisterBegin(v) => u = v
  BY DEF RegisterBegin
<1>5. lpc \in {"put", "store", "reply"} => Held(lcmd) /\ lcmd \in Cmds
  BY <1>1 DEF Held, LineInv, TypeOK
<1>6. ASSUME NEW u \in Cmds, Submit(u) PROVE Asked'
  <2>1. /\ run[u] = "new" /\ run' = [run EXCEPT ![u] = "calling"] /\ req' = req \cup {u} /\ acks' = acks
        /\ UNCHANGED vars
    BY <1>6 DEF Submit
  <2>2. \A v \in Cmds : ~Held(v) => ~Held(v)'
    BY <2>1 DEF vars, loopVars, workVars, fileVars, ctrlVars, Held, InQueue
  <2>3. lpc' = lpc /\ lcmd' = lcmd
    BY <2>1 DEF vars, loopVars
  <2>4. ~Acked(u) /\ ~Held(u)
    BY <1>1, <2>1 DEF Asked
  <2>5. \A v \in Cmds : v # u => run'[v] = run[v]
    BY <1>1, <2>1
  <2>6. run'[u] = "calling"
    BY <1>1, <2>1
  <2> QED BY <1>1, <1>5, <2>1, <2>2, <2>3, <2>4, <2>5, <2>6 DEF Asked, Acked
<1>7. ASSUME NEW u \in Cmds, Serve(u) PROVE Asked'
  <2>1. u \in req /\ RegisterBegin(u) /\ req' = req \ {u} /\ acks' = acks /\ run' = run
    BY <1>7 DEF Serve
  <2>2. lcmd' = u
    BY <2>1 DEF RegisterBegin
  <2>3. \A v \in Cmds : v # u /\ Held(v)' => Held(v)
    BY <1>2, <1>4, <2>1
  <2> QED BY <1>1, <2>1, <2>2, <2>3 DEF Asked, Acked
<1>8. ASSUME ~(lpc = "idle" /\ lpc' = "put"), req' = req,
             \A u \in Cmds : run[u] # "new" => run'[u] # "new",
             \A u \in req : run'[u] \in {"calling", "failed"} /\ ~Acked(u)',
             \A a \in acks' : a \in acks \/ Held(a.cmd)
      PROVE  Asked'
  <2>1. \A u \in Cmds : ~RegisterBegin(u)
    BY <1>8 DEF RegisterBegin
  <2>2. \A u \in Cmds : Held(u)' \/ u \in req' \/ Acked(u)' => Held(u) \/ u \in req \/ Acked(u)
    BY <1>2, <1>8, <2>1 DEF Acked
  <2>3. lpc' \in {"put", "store", "reply"} => lcmd' \notin req'
    BY <1>1, <1>3, <1>8, <2>1 DEF Asked
  <2> QED BY <1>1, <1>8, <2>2, <2>3 DEF Asked
<1>9. ASSUME UNCHANGED vars PROVE ~(lpc = "idle" /\ lpc' = "put")
  BY <1>9 DEF vars, loopVars
<1>10. \A u \in req : run[u] \in {"calling", "failed"} /\ ~Acked(u)
  BY <1>1 DEF Asked
<1>11. ASSUME NEW u \in Cmds, AckTimeout(u) \/ WaitTimeout(u) \/ Finish(u) PROVE Asked'
  <2>1. req' = req /\ acks' = acks /\ UNCHANGED vars /\ \A v \in Cmds : v # u => run'[v] = run[v]
    BY <1>1, <1>11 DEF AckTimeout, WaitTimeout, Finish
  <2>2. run[u] # "new" => run'[u] # "new"
    BY <1>1, <1>11 DEF AckTimeout, WaitTimeout, Finish, Kinds
  <2>3. u \in req => run'[u] \in {"calling", "failed"}
    BY <1>1, <1>10, <1>11 DEF AckTimeout, WaitTimeout, Finish
  <2> QED BY <1>1, <1>8, <1>9, <1>10, <2>1, <2>2, <2>3 DEF Acked
<1>17. ASSUME NEW a \in acks, ReceiveAck(a) PROVE Asked'
  <2>1. /\ req' = req /\ acks' \subseteq acks /\ UNCHANGED vars /\ a.cmd \in Cmds
        /\ \A v \in Cmds : v # a.cmd => run'[v] = run[v]
    BY <1>1, <1>17 DEF ReceiveAck, Ack
  <2>2. run[a.cmd] # "new" => run'[a.cmd] # "new"
    BY <1>1, <1>17, <2>1 DEF ReceiveAck, Ack, Kinds
  <2>3. a.cmd \notin req
    BY <1>1 DEF Asked, Acked
  <2> QED BY <1>1, <1>8, <1>9, <1>10, <2>1, <2>2, <2>3 DEF Acked
<1>12. CASE Deliver \/ Lose
  <2>1. req' = req /\ acks' = acks /\ run' = run /\ UNCHANGED vars
    BY <1>12 DEF Deliver, Lose
  <2> QED BY <1>8, <1>9, <1>10, <2>1 DEF Acked
<1>13. CASE Reply
  <2>1. /\ lpc = "reply" /\ lpc' = "idle" /\ req' = req /\ run' = run
        /\ acks' = acks \cup {[cmd |-> lcmd, kind |-> Found(lcmd)]}
    BY <1>13 DEF Reply, RegisterReply
  <2>2. Held(lcmd) /\ lcmd \notin req
    BY <1>1, <1>5, <2>1 DEF Asked
  <2> QED BY <1>8, <1>10, <2>1, <2>2 DEF Acked
<1>14. CASE Publish
  <2>1. lpc' = lpc /\ req' = req /\ acks' = acks /\ run' = run
    BY <1>14 DEF Publish, NextUpdate, loopVars
  <2> QED BY <1>8, <1>10, <2>1 DEF Acked
<1>15. CASE ChamberStep
  <2>1. req' = req /\ acks' = acks /\ run' = run
    BY <1>15 DEF ChamberStep, clientVars
  <2>2. ~(lpc = "idle" /\ lpc' = "put")
    BY <1>15 DEF ChamberStep, LoopAlone, Worker, Ctrl, loopVars, SendSpecial,
     RegisterPut, RegisterStore, StopBegin, StopDrain, StopTake, StopScript,
     StopAssist, StopRewrite, StopMark, Clean, WorkerCheck, WorkerGet,
     WorkerScript, WorkerAssist, WorkerCurrent, WorkerLock, CleanUpTest, CleanUpUnlink,
     WorkerFinish, WatchNobody, WatchList, CtrlRead,
     CtrlLoad, CtrlLoaded, CtrlRunning, CtrlAborted, CtrlCompleted
  <2> QED BY <1>8, <1>10, <2>1, <2>2 DEF Acked
<1>18. CASE Observe
  <2>1. lpc' = lpc /\ req' = req /\ acks' = acks /\ run' = run
    BY <1>18 DEF Observe, Watch, loopVars
  <2> QED BY <1>8, <1>10, <2>1 DEF Acked
<1>16. CASE UNCHANGED pipeVars
  <2>1. req' = req /\ acks' = acks /\ run' = run /\ UNCHANGED vars
    BY <1>16 DEF pipeVars, clientVars
  <2> QED BY <1>8, <1>9, <1>10, <2>1 DEF Acked
<1> QED
  BY <1>6, <1>7, <1>11, <1>12, <1>13, <1>14, <1>15, <1>16, <1>17, <1>18 DEF PipeNext, Client, Server

\* What was true of an execution stays true.
LEMMA ToldStays ==
    ASSUME [Next]_vars, NEW u, NEW k, Told(u, k)
    PROVE  /\ u \in finished' /\ (k = "aborted" => u \in aborted')
           /\ (k = "stopped" => u \in stopped')
BY FlagsGrow DEF Told

\* What is on the wire stays true: it was taken from what the chamber says.
LEMMA WireStaysTrue ==
    ASSUME PipeInv, [PipeNext]_pipeVars
    PROVE  WireTrue'
<1>1. [Next]_vars /\ LineInv /\ Wired /\ UpdatesTrue /\ WireTrue
  BY ChamberSteps DEF PipeInv
<1> DEFINE Then(x) == /\ x.cmd \in finished' /\ (x.kind = "aborted" => x.cmd \in aborted')
                     /\ (x.kind = "stopped" => x.cmd \in stopped')
<1>2. ASSUME \A i \in 1..Len(wire') : Then(wire'[i])
      PROVE  WireTrue'
  BY <1>2 DEF WireTrue, Told
<1>3. \A i \in 1..Len(wire) : Then(wire[i])
  BY <1>1, ToldStays DEF WireTrue
<1>4. CASE wire' = wire
  BY <1>2, <1>3, <1>4
<1>5. CASE wire # <<>> /\ wire' = Tail(wire)
  BY <1>1, <1>2, <1>3, <1>5, HeadOfWire
<1>6. CASE Publish /\ wire' # wire
  <2>1. /\ wire' = Append(wire, updates[1]) /\ updates[1] \in [cmd: Cmds, kind: Kinds]
        /\ 1 \in 1..Len(updates)
    BY <1>1, <1>6, Published
  <2>2. Told(updates[1].cmd, updates[1].kind)
    BY <1>1, <2>1 DEF UpdatesTrue
  <2>3. Then(updates[1])
    BY <1>1, <2>2, ToldStays
  <2>4. \A i \in 1..Len(wire') : wire'[i] = updates[1] \/ (i \in 1..Len(wire) /\ wire'[i] = wire[i])
    <3>1. \A S, x : wire \in Seq(S) =>
             \A i \in 1..Len(Append(wire, x)) :
                Append(wire, x)[i] = x \/ (i \in 1..Len(wire) /\ Append(wire, x)[i] = wire[i])
      OBVIOUS
    <3> QED BY <1>1, <2>1, <3>1 DEF Wired
  <2> HIDE DEF Then
  <2> QED BY <1>2, <1>3, <2>3, <2>4
<1>7. wire' = wire \/ (wire # <<>> /\ wire' = Tail(wire)) \/ Publish
  BY DEF PipeNext, Client, Server, ChamberStep, Observe, Submit, AckTimeout, ReceiveAck, WaitTimeout, Finish,
         Deliver, Lose, Serve, Reply, pipeVars, clientVars
<1> QED BY <1>4, <1>5, <1>6, <1>7

\* What a reply says of an execution is what its flags say when it is sent; where
\* it found none, the execution has been finished and forgotten.
LEMMA AcksStayTrue ==
    ASSUME PipeInv, [PipeNext]_pipeVars
    PROVE  AcksTrue'
<1>1. [Next]_vars /\ LineInv /\ AcksTrue
  BY ChamberSteps DEF PipeInv
<1>2. acks' \subseteq acks \/ Reply
  BY DEF PipeNext, Client, Server, ChamberStep, Observe, Submit, AckTimeout, ReceiveAck,
         WaitTimeout, Finish, Deliver, Lose, Serve, Publish, pipeVars, clientVars
<1>3. \A a \in acks : a.kind \in Reports => Told(a.cmd, a.kind)'
  BY <1>1, ToldStays DEF AcksTrue, Told
<1>4. ASSUME Reply PROVE AcksTrue'
  <2>1. PICK u, k : u = lcmd /\ k = Found(lcmd)
    OBVIOUS
  <2>2. /\ acks' = acks \cup {[cmd |-> u, kind |-> k]}
        /\ u \in executions \cup finished
    BY <1>1, <1>4, <2>1 DEF Reply, RegisterReply, LineInv
  <2>3. k \in Reports => Told(u, k)
    BY <2>1, <2>2 DEF Found, Outcome, Reports, Kinds, Told
  <2>4. k \in Reports => Told(u, k)'
    BY <1>1, <2>3, ToldStays DEF Told
  <2> QED BY <1>3, <2>2, <2>4 DEF AcksTrue
<1> QED BY <1>2, <1>3, <1>4 DEF AcksTrue

\* A future is resolved by a message about its own execution, and a call
\* returns what its future says.
LEMMA EndsStayTrue ==
    ASSUME PipeInv, [PipeNext]_pipeVars
    PROVE  EndsTrue'
<1>1. [Next]_vars /\ Wired /\ WireTrue /\ AcksTrue /\ EndsTrue
  BY ChamberSteps DEF PipeInv
<1> DEFINE Then(u, k) == /\ u \in finished' /\ (k = "aborted" => u \in aborted')
                        /\ (k = "stopped" => u \in stopped')
<1>2. ASSUME \A u \in Cmds : /\ fut'[u] \in Kinds => Then(u, fut'[u])
                             /\ run'[u] \in Reports => Then(u, run'[u])
      PROVE  EndsTrue'
  BY <1>2 DEF EndsTrue, Told
<1>3. \A u \in Cmds : /\ fut[u] \in Kinds => Then(u, fut[u])
                      /\ run[u] \in Reports => Then(u, run[u])
  BY <1>1, ToldStays DEF EndsTrue
<1> HIDE DEF Then
<1>4. CASE fut' = fut /\ run' = run
  BY <1>2, <1>3, <1>4
<1>5. ASSUME NEW u \in Cmds, NEW x, x \in Reports => Then(u, x), run' = [run EXCEPT ![u] = x], fut' = fut
      PROVE  EndsTrue'
  <2>1. run'[u] = x /\ \A v \in Cmds : v # u => run'[v] = run[v]
    BY <1>1, <1>5 DEF Wired
  <2> QED BY <1>2, <1>3, <1>5, <2>1
<1>6. CASE Deliver
  <2>1. Told(wire[1].cmd, wire[1].kind) /\ Head(wire) = wire[1] /\ wire[1].cmd \in Cmds
    <3>1. wire # <<>>
      BY <1>6 DEF Deliver
    <3>2. 1 \in 1..Len(wire) /\ wire[1] = Head(wire) /\ wire[1] \in [cmd: Cmds, kind: Kinds]
      BY <1>1, <3>1, HeadOfWire
    <3> QED BY <1>1, <3>2 DEF WireTrue
  <2>2. Then(wire[1].cmd, wire[1].kind)
    BY <1>1, <2>1, ToldStays DEF Then
  <2>3. run' = run /\ (fut' = fut \/ fut' = [fut EXCEPT ![wire[1].cmd] = wire[1].kind])
    BY <1>6, <2>1 DEF Deliver
  <2>4. CASE fut' = fut
    BY <1>4, <2>3, <2>4
  <2>5. CASE fut' = [fut EXCEPT ![wire[1].cmd] = wire[1].kind]
    <3>1. fut'[wire[1].cmd] = wire[1].kind /\ \A v \in Cmds : v # wire[1].cmd => fut'[v] = fut[v]
      BY <1>1, <2>1, <2>5 DEF Wired
    <3> QED BY <1>2, <1>3, <2>2, <2>3, <3>1
  <2> QED BY <2>3, <2>4, <2>5
<1>7. ASSUME NEW u \in Cmds, Submit(u) \/ AckTimeout(u) \/ WaitTimeout(u) \/ Finish(u)
      PROVE  EndsTrue'
  <2>1. PICK x : /\ run' = [run EXCEPT ![u] = x] /\ fut' = fut
                 /\ x \in {"calling", "failed"} \/ x = fut[u]
    BY <1>7 DEF Submit, AckTimeout, WaitTimeout, Finish
  <2>2. x \in Reports => x = fut[u] /\ x \in Kinds
    BY <1>1, <2>1 DEF Wired, Reports, Kinds
  <2>3. x \in Reports => Then(u, x)
    BY <1>3, <2>2
  <2> QED BY <1>5, <2>1, <2>3
<1>9. ASSUME NEW a \in acks, ReceiveAck(a) PROVE EndsTrue'
  <2>1. a.cmd \in Cmds /\ "waiting" \notin Reports
    BY <1>1 DEF Wired, Ack, Reports, Kinds
  <2>2. a.kind \in Reports => Then(a.cmd, a.kind)
    BY <1>1, ToldStays DEF AcksTrue, Then
  <2>3. PICK u, k : u = a.cmd /\ k = a.kind
    OBVIOUS
  <2>4. /\ fut' = fut
        /\ \/ run' = run \/ run' = [run EXCEPT ![u] = "waiting"]
           \/ run' = [run EXCEPT ![u] = k]
    BY <1>9, <2>3 DEF ReceiveAck
  <2> QED BY <1>4, <1>5, <2>1, <2>2, <2>3, <2>4
<1>8. CASE ~(\E u \in Cmds : Submit(u) \/ AckTimeout(u) \/ WaitTimeout(u) \/ Finish(u)) /\ ~Deliver
           /\ ~\E a \in acks : ReceiveAck(a)
  <2>1. fut' = fut /\ run' = run
    BY <1>8 DEF PipeNext, Client, Server, ChamberStep, Observe, Lose, Serve, Reply, Publish, pipeVars, clientVars
  <2> QED BY <1>4, <2>1
<1> QED BY <1>6, <1>7, <1>8, <1>9

\* Nothing was submitted or said.
LEMMA PipeInitHolds ==
    PipeInit => PipeInv
<1> SUFFICES ASSUME PipeInit
             PROVE  PipeInv
  OBVIOUS
<1>1. /\ Init /\ req = {} /\ acks = {} /\ wire = <<>> /\ lost = {}
      /\ run = [u \in Cmds |-> "new"] /\ fut = [u \in Cmds |-> "none"]
      /\ updates = <<>> /\ lpc = "idle" /\ lcmd = NoCmd /\ wcmd = NoCmd /\ current = NoCmd
      /\ script = Blank /\ csrc = Blank /\ queue = <<>> /\ started = [u \in Cmds |-> 0]
  BY DEF PipeInit, Init
<1>2. LineInv
  BY <1>1, LineInit
<1>3. Wired
  BY <1>1 DEF Wired
<1>4. Asked
  <2>1. \A u \in Cmds : ~Held(u)
    BY <1>1, CmdsAssumption DEF Held, InQueue
  <2> QED BY <1>1, <2>1 DEF Asked, Acked
<1>5. UpdatesTrue /\ AcksTrue /\ WireTrue /\ EndsTrue
  BY <1>1 DEF UpdatesTrue, AcksTrue, WireTrue, EndsTrue, Kinds, Reports
<1> QED BY <1>2, <1>3, <1>4, <1>5 DEF PipeInv

\* Every step of client, broker and chamber keeps the invariant.
LEMMA PipeNextHolds ==
    PipeInv /\ [PipeNext]_pipeVars => PipeInv'
<1> SUFFICES ASSUME PipeInv, [PipeNext]_pipeVars
             PROVE  PipeInv'
  OBVIOUS
<1>1. [Next]_vars /\ LineInv /\ UpdatesTrue
  BY ChamberSteps DEF PipeInv
<1>2. LineInv'
  BY <1>1, LineStep
<1>3. UpdatesTrue'
  BY <1>1, UpdatesStayTrue
<1> QED BY <1>2, <1>3, WiredStays, AskedStays, AcksStayTrue, WireStaysTrue, EndsStayTrue DEF PipeInv

\* The invariant of the pipeline holds in every reachable state.
THEOREM PipeCorrect ==
    PipeSpec => []PipeInv
BY PipeInitHolds, PipeNextHolds, PTL DEF PipeSpec

\* mi.py and mi_mode.py: type correctness of the pipeline.
THEOREM PipeTypeCorrect ==
    PipeSpec => []PipeTypeOK
<1>1. PipeInv => PipeTypeOK
  BY DEF PipeInv, LineInv, Wired, PipeTypeOK
<1> QED BY <1>1, PipeCorrect, PTL

\* mi.py, execute: whatever runs was submitted, and no call that reports a
\* result still has its request waiting.
THEOREM ResultMeansServedCorrect ==
    PipeSpec => []ResultMeansServed
<1>1. PipeInv => ResultMeansServed
  BY DEF PipeInv, Asked, Held, ResultMeansServed, Kinds, Reports
<1> QED BY <1>1, PipeCorrect, PTL

\* mi.py, _on_update: what a call reports is what became of its own execution,
\* whatever is stopped, cleaned, lost or late.
THEOREM ResultIsOwnCorrect ==
    PipeSpec => []ResultIsOwn
<1>1. PipeInv => ResultIsOwn
  BY DEF PipeInv, Wired, EndsTrue, Told, ResultIsOwn, Kinds, Reports
<1> QED BY <1>1, PipeCorrect, PTL

-----------------------------------------------------------------------------
(* Refinement: submitting begins a call, the controller's end of a script  *)
(* is a run, and a call returns with its future or with its time-out.      *)

\* An update that says completed is of a script that ran to the end, and so is
\* what was taken in and returned.
Said ==
    /\ \A i \in 1..Len(wire) : wire[i].kind = "completed" => wire[i].cmd \in done
    /\ \A a \in acks : a.kind = "completed" => a.cmd \in done
    /\ \A u \in Cmds : fut[u] = "completed" \/ run[u] = "completed" => u \in done

RefInv == PipeInv /\ Quiet /\ (Undisturbed => Said)

\* Special commands are counted, so that as long as there is none there was none.
LEMMA NoneBefore ==
    ASSUME RefInv, [PipeNext]_pipeVars, Undisturbed'
    PROVE  Undisturbed
BY ChamberSteps, SpecialsGrow DEF RefInv, PipeInv

\* Until the first special command, what is published and taken in is so.
LEMMA SaidStays ==
    ASSUME RefInv, [PipeNext]_pipeVars, Undisturbed'
    PROVE  Said'
<1>1. /\ [Next]_vars /\ LineInv /\ Wired /\ Said /\ done \subseteq done'
      /\ \A i \in 1..Len(updates) : updates[i].kind = "completed" => updates[i].cmd \in done
      /\ finished \ aborted \subseteq done
  <2>1. [Next]_vars /\ done \subseteq done'
    BY ChamberSteps, FlagsGrow
  <2>2. Undisturbed
    BY NoneBefore
  <2> QED BY <2>1, <2>2 DEF RefInv, PipeInv, Quiet, QuietInv
<1>2. \A i \in 1..Len(wire') : wire'[i].kind = "completed" => wire'[i].cmd \in done'
  <2>1. CASE wire' = wire
    BY <1>1, <2>1 DEF Said
  <2>2. CASE wire # <<>> /\ wire' = Tail(wire)
    BY <1>1, <2>2, HeadOfWire DEF Said
  <2>3. CASE Publish /\ wire' # wire
    <3>1. wire' = Append(wire, updates[1]) /\ 1 \in 1..Len(updates)
      BY <1>1, <2>3, Published
    <3>2. \A i \in 1..Len(wire') : wire'[i] = updates[1] \/ (i \in 1..Len(wire) /\ wire'[i] = wire[i])
      <4>1. \A S, x : wire \in Seq(S) =>
               \A i \in 1..Len(Append(wire, x)) :
                  Append(wire, x)[i] = x \/ (i \in 1..Len(wire) /\ Append(wire, x)[i] = wire[i])
        OBVIOUS
      <4> QED BY <1>1, <3>1, <4>1 DEF Wired
    <3> QED BY <1>1, <3>1, <3>2 DEF Said
  <2>4. wire' = wire \/ (wire # <<>> /\ wire' = Tail(wire)) \/ Publish
    BY DEF PipeNext, Client, Server, ChamberStep, Observe, Submit, AckTimeout, ReceiveAck, WaitTimeout, Finish,
           Deliver, Lose, Serve, Reply, pipeVars, clientVars
  <2> QED BY <2>1, <2>2, <2>3, <2>4
<1>3. \A u \in Cmds : fut'[u] = "completed" => u \in done'
  <2>1. CASE fut' = fut
    BY <1>1, <2>1 DEF Said
  <2>2. CASE wire # <<>> /\ fut' = [fut EXCEPT ![wire[1].cmd] = wire[1].kind]
    <3>1. 1 \in 1..Len(wire) /\ wire[1] \in [cmd: Cmds, kind: Kinds]
      BY <1>1, <2>2, HeadOfWire
    <3>2. fut'[wire[1].cmd] = wire[1].kind /\ \A v \in Cmds : v # wire[1].cmd => fut'[v] = fut[v]
      BY <1>1, <2>2, <3>1 DEF Wired
    <3> QED BY <1>1, <3>1, <3>2 DEF Said
  <2>3. fut' = fut \/ Deliver
    BY DEF PipeNext, Client, Server, ChamberStep, Observe, Submit, AckTimeout, ReceiveAck, WaitTimeout, Finish,
           Lose, Serve, Reply, Publish, pipeVars, clientVars
  <2>4. Deliver => fut' = fut \/ (wire # <<>> /\ fut' = [fut EXCEPT ![wire[1].cmd] = wire[1].kind])
    BY <1>1, HeadOfWire DEF Deliver
  <2> QED BY <2>1, <2>2, <2>3, <2>4
<1>4. \A u \in Cmds : run'[u] = "completed" => u \in done'
  <2>1. ASSUME NEW u \in Cmds, NEW x, x = "completed" => u \in done, run' = [run EXCEPT ![u] = x]
        PROVE  \A v \in Cmds : run'[v] = "completed" => v \in done'
    <3>1. run'[u] = x /\ \A v \in Cmds : v # u => run'[v] = run[v]
      BY <1>1, <2>1 DEF Wired
    <3> QED BY <1>1, <2>1, <3>1 DEF Said
  <2>2. CASE run' = run
    BY <1>1, <2>2 DEF Said
  <2>3. CASE \E u \in Cmds : \E x \in {"calling", "failed", fut[u]} : run' = [run EXCEPT ![u] = x]
    BY <1>1, <2>1, <2>3 DEF Said
  <2>4. CASE \E a \in acks : ReceiveAck(a)
    <3>1. PICK a \in acks : ReceiveAck(a)
      BY <2>4
    <3>2. a.cmd \in Cmds /\ (a.kind = "completed" => a.cmd \in done)
      BY <1>1 DEF Wired, Ack, Said
    <3>3. PICK u, x : /\ u = a.cmd /\ x \in {"waiting", a.kind}
                      /\ run' = run \/ run' = [run EXCEPT ![u] = x]
      BY <3>1 DEF ReceiveAck
    <3> QED BY <2>1, <2>2, <3>2, <3>3
  <2>5. \/ run' = run \/ \E a \in acks : ReceiveAck(a)
        \/ \E u \in Cmds : \E x \in {"calling", "failed", fut[u]} : run' = [run EXCEPT ![u] = x]
    BY DEF PipeNext, Client, Server, ChamberStep, Observe, Submit, AckTimeout, WaitTimeout, Finish,
           Deliver, Lose, Serve, Reply, Publish, pipeVars, clientVars
  <2> QED BY <2>2, <2>3, <2>4, <2>5
<1>5. \A a \in acks' : a.kind = "completed" => a.cmd \in done'
  <2>1. CASE acks' \subseteq acks
    BY <1>1, <2>1 DEF Said
  <2>2. CASE Reply
    <3>1. PICK u, k : u = lcmd /\ k = Found(lcmd)
      OBVIOUS
    <3>2. acks' = acks \cup {[cmd |-> u, kind |-> k]}
      BY <2>2, <3>1 DEF Reply
    <3>3. k = "completed" => u \in done
      BY <1>1, <3>1 DEF Found, Outcome
    <3> QED BY <1>1, <3>2, <3>3 DEF Said
  <2>3. acks' \subseteq acks \/ Reply
    BY DEF PipeNext, Client, Server, ChamberStep, Observe, Submit, AckTimeout, ReceiveAck,
           WaitTimeout, Finish, Deliver, Lose, Serve, Publish, pipeVars, clientVars
  <2> QED BY <2>1, <2>2, <2>3
<1> QED BY <1>2, <1>3, <1>4, <1>5 DEF Said

\* On a warm folder the pipeline starts quiet.
LEMMA RefInitHolds ==
    ASSUME ~ColdStart
    PROVE  PipeInit => RefInv
<1>1. PipeInit => /\ Init /\ wire = <<>> /\ acks = {} /\ fut = [u \in Cmds |-> "none"]
                  /\ run = [u \in Cmds |-> "new"]
  BY DEF PipeInit
<1>2. Init => Quiet
  BY QuietInit DEF Quiet
<1>3. PipeInit => Said
  BY <1>1 DEF Said
<1> QED BY <1>1, <1>2, <1>3, PipeInitHolds DEF RefInv

\* It stays so, whatever is sent.
LEMMA RefNextHolds == RefInv /\ [PipeNext]_pipeVars => RefInv'
<1> SUFFICES ASSUME RefInv, [PipeNext]_pipeVars
             PROVE  RefInv'
  OBVIOUS
<1>1. PipeInv'
  BY PipeNextHolds DEF RefInv
<1>2. LineInv /\ [Next]_vars
  BY ChamberSteps DEF RefInv, PipeInv
<1>3. Quiet'
  BY <1>2, QuietKept DEF RefInv
<1>4. Undisturbed' => Said'
  BY SaidStays
<1> QED BY <1>1, <1>3, <1>4 DEF RefInv

\* mi.py, execute: on a warm folder and until the first special command, a call
\* that returned "completed" is of a script that the controller, at the far end
\* of two files, a thread, a queue and the broker, ran to its end.
THEOREM CompletedRan ==
    ASSUME ~ColdStart
    PROVE  PipeSpec => [](Undisturbed => \A u \in Cmds : run[u] = "completed" => u \in done)
<1>1. PipeInit => RefInv
  BY RefInitHolds
<1>2. RefInv => (Undisturbed => \A u \in Cmds : run[u] = "completed" => u \in done)
  BY DEF RefInv, Said
<1> QED BY <1>1, <1>2, RefNextHolds, PTL DEF PipeSpec

\* A script ends once, in the hands of the controller.
LEMMA DoneSteps ==
    ASSUME [Next]_vars
    PROVE  done' = done \/ (csrc \in Cmds /\ done' = done \cup {csrc})
<1>1. CtrlCompleted => done' = done \/ (csrc \in Cmds /\ done' = done \cup {csrc})
  BY DEF CtrlCompleted
<1>2. ~CtrlCompleted => done' = done
  BY DEF Next, Loop, Worker, Observer, Ctrl, vars, ctrlVars, RegisterBegin, RegisterPut, RegisterStore,
         RegisterReply, StopBegin, StopDrain, StopTake, StopScript, StopAssist, StopRewrite, StopMark,
         Clean, NextUpdate, WorkerCheck, WorkerGet, WorkerScript, WorkerAssist, WorkerCurrent, WorkerLock,
         CleanUpTest, CleanUpUnlink, WorkerFinish, WatchNobody, Watch, WatchList, CtrlRead, CtrlLoad,
         CtrlLoaded, CtrlRunning, CtrlAborted
<1> QED BY <1>1, <1>2

\* How a call stands with its caller.
Standing == [u \in Cmds |-> IF Pending(u) THEN "pending" ELSE run[u]]

\* Nothing was submitted: the promise starts as it must.
LEMMA InitPromised ==
    PipeInit => Promise!Init
<1> SUFFICES ASSUME PipeInit
             PROVE  Promise!Init
  OBVIOUS
<1>1. run = [u \in Cmds |-> "new"] /\ done = {}
  BY DEF PipeInit, Init
<1>2. Standing = [u \in Cmds |-> "new"]
  BY <1>1 DEF Standing, Pending
<1> QED BY <1>1, <1>2 DEF Promise!Init, Standing

\* Until the first special command, every step is one of the promise's, or none.
LEMMA StepPromised ==
    RefInv /\ [PipeNext]_pipeVars => (Undisturbed' => [Promise!Next]_<<Standing, done>>)
<1> SUFFICES ASSUME RefInv, [PipeNext]_pipeVars, Undisturbed'
             PROVE  Promise!Next \/ (Standing' = Standing /\ done' = done)
  BY Zenon
<1>1. /\ [Next]_vars /\ Wired /\ Asked /\ Said
  BY ChamberSteps, NoneBefore DEF RefInv, PipeInv
<1>2. \A u \in Cmds : Standing[u] = IF run[u] \in {"calling", "waiting"} THEN "pending" ELSE run[u]
  BY DEF Standing, Pending
<1>3. ASSUME NEW u \in Cmds, NEW x, run' = [run EXCEPT ![u] = x], x \notin {"calling", "waiting"}
      PROVE  Standing' = [Standing EXCEPT ![u] = x]
  BY <1>1, <1>3 DEF Standing, Pending, Wired
<1>4. ASSUME NEW u \in Cmds, NEW x, run' = [run EXCEPT ![u] = x], x \in {"calling", "waiting"}
      PROVE  Standing' = [Standing EXCEPT ![u] = "pending"]
  BY <1>1, <1>4 DEF Standing, Pending, Wired
<1>5. ASSUME NEW u \in Cmds, Submit(u) PROVE Promise!Next
  <2>1. run[u] = "new" /\ run' = [run EXCEPT ![u] = "calling"] /\ done' = done
    BY <1>5 DEF Submit, vars, ctrlVars
  <2>2. Standing[u] = "new" /\ Standing' = [Standing EXCEPT ![u] = "pending"]
    BY <1>2, <1>4, <2>1
  <2> QED BY <2>1, <2>2 DEF Promise!Next, Promise!Begin, Standing
<1>6. ASSUME NEW u \in Cmds, AckTimeout(u) \/ WaitTimeout(u) PROVE Promise!Next
  <2>1. run[u] \in {"calling", "waiting"} /\ run' = [run EXCEPT ![u] = "failed"] /\ done' = done
    BY <1>6 DEF AckTimeout, WaitTimeout, vars, ctrlVars
  <2>2. Standing[u] = "pending" /\ Standing' = [Standing EXCEPT ![u] = "failed"]
    BY <1>2, <1>3, <2>1
  <2>3. Promise!Return(u, "failed")
    BY <2>1, <2>2 DEF Promise!Return, Standing
  <2> QED BY <2>3 DEF Promise!Next, Promise!Outcomes
<1>7. ASSUME NEW u \in Cmds, Finish(u) PROVE Promise!Next
  <2>1. run[u] = "waiting" /\ fut[u] \in Kinds /\ run' = [run EXCEPT ![u] = fut[u]] /\ done' = done
    BY <1>1, <1>7 DEF Finish, Wired, vars, ctrlVars
  <2>2. Standing[u] = "pending" /\ Standing' = [Standing EXCEPT ![u] = fut[u]]
    BY <1>2, <1>3, <2>1 DEF Kinds
  <2>3. fut[u] = "completed" => u \in done
    BY <1>1 DEF Said
  <2>4. PICK r \in Kinds : r = fut[u]
    BY <2>1
  <2>5. Promise!Return(u, r)
    BY <2>1, <2>2, <2>3, <2>4 DEF Promise!Return, Standing
  <2> QED BY <2>5 DEF Promise!Next, Promise!Outcomes, Kinds
<1>8. ASSUME NEW a \in acks, ReceiveAck(a)
      PROVE  Promise!Next \/ (Standing' = Standing /\ done' = done)
  <2>1. PICK u, k : u = a.cmd /\ k = a.kind
    OBVIOUS
  <2>2. u \in Cmds /\ k \in Reports \cup {"progress"} /\ (k = "completed" => u \in done)
    BY <1>1, <2>1 DEF Wired, Ack, Reports, Said
  <2>3. /\ done' = done
        /\ run' = run \/ (run[u] = "calling" /\ run' = [run EXCEPT ![u] =
                                                   IF k = "progress" THEN "waiting" ELSE k])
    BY <1>8, <2>1 DEF ReceiveAck, vars, ctrlVars
  <2>4. CASE run' = run
    BY <2>3, <2>4 DEF Standing, Pending
  <2>5. CASE run[u] = "calling" /\ run' = [run EXCEPT ![u] = "waiting"]
    BY <1>1, <2>2, <2>3, <2>5 DEF Standing, Pending, Wired
  <2>6. CASE run[u] = "calling" /\ k \in Reports /\ run' = [run EXCEPT ![u] = k]
    <3>1. Standing[u] = "pending" /\ Standing' = [Standing EXCEPT ![u] = k]
      BY <1>2, <1>3, <2>2, <2>6 DEF Reports, Kinds
    <3>2. Promise!Return(u, k)
      BY <2>2, <2>3, <3>1 DEF Promise!Return, Standing
    <3> QED BY <2>2, <2>6, <3>2 DEF Promise!Next, Promise!Outcomes, Reports, Kinds
  <2> QED BY <2>2, <2>3, <2>4, <2>5, <2>6
<1>9. ASSUME run' = run PROVE Promise!Next \/ (Standing' = Standing /\ done' = done)
  <2>1. Standing' = Standing
    BY <1>9 DEF Standing, Pending
  <2>2. ASSUME csrc \in Cmds, done' = done \cup {csrc}, csrc \notin done PROVE Promise!Next
    <3>1. run[csrc] # "new"
      BY <1>1, <2>2 DEF Asked, Held
    <3>2. Standing[csrc] # "new"
      BY <1>2, <2>2, <3>1
    <3>3. Promise!Run(csrc)
      BY <2>1, <2>2, <3>2 DEF Promise!Run, Standing
    <3> QED BY <2>2, <3>3 DEF Promise!Next
  <2>3. done' = done \/ (csrc \in Cmds /\ done' = done \cup {csrc})
    BY <1>1, DoneSteps
  <2> QED BY <2>1, <2>2, <2>3
<1>10. \/ run' = run \/ \E a \in acks : ReceiveAck(a)
       \/ \E u \in Cmds : Submit(u) \/ AckTimeout(u) \/ WaitTimeout(u) \/ Finish(u)
  BY DEF PipeNext, Client, Server, ChamberStep, Observe, Deliver, Lose, Serve, Reply, Publish, pipeVars, clientVars
<1> QED BY <1>5, <1>6, <1>7, <1>8, <1>9, <1>10

\* On a warm folder, whatever is lost and late, the pipeline keeps the promise of
\* execute() up to the first special command: one return per call, and
\* "completed" only for a script the chamber ran to the end.
THEOREM PromiseUntilSpecial ==
    ASSUME ~ColdStart
    PROVE  PipeSpec =>
              /\ Promise!Init
              /\ [][Undisturbed' =>
                      [Promise!Next]_<<[u \in Cmds |-> IF Pending(u) THEN "pending" ELSE run[u]],
                                      done>>]_pipeVars
<1>1. PipeInit => RefInv
  BY RefInitHolds
<1>2. RefInv /\ [PipeNext]_pipeVars =>
         [Undisturbed' =>
            [Promise!Next]_<<[u \in Cmds |-> IF Pending(u) THEN "pending" ELSE run[u]],
                            done>>]_pipeVars
  BY StepPromised DEF Standing
<1> QED BY <1>1, <1>2, RefNextHolds, InitPromised, PTL DEF PipeSpec

\* Where no special command is sent it keeps the promise for good.
THEOREM KeepsPromiseCorrect ==
    ASSUME ~ColdStart, MaxSpecials = 0
    PROVE  PipeSpec => KeepsPromise
<1>1. PipeInit => RefInv
  BY RefInitHolds
<1>2. RefInv /\ [PipeNext]_pipeVars =>
         [Promise!Next]_<<[u \in Cmds |-> IF Pending(u) THEN "pending" ELSE run[u]], done>>
  <2> SUFFICES ASSUME RefInv, [PipeNext]_pipeVars
               PROVE  [Promise!Next]_<<[u \in Cmds |-> IF Pending(u) THEN "pending" ELSE run[u]], done>>
    OBVIOUS
  <2>1. Undisturbed'
    BY PipeNextHolds DEF RefInv, PipeInv, LineInv, TypeOK, Sent, NoStop, Undisturbed
  <2> QED BY <2>1, StepPromised DEF Standing
<1> QED BY <1>1, <1>2, RefNextHolds, InitPromised, PTL DEF PipeSpec, KeepsPromise, Promise!Spec
=============================================================================
