----------------------- MODULE ExperimentDriverProofs -----------------------
(***************************************************************************)
(* What the driver's motion claim, gate and current_task guarantee for any *)
(* number of requests. IInv adds to the properties where each op can be:   *)
(* a release happens only at a place where the op that releases holds the  *)
(* claim, which is what keeps one call from releasing another's.           *)
(***************************************************************************)
EXTENDS ExperimentDriver, TLAPS

\* Where the op of a call may be.
Places ==
    \A c \in Calls :
       /\ At(c, "new")     => op[c] = None /\ pending # c /\ task # c
       /\ At(c, "wait")    => op[c] = "begin_adjust_rheed_gain"
       /\ At(c, "save")    => op[c] = "confirm_center_mask"
       /\ pc[c] \in {"role", "look"} => op[c] = "auto_align_center_mask"
       /\ At(c, "heat")    => op[c] = "to_temperature"
       /\ At(c, "journal") => op[c] \in Task
       /\ At(c, "move")    => op[c] \in Claiming \cup PixelOps
       /\ At(c, "lost")    => op[c] \in Claiming \cup PixelOps \cup {"to_temperature"}

IInv == /\ TypeOK /\ Places /\ ClaimExclusive /\ StashMatchesGate
        /\ MovingTaskShown /\ ViewCurrent

\* How the sets of ops of handlers.py overlap: what claims, what is a task, what
\* opens or resolves a gate.
LEMMA OpSets ==
    /\ Claiming \cap DOMAIN Answers = {"confirm_center_mask", "confirm_mask_center"}
    /\ MovingTask \subseteq Claiming /\ MovingTask \subseteq Task /\ Task \subseteq AllOps
    /\ "to_temperature" \notin Claiming /\ "to_temperature" \in Task
    /\ "begin_adjust_rheed_gain" \notin Claiming
    /\ "auto_align_center_mask" \in Claiming /\ "auto_align_center_mask" \in MovingTask
    /\ Task \ MovingTask = {"to_temperature"}
    /\ "confirm_center_mask" \in Claiming /\ "confirm_center_mask" \notin Task
    /\ Begin \cap Task = {} /\ "set_target" \notin Task
    /\ "begin_check_rheed_pixels" \notin Task /\ "confirm_mask_center" \notin Task
    /\ "resolve_pixel_check" \notin Task /\ DOMAIN Answers \cap Task = {}
    /\ "begin_set_laser_power" \notin Task /\ "set_pressure" # "begin_set_laser_power"
    /\ Begin \subseteq Claiming /\ "set_target" \in Claiming
    /\ "confirm_mask_center" \in Claiming
    /\ PixelOps = {"begin_check_rheed_pixels", "resolve_pixel_check"}
    /\ None \notin AllOps
  BY DEF PixelOps, Claiming, Answers, MovingTask, Task, AllOps, Begin, Kind, None

\* A fresh ExperimentHandler satisfies the invariant.
LEMMA InitHolds == Init => IInv
  BY DriverAssumption DEF Init, IInv, TypeOK, Places, ClaimExclusive, StashMatchesGate,
     MovingTaskShown, ViewCurrent, At, Call, AllOps, Claiming, None

\* Every handler step keeps calls, claim, gate and task well typed.
LEMMA TypeStep == IInv /\ [Next]_vars => TypeOK'
<1> SUFFICES ASSUME TypeOK, [Next]_vars PROVE TypeOK'
  BY DEF IInv
<1> USE DEF TypeOK, Call, At, Goto, Show, shared
<1>1. CASE UNCHANGED vars
  BY <1>1 DEF vars
<1>2. ASSUME NEW c \in Calls, NEW o \in Ops, Send(c, o) PROVE TypeOK'
  BY <1>2, DriverAssumption DEF Send
<1>3. ASSUME NEW c \in Calls, Dispatch(c) PROVE TypeOK'
  BY <1>3 DEF Dispatch, Refuse, StartMove, StartNudge, StartSave, StartGain, AskPressure,
     AnswerAtOnce, Confirm, StartTask, Check, ClaimMotion, SetPending, ClearPending
<1>4. ASSUME NEW c \in Calls, Proceed(c) PROVE TypeOK'
  BY <1>4 DEF Proceed, EndMove, EndBegin, EndNudge, EndSave, Fail, Spawn, AskRole,
     RoleLook, ClearOwn, RoleTagged, EndTask, RoleCancelled, RoleTimeout, FinishTask, ReleaseMotion,
     TaskOver, SetPending, ClearPending
<1>5. ASSUME NEW c \in Calls, LoseCompletion(c) PROVE TypeOK'
  BY <1>5, OpSets DEF LoseCompletion
<1> QED
  BY <1>1, <1>2, <1>3, <1>4, <1>5 DEF Next

\* A handler is only ever at a place of its own op's code.
LEMMA PlacesStep == IInv /\ [Next]_vars => Places'
<1> SUFFICES ASSUME TypeOK, Places, [Next]_vars PROVE Places'
  BY DEF IInv
<1> USE DEF TypeOK, Places, At, Goto, Show, shared
<1>1. CASE UNCHANGED vars
  BY <1>1 DEF vars
<1>2. ASSUME NEW c \in Calls, NEW o \in Ops, Send(c, o) PROVE Places'
  BY <1>2 DEF Send
<1>3. ASSUME NEW c \in Calls, Dispatch(c) PROVE Places'
  BY <1>3, OpSets, DriverAssumption DEF Dispatch, Refuse, StartMove, StartNudge, StartSave, StartGain, AskPressure,
     AnswerAtOnce, Confirm, StartTask, Check, ClaimMotion, SetPending, ClearPending
<1>4. ASSUME NEW c \in Calls, Proceed(c) PROVE Places'
  BY <1>4, OpSets, DriverAssumption DEF Proceed, EndMove, EndBegin, EndNudge, EndSave, Fail, Spawn, AskRole,
     RoleLook, ClearOwn, RoleTagged, EndTask, RoleCancelled, RoleTimeout, FinishTask, TaskOver, SetPending, ClearPending
<1>5. ASSUME NEW c \in Calls, LoseCompletion(c) PROVE Places'
  BY <1>5, OpSets DEF LoseCompletion
<1> QED
  BY <1>1, <1>2, <1>3, <1>4, <1>5 DEF Next

\* Every handler step leaves the motion claim with the call that took it.
LEMMA ClaimStep == IInv /\ [Next]_vars => ClaimExclusive'
<1> SUFFICES ASSUME TypeOK, Places, ClaimExclusive, [Next]_vars PROVE ClaimExclusive'
  BY DEF IInv
<1> USE DEF TypeOK, Places, ClaimExclusive, At, Goto, Show, shared
<1>1. CASE UNCHANGED vars
  BY <1>1 DEF vars
<1>2. ASSUME NEW c \in Calls, NEW o \in Ops, Send(c, o) PROVE ClaimExclusive'
  BY <1>2 DEF Send
<1>3. ASSUME NEW c \in Calls, Dispatch(c) PROVE ClaimExclusive'
  BY <1>3, OpSets, DriverAssumption DEF Dispatch, Refuse, StartMove, StartNudge, StartSave, StartGain, AskPressure,
     AnswerAtOnce, Confirm, StartTask, Check, ClaimMotion, SetPending, ClearPending
<1>4. ASSUME NEW c \in Calls, Proceed(c) PROVE ClaimExclusive'
  BY <1>4, OpSets, DriverAssumption DEF Proceed, EndMove, EndBegin, EndNudge, EndSave, Fail, Spawn, AskRole,
     RoleLook, ClearOwn, RoleTagged, EndTask, RoleCancelled, RoleTimeout, FinishTask, ReleaseMotion, TaskOver, SetPending, ClearPending
<1>5. ASSUME NEW c \in Calls, LoseCompletion(c) PROVE ClaimExclusive'
  BY <1>5, OpSets DEF LoseCompletion
<1> QED
  BY <1>1, <1>2, <1>3, <1>4, <1>5 DEF Next

\* No step changes the stashed power while a gate of another power is open.
LEMMA StashStep == IInv /\ [Next]_vars => StashMatchesGate'
<1> SUFFICES ASSUME TypeOK, Places, StashMatchesGate, [Next]_vars PROVE StashMatchesGate'
  BY DEF IInv
<1> USE DEF TypeOK, Places, StashMatchesGate, At, Goto, Show, shared
<1>1. CASE UNCHANGED vars
  BY <1>1 DEF vars
<1>2. ASSUME NEW c \in Calls, NEW o \in Ops, Send(c, o) PROVE StashMatchesGate'
  BY <1>2, DriverAssumption DEF Send, Call
<1>3. ASSUME NEW c \in Calls, Dispatch(c) PROVE StashMatchesGate'
  BY <1>3, OpSets, DriverAssumption DEF Dispatch, Refuse, StartMove, StartNudge, StartSave, StartGain, AskPressure,
     AnswerAtOnce, Confirm, StartTask, SetPending, ClearPending
<1>4. ASSUME NEW c \in Calls, Proceed(c) PROVE StashMatchesGate'
  BY <1>4, OpSets, DriverAssumption DEF Proceed, EndMove, EndBegin, EndNudge, EndSave, Fail, Spawn, AskRole,
     RoleLook, ClearOwn, RoleTagged, EndTask, RoleCancelled, RoleTimeout, FinishTask, SetPending, ClearPending
<1>5. ASSUME NEW c \in Calls, LoseCompletion(c) PROVE StashMatchesGate'
  BY <1>5, OpSets DEF LoseCompletion
<1> QED
  BY <1>1, <1>2, <1>3, <1>4, <1>5 DEF Next

\* Every step keeps current_task on the task that holds the claim.
LEMMA TaskShownStep == IInv /\ [Next]_vars => MovingTaskShown'
<1> SUFFICES ASSUME TypeOK, Places, ClaimExclusive, MovingTaskShown, [Next]_vars
             PROVE  MovingTaskShown'
  BY DEF IInv
<1> USE DEF TypeOK, Places, ClaimExclusive, MovingTaskShown, At, Goto, Show, shared
<1>1. CASE UNCHANGED vars
  BY <1>1 DEF vars
<1>2. ASSUME NEW c \in Calls, NEW o \in Ops, Send(c, o) PROVE MovingTaskShown'
  BY <1>2, DriverAssumption DEF Send, None
<1>3. ASSUME NEW c \in Calls, Dispatch(c) PROVE MovingTaskShown'
  BY <1>3, OpSets, DriverAssumption DEF Dispatch, Refuse, StartMove, StartNudge, StartSave, StartGain, AskPressure,
     AnswerAtOnce, Confirm, StartTask, ClaimMotion, SetPending, ClearPending
<1>4. ASSUME NEW c \in Calls, Proceed(c) PROVE MovingTaskShown'
  BY <1>4, OpSets, DriverAssumption DEF Proceed, EndMove, EndBegin, EndNudge, EndSave, Fail, Spawn, AskRole,
     RoleLook, ClearOwn, RoleTagged, EndTask, RoleCancelled, RoleTimeout, FinishTask, ReleaseMotion, TaskOver, SetPending, ClearPending
<1>5. ASSUME NEW c \in Calls, LoseCompletion(c) PROVE MovingTaskShown'
  BY <1>5, OpSets DEF LoseCompletion
<1> QED
  BY <1>1, <1>2, <1>3, <1>4, <1>5 DEF Next

\* Every step that changes the gate or the task pushes both.
LEMMA ViewStep == IInv /\ [Next]_vars => ViewCurrent'
<1> SUFFICES ASSUME TypeOK, ViewCurrent, [Next]_vars PROVE ViewCurrent'
  BY DEF IInv
<1> USE DEF TypeOK, ViewCurrent, At, Goto, Show, shared
<1>1. CASE UNCHANGED vars
  BY <1>1 DEF vars
<1>2. ASSUME NEW c \in Calls, NEW o \in Ops, Send(c, o) PROVE ViewCurrent'
  BY <1>2 DEF Send
<1>3. ASSUME NEW c \in Calls, Dispatch(c) PROVE ViewCurrent'
  BY <1>3 DEF Dispatch, Refuse, StartMove, StartNudge, StartSave, StartGain, AskPressure,
     AnswerAtOnce, Confirm, StartTask, SetPending, ClearPending
<1>4. ASSUME NEW c \in Calls, Proceed(c) PROVE ViewCurrent'
  BY <1>4 DEF Proceed, EndMove, EndBegin, EndNudge, EndSave, Fail, Spawn, AskRole,
     RoleLook, ClearOwn, RoleTagged, EndTask, RoleCancelled, RoleTimeout, FinishTask, TaskOver, SetPending, ClearPending
<1>5. ASSUME NEW c \in Calls, LoseCompletion(c) PROVE ViewCurrent'
  BY <1>5, OpSets DEF LoseCompletion
<1> QED
  BY <1>1, <1>2, <1>3, <1>4, <1>5 DEF Next

\* The inductive invariant of the driver holds in every reachable state.
THEOREM DriverCorrect == Spec => []IInv
<1>1. IInv /\ [Next]_vars => IInv'
  BY TypeStep, PlacesStep, ClaimStep, StashStep, TaskShownStep, ViewStep DEF IInv
<1> QED
  BY InitHolds, <1>1, PTL DEF Spec

\* Every request, gate, claim and task is what its type says.
THEOREM DriverTypeCorrect == Spec => []TypeOK
  BY DriverCorrect, PTL DEF IInv

\* No call releases a motion claim another call holds (handlers.py, _moving
\* and _start_moving_task).
THEOREM ClaimCorrect == Spec => []ClaimExclusive
  BY DriverCorrect, PTL DEF IInv

\* A measured laser power is recorded for the power the open gate asked for.
THEOREM StashCorrect == Spec => []StashMatchesGate
  BY DriverCorrect, PTL DEF IInv

\* With no thermal task about, current_task is the task that moves.
THEOREM TaskShownCorrect == Spec => []MovingTaskShown
  BY DriverCorrect, PTL DEF IInv

\* The last pushed event shows the gate and task of now.
THEOREM ViewCorrect == Spec => []ViewCurrent
  BY DriverCorrect, PTL DEF IInv

-----------------------------------------------------------------------------
(* Motors and gates, whatever the requests are for: a claim can be held by *)
(* one call, which keeps motors apart and gates of claiming ops closed     *)
(* while another op holds it.                                              *)

\* handlers.py:380, "one move at a time": two motors run at once only where one
\* of them is the pixel check's, which moves without the claim.
THEOREM TwoMovesUnclaimed ==
    Spec => [](\A c, d \in Calls : Moving(c) /\ Moving(d) =>
                  c = d \/ op[c] \in PixelOps \/ op[d] \in PixelOps)
<1>1. IInv => \A c, d \in Calls : Moving(c) /\ Moving(d) =>
                 c = d \/ op[c] \in PixelOps \/ op[d] \in PixelOps
  BY DEF IInv, Places, ClaimExclusive, Moving, At
<1> QED
  BY <1>1, DriverCorrect, PTL

\* While a calibration is saved, the gate it was given for stays, is cleared, or
\* is replaced by one of an op that claims nothing.
GateKept ==
    \A c \in Calls : At(c, "save") =>
       pending = checked[c] \/ pending = None \/ op[pending] \in Unclaimed

\* The op of a gate on show is known and does not change.
LEMMA OpStays ==
    ASSUME IInv, [Next]_vars, pending # None
    PROVE  op'[pending] = op[pending]
<1> USE DEF IInv, TypeOK, Places, At, Goto, shared
<1>1. CASE UNCHANGED vars
  BY <1>1 DEF vars
<1>2. ASSUME NEW c \in Calls, NEW o \in Ops, Send(c, o) PROVE op'[pending] = op[pending]
  BY <1>2 DEF Send
<1>3. ASSUME NEW c \in Calls, Dispatch(c) \/ Proceed(c) \/ LoseCompletion(c)
      PROVE  op'[pending] = op[pending]
  BY <1>3 DEF LoseCompletion, Dispatch, Refuse, StartMove, StartNudge, StartSave, StartGain, AskPressure,
     AnswerAtOnce, Confirm, StartTask, Proceed, EndMove, EndBegin, EndNudge, EndSave, Fail, Spawn,
     AskRole, RoleLook, ClearOwn, RoleTagged, EndTask, RoleCancelled, RoleTimeout, FinishTask
<1> QED
  BY <1>1, <1>2, <1>3 DEF Next

\* A gate that opens is of an op that holds the claim, or that claims nothing.
LEMMA GateOpens ==
    ASSUME IInv, [Next]_vars, pending' # pending, pending' # None
    PROVE  op'[pending'] \in Unclaimed \/ motion = pending'
<1> USE DEF IInv, TypeOK, Places, At, Goto, shared, Show, SetPending, ClearPending
<1>1. ASSUME NEW c \in Calls, AskPressure(c) PROVE op'[pending'] \in Unclaimed
  BY <1>1 DEF AskPressure, Unclaimed, Kind, Claiming, Begin, MovingTask
<1>2. ASSUME NEW c \in Calls, EndBegin(c) PROVE op'[pending'] \in Unclaimed \/ motion = pending'
  <2>1. pending' = c /\ op' = op
    BY <1>2 DEF EndBegin
  <2>2. CASE At(c, "move") /\ op[c] \in Begin
    BY <2>1, <2>2, OpSets DEF ClaimExclusive
  <2>3. CASE op[c] \in {"begin_check_rheed_pixels", "begin_adjust_rheed_gain"}
    BY <2>1, <2>3 DEF Unclaimed, Kind, Claiming, Begin, MovingTask
  <2> QED
    BY <1>2, <2>2, <2>3 DEF EndBegin
<1>3. ASSUME NEW c \in Calls, AskRole(c) PROVE motion = pending'
  BY <1>3, OpSets DEF AskRole, ClaimExclusive
<1>4. ASSUME NEW c \in Calls,
             \/ Dispatch(c) /\ ~AskPressure(c)
             \/ Proceed(c) /\ ~EndBegin(c) /\ ~AskRole(c)
             \/ LoseCompletion(c)
      PROVE  pending' = pending \/ pending' = None
  BY <1>4 DEF LoseCompletion, Dispatch, Refuse, StartMove, StartNudge, StartSave, StartGain,
     AnswerAtOnce, Confirm, StartTask, Proceed, EndMove, EndNudge, EndSave, Fail, Spawn,
     RoleLook, ClearOwn, RoleTagged, EndTask, RoleCancelled, RoleTimeout, FinishTask
<1>5. \/ pending' = pending
      \/ \E c \in Calls : Dispatch(c) \/ Proceed(c)
  BY DEF Next, vars, Send, LoseCompletion
<1> QED
  BY <1>1, <1>2, <1>3, <1>4, <1>5

\* A call moves on in its own steps only.
LEMMA OwnStep ==
    ASSUME IInv, [Next]_vars, NEW c \in Calls, pc'[c] # pc[c]
    PROVE  (\E o \in Ops : Send(c, o)) \/ Dispatch(c) \/ Proceed(c) \/ LoseCompletion(c)
<1>1. ASSUME NEW d \in Calls,
             Dispatch(d) \/ Proceed(d) \/ LoseCompletion(d) \/ \E o \in Ops : Send(d, o)
      PROVE  d = c
  <2>1. \E x : pc' = [pc EXCEPT ![d] = x]
    BY <1>1 DEF Goto, Send, LoseCompletion, Dispatch, Refuse, StartMove, StartNudge, StartSave, StartGain,
       AskPressure, AnswerAtOnce, Confirm, StartTask, Proceed, EndMove, EndBegin, EndNudge,
       EndSave, Fail, Spawn, AskRole, RoleLook, ClearOwn, RoleTagged, EndTask, RoleCancelled, RoleTimeout, FinishTask,
       TaskOver
  <2> QED
    BY <2>1 DEF IInv, TypeOK
<1> QED
  BY <1>1 DEF Next, vars

\* Every step keeps the gate of a calibration that is being saved.
LEMMA GateKeptStep == IInv /\ GateKept /\ [Next]_vars => GateKept'
<1> SUFFICES ASSUME IInv, GateKept, [Next]_vars, NEW c \in Calls, At(c, "save")'
             PROVE  pending' = checked'[c] \/ pending' = None \/ op'[pending'] \in Unclaimed
  BY DEF GateKept
<1>1. CASE At(c, "save")
  <2>1. checked'[c] = checked[c] /\ motion = c
    <3>1. motion = c
      BY <1>1, OpSets DEF IInv, Places, ClaimExclusive, At
    <3>2. ASSUME NEW d \in Calls, Dispatch(d) \/ Proceed(d) PROVE checked'[c] = checked[c]
      BY <1>1, <3>2 DEF IInv, TypeOK, At, shared, Check, Dispatch, Refuse, StartMove, StartNudge, StartSave,
         StartGain, AskPressure, AnswerAtOnce, Confirm, StartTask, Proceed, EndMove, EndBegin,
         EndNudge, EndSave, Fail, Spawn, AskRole, RoleLook, ClearOwn, RoleTagged, EndTask, RoleCancelled, RoleTimeout,
         FinishTask
    <3>3. (\E d \in Calls : Dispatch(d) \/ Proceed(d)) \/ checked' = checked
      BY DEF Next, vars, Send, LoseCompletion
    <3> QED
      BY <3>1, <3>2, <3>3
  <2>2. CASE pending' = pending
    BY <1>1, <2>1, <2>2, OpStays DEF GateKept
  <2>3. CASE pending' # pending /\ pending' = c
    <3>1. op[c] = "confirm_center_mask" /\ pc[c] = "save"
      BY <1>1 DEF IInv, Places, At
    <3>2. \A d \in Calls : AskPressure(d) \/ EndBegin(d) \/ AskRole(d) => d # c
      BY <3>1 DEF AskPressure, EndBegin, AskRole, At, Begin
    <3>3. \E d \in Calls : (AskPressure(d) \/ EndBegin(d) \/ AskRole(d)) /\ pending' = d
      BY <2>3, DriverAssumption DEF IInv, TypeOK, Next, vars, shared, Send, LoseCompletion, Show, SetPending, ClearPending, Dispatch, Refuse, StartMove,
         StartNudge, StartSave, StartGain, AskPressure, AnswerAtOnce, Confirm, StartTask, Proceed,
         EndMove, EndBegin, EndNudge, EndSave, Fail, Spawn, AskRole, RoleLook, ClearOwn, RoleTagged, EndTask,
         RoleCancelled, RoleTimeout, FinishTask
    <3> QED
      BY <2>3, <3>2, <3>3
  <2>4. CASE pending' # pending /\ pending' # c
    BY <2>1, <2>4, GateOpens
  <2> QED
    BY <2>2, <2>3, <2>4
<1>2. CASE ~At(c, "save")
  <2>1. (\E o \in Ops : Send(c, o)) \/ Dispatch(c) \/ Proceed(c) \/ LoseCompletion(c)
    BY <1>2, OwnStep DEF At
  <2>2. pc'[c] = "save" /\ pc \in [Calls -> {"new", "sent", "move", "save", "wait", "journal", "role",
                                             "look", "heat", "lost", "ending", "done"}]
    BY DEF At, IInv, TypeOK
  <2>3. StartSave(c)
    BY <2>1, <2>2 DEF Goto, Send, LoseCompletion, Dispatch, Refuse, StartMove, StartNudge, StartGain, AskPressure,
       AnswerAtOnce, Confirm, StartTask, Proceed, EndMove, EndBegin, EndNudge, EndSave, Fail, Spawn,
       AskRole, RoleLook, ClearOwn, RoleTagged, EndTask, RoleCancelled, RoleTimeout, FinishTask, TaskOver
  <2> QED
    BY <2>3 DEF StartSave, Check, IInv, TypeOK
<1> QED
  BY <1>1, <1>2

\* An answer clears the gate it checked; only a confirmed calibration may clear
\* another, and then one of an op that claims nothing.
THEOREM AnswerClearsCorrect == Spec => AnswerClears
<1>1. Init => GateKept
  BY DEF Init, GateKept, At
<1>2. ASSUME IInv, GateKept, [Next]_vars, NEW c \in Calls, Resolved(c)
      PROVE  \/ checked'[c] = pending
             \/ op[c] = "confirm_center_mask" /\ op[pending] \in Unclaimed
  <2>1. AnswerAtOnce(c) \/ Confirm(c) \/ EndSave(c)
    <3>1. (\E o \in Ops : Send(c, o)) \/ Dispatch(c) \/ Proceed(c) \/ LoseCompletion(c)
      BY <1>2, OwnStep DEF Resolved
    <3>2. /\ pc'[c] = "done" /\ pending # None /\ pending' = None
          /\ pc \in [Calls -> {"new", "sent", "move", "save", "wait", "journal", "role", "look",
                               "heat", "lost", "ending", "done"}]
      BY <1>2 DEF Resolved, IInv, TypeOK
    <3>3. pending' # pending
      BY <3>2
    <3>4. c # None
      BY DriverAssumption
    <3> QED
      BY <3>1, <3>2, <3>3, <3>4 DEF Goto, shared, Show, SetPending, Send, LoseCompletion, Dispatch, Refuse, StartMove,
         StartNudge, StartSave, StartGain, AskPressure, StartTask, Proceed, EndMove, EndBegin,
         EndNudge, Fail, Spawn, AskRole, RoleLook, ClearOwn, RoleTagged, EndTask, RoleCancelled, RoleTimeout,
         FinishTask, TaskOver
  <2>2. CASE AnswerAtOnce(c) \/ Confirm(c)
    <3>1. checked' = [checked EXCEPT ![c] = pending] /\ checked \in [Calls -> Call]
      BY <1>2, <2>2 DEF AnswerAtOnce, Confirm, Check, IInv, TypeOK
    <3>2. checked'[c] = pending
      BY <3>1
    <3> QED
      BY <3>2
  <2>3. CASE EndSave(c)
    BY <1>2, <2>3 DEF EndSave, GateKept, Resolved, IInv, Places, At
  <2> QED
    BY <2>1, <2>2, <2>3
<1>3. IInv /\ GateKept /\ [Next]_vars =>
         [\A c \in Calls : Resolved(c) =>
             \/ checked'[c] = pending
             \/ op[c] = "confirm_center_mask" /\ op[pending] \in Unclaimed]_vars
  BY <1>2
<1> QED
  BY <1>1, <1>3, GateKeptStep, DriverCorrect, PTL DEF Spec, AnswerClears

OpsOnly == \A c \in Calls : op[c] \in Ops \cup {None}

\* Calls run only the ops that clients send.
LEMMA OpsOnlyCorrect == Spec => []OpsOnly
<1>1. Init => OpsOnly
  BY DEF Init, OpsOnly
<1>2. IInv /\ OpsOnly /\ [Next]_vars => OpsOnly'
  <2> SUFFICES ASSUME TypeOK, OpsOnly, [Next]_vars PROVE OpsOnly'
    BY DEF IInv
  <2> USE DEF OpsOnly, TypeOK
  <2>1. CASE UNCHANGED vars
    BY <2>1 DEF vars
  <2>2. ASSUME NEW c \in Calls, NEW o \in Ops, Send(c, o) PROVE OpsOnly'
    BY <2>2 DEF Send
  <2>3. ASSUME NEW c \in Calls, Dispatch(c) PROVE OpsOnly'
    BY <2>3 DEF Dispatch, Refuse, StartMove, StartNudge, StartSave, StartGain,
       AskPressure, AnswerAtOnce, Confirm, StartTask
  <2>4. ASSUME NEW c \in Calls, Proceed(c) PROVE OpsOnly'
    BY <2>4 DEF Proceed, EndMove, EndBegin, EndNudge, EndSave, Fail, Spawn, AskRole,
       RoleLook, ClearOwn, RoleTagged, EndTask, RoleCancelled, RoleTimeout, FinishTask
  <2>5. ASSUME NEW c \in Calls, LoseCompletion(c) PROVE OpsOnly'
    BY <2>5 DEF LoseCompletion
  <2> QED
    BY <2>1, <2>2, <2>3, <2>4, <2>5 DEF Next
<1> QED
  BY <1>1, <1>2, DriverCorrect, PTL DEF Spec

\* "motion: one move at a time" (handlers.py:380) holds of every op but the
\* two of the pixel check.
THEOREM OneMoveCorrect ==
  ASSUME Ops \cap PixelOps = {}
  PROVE  Spec => []OneMoveAtATime
<1>1. /\ OpsOnly
      /\ \A c, d \in Calls : Moving(c) /\ Moving(d) =>
            c = d \/ op[c] \in PixelOps \/ op[d] \in PixelOps
      => OneMoveAtATime
  BY OpSets DEF OpsOnly, OneMoveAtATime, AllOps, PixelOps, None
<1> QED
  BY <1>1, TwoMovesUnclaimed, OpsOnlyCorrect, PTL
=============================================================================
