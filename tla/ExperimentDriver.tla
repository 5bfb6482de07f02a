-------------------------- MODULE ExperimentDriver --------------------------
(***************************************************************************)
(* ExperimentHandler (experiment/handlers.py): one asyncio loop serving up *)
(* to eight requests at a time, none of them serialised. What keeps them   *)
(* apart is three pieces of handler state: the motion claim, the pending   *)
(* confirmation gate and current_task.                                     *)
(*                                                                         *)
(* A call runs one op. What runs between two awaits of the op is one step. *)
(* Three ops stand for all ops of their shape:                             *)
(*   set_target          every plain move (move_mask_to_position,          *)
(*                       rotate_sample_to, to_pixel, ...)                  *)
(*   perform_deposition  perform_preablation too                           *)
(*   to_temperature      cool_down and anneal too                          *)
(* A gate's id is a fresh uuid per _set_pending; a call opens at most one, *)
(* so the call names the gate it opened.                                   *)
(***************************************************************************)
EXTENDS Naturals, FiniteSets

CONSTANTS
    Calls,   \* the requests of a behaviour
    Ops      \* the ops they may be for

None == "none"

Kind ==  \* the gate each op opens
    [begin_set_laser_power    |-> "laser_power",
     begin_align_center_mask  |-> "mask_center_alignment",
     begin_check_mask_center  |-> "mask_center_check",
     begin_adjust_rheed_gain  |-> "rheed_gain",
     begin_check_rheed_pixels |-> "pixel_check",
     set_pressure             |-> "pressure",
     auto_align_center_mask   |-> "fiducial_role"]

Answers ==  \* the gate each op resolves
    [confirm_laser_power |-> "laser_power",
     confirm_center_mask |-> "mask_center_alignment",
     confirm_mask_center |-> "mask_center_check",
     confirm_rheed_gain  |-> "rheed_gain",
     resolve_pixel_check |-> "pixel_check"]

Begin      == {"begin_set_laser_power", "begin_align_center_mask", "begin_check_mask_center"}
MovingTask == {"perform_deposition", "auto_align_center_mask"}
Task       == MovingTask \cup {"to_temperature"}
Claiming   == Begin \cup MovingTask \cup
              {"set_target", "confirm_center_mask", "confirm_mask_center"}
PixelOps   == {"begin_check_rheed_pixels", "resolve_pixel_check"}  \* move unclaimed
AllOps     == Claiming \cup Task \cup DOMAIN Kind \cup DOMAIN Answers \cup {"confirm"}

ASSUME DriverAssumption == Ops \subseteq AllOps /\ None \notin Calls

VARIABLES
    op,       \* the op of each call
    pc,       \* where its handler, or its task, is
    saw,      \* the gate on show when the caller sent the request
    checked,  \* the gate _require_pending found
    motion,   \* _motion: the call that holds the claim
    pending,  \* _pending: the call that opened the gate
    task,     \* _current_task
    stash,    \* manager._pending_laser_power: the begin call that set it
    view      \* the picture last pushed on the update channel

vars == <<op, pc, saw, checked, motion, pending, task, stash, view>>
shared == <<motion, pending, task, stash, view>>

Call == Calls \cup {None}

TypeOK ==
    /\ op \in [Calls -> AllOps \cup {None}]
    /\ pc \in [Calls -> {"new", "sent", "move", "save", "wait", "journal", "role", "look",
                         "heat", "lost", "ending", "done"}]
    /\ saw \in [Calls -> Call] /\ checked \in [Calls -> Call]
    /\ motion \in Call /\ pending \in Call /\ task \in Call /\ stash \in Call
    /\ view \in [pending: Call, task: Call]

Init ==
    /\ op = [c \in Calls |-> None] /\ pc = [c \in Calls |-> "new"]
    /\ saw = [c \in Calls |-> None] /\ checked = [c \in Calls |-> None]
    /\ motion = None /\ pending = None /\ task = None /\ stash = None
    /\ view = [pending |-> None, task |-> None]

-----------------------------------------------------------------------------
(* Building blocks.                                                        *)

At(c, where)  == pc[c] = where
Goto(c, next) == pc' = [pc EXCEPT ![c] = next]

\* Gate and task change only together with a _push, which carries both.
Show(p, t) == pending' = p /\ task' = t /\ view' = [pending |-> p, task |-> t]

\* _set_pending replaces whatever gate is open; _clear_pending clears it.
SetPending(c) == Show(c, task)
ClearPendingUnpushed ==                        \* mutant: the push forgotten
    pending' = None /\ UNCHANGED <<task, view>>
ClearPending  == Show(None, task)

\* _require_pending compares the kind, not the id.
RequirePending(c) == pending # None /\ Kind[op[pending]] = Answers[op[c]]

\* _claim_motion and _release_motion, in the ops that use them.
ClaimMotionTaken(c) ==                         \* mutant: never refused
    IF op[c] \in Claiming THEN motion' = c ELSE UNCHANGED motion
ClaimMotion(c) ==
    IF op[c] \in Claiming THEN motion = None /\ motion' = c ELSE UNCHANGED motion
ReleaseMotionAlways(c) == motion' = None       \* mutant: another's claim too
ReleaseMotion(c) ==
    motion' = IF op[c] \in Claiming THEN None ELSE motion

Check(c) == RequirePending(c) /\ checked' = [checked EXCEPT ![c] = pending]

-----------------------------------------------------------------------------
(* A request is sent by a client that sees the gate of that moment, and    *)
(* dispatched later.                                                       *)

Send(c, o) ==
    /\ At(c, "new")
    /\ op' = [op EXCEPT ![c] = o] /\ saw' = [saw EXCEPT ![c] = pending]
    /\ Goto(c, "sent")
    /\ UNCHANGED <<checked, shared>>

\* The op raises, or has nothing to do, before it has changed anything: the
\* motion is claimed, the gate is not the op's, the heating laser is off, the
\* laser power is set already, no pixel is left to check.
Refuse(c) ==
    /\ At(c, "sent")
    /\ \/ op[c] \in Claiming /\ motion # None
       \/ op[c] \in DOMAIN Answers /\ ~RequirePending(c)
       \/ op[c] = "confirm" /\ (pending = None \/ pending # saw[c])
       \/ op[c] \in {"to_temperature", "begin_check_rheed_pixels"}
       \/ op[c] = "begin_set_laser_power" /\ motion = None
    /\ Goto(c, "done")
    /\ UNCHANGED <<op, saw, checked, shared>>

\* Mutant: the requested power is stashed before the carousel has moved.
StartMoveStashing(c) ==
    /\ At(c, "sent")
    /\ op[c] \in Begin \cup {"set_target", "begin_check_rheed_pixels"}
    /\ ClaimMotion(c) /\ Goto(c, "move")
    /\ stash' = IF op[c] = "begin_set_laser_power" THEN c ELSE stash
    /\ UNCHANGED <<op, saw, checked, pending, task, view>>

\* The op starts to move a motor. The pixel check does so without the claim.
StartMove(c) ==
    /\ At(c, "sent")
    /\ op[c] \in Begin \cup {"set_target", "begin_check_rheed_pixels"}
    /\ ClaimMotion(c) /\ Goto(c, "move")
    /\ UNCHANGED <<op, saw, checked, pending, task, stash, view>>

\* confirm_mask_center, not aligned, and resolve_pixel_check with a pixel to
\* go check their gate and then move.
StartNudge(c) ==
    /\ At(c, "sent") /\ op[c] \in {"confirm_mask_center", "resolve_pixel_check"}
    /\ Check(c) /\ ClaimMotion(c) /\ Goto(c, "move")
    /\ UNCHANGED <<op, saw, pending, task, stash, view>>

\* Mutant: the calibration is saved without the claim, as nothing moves.
StartSaveUnclaimed(c) ==
    /\ At(c, "sent") /\ op[c] = "confirm_center_mask"
    /\ Check(c) /\ Goto(c, "save")
    /\ UNCHANGED <<op, saw, motion, pending, task, stash, view>>

\* confirm_center_mask checks its gate and saves the calibration.
StartSave(c) ==
    /\ At(c, "sent") /\ op[c] = "confirm_center_mask"
    /\ Check(c) /\ ClaimMotion(c) /\ Goto(c, "save")
    /\ UNCHANGED <<op, saw, pending, task, stash, view>>

\* begin_adjust_rheed_gain reads the camera's configuration.
StartGain(c) ==
    /\ At(c, "sent") /\ op[c] = "begin_adjust_rheed_gain"
    /\ Goto(c, "wait")
    /\ UNCHANGED <<op, saw, checked, shared>>

\* set_pressure with pressure_by_hand.
AskPressure(c) ==
    /\ At(c, "sent") /\ op[c] = "set_pressure"
    /\ SetPending(c) /\ Goto(c, "done")
    /\ UNCHANGED <<op, saw, checked, motion, stash>>

\* The answers that await nothing: laser power, gain, an aligned mask, the
\* last pixel. (The mask one claims and releases the motion in between.)
AnswerAtOnce(c) ==
    /\ At(c, "sent") /\ op[c] \in DOMAIN Answers \ {"confirm_center_mask"}
    /\ op[c] \in Claiming => motion = None
    /\ Check(c) /\ ClearPending /\ Goto(c, "done")
    /\ UNCHANGED <<op, saw, motion, stash>>

\* The generic confirm is the one that compares the id.
Confirm(c) ==
    /\ At(c, "sent") /\ op[c] = "confirm" /\ pending # None /\ pending = saw[c]
    /\ checked' = [checked EXCEPT ![c] = pending]
    /\ ClearPending /\ Goto(c, "done")
    /\ UNCHANGED <<op, saw, motion, stash>>

-----------------------------------------------------------------------------
(* The await ends.                                                         *)

EndMove(c) ==
    /\ At(c, "move") /\ op[c] = "set_target"
    /\ ReleaseMotion(c) /\ Goto(c, "done")
    /\ UNCHANGED <<op, saw, checked, pending, task, stash, view>>

\* After the op's last await the manager stashes the requested power, the
\* claim is released and the gate opens.
EndBegin(c) ==
    /\ \/ At(c, "move") /\ op[c] \in Begin \cup {"begin_check_rheed_pixels"}
       \/ At(c, "wait")
    /\ ReleaseMotion(c)
    /\ stash' = IF op[c] = "begin_set_laser_power" THEN c ELSE stash
    /\ SetPending(c) /\ Goto(c, "done")
    /\ UNCHANGED <<op, saw, checked>>

\* Not aligned yet, or the next pixel: the gate of now stays.
EndNudge(c) ==
    /\ At(c, "move") /\ op[c] \in DOMAIN Answers
    /\ ReleaseMotion(c) /\ Show(pending, task) /\ Goto(c, "done")
    /\ UNCHANGED <<op, saw, checked, stash>>

\* The calibration is saved: _clear_pending clears whatever is open by now.
EndSave(c) ==
    /\ At(c, "save")
    /\ ReleaseMotion(c) /\ ClearPending /\ Goto(c, "done")
    /\ UNCHANGED <<op, saw, checked, stash>>

\* Mutant: the claim outlives the error.
FailHolding(c) ==
    /\ pc[c] \in {"move", "save", "wait"} /\ op[c] \notin Task
    /\ Goto(c, "done")
    /\ UNCHANGED <<op, saw, checked, shared>>

\* The chamber, the camera or the database raises: the claim is released and
\* the gates are left alone.
Fail(c) ==
    /\ pc[c] \in {"move", "save", "wait"} /\ op[c] \notin Task
    /\ ReleaseMotion(c) /\ Goto(c, "done")
    /\ UNCHANGED <<op, saw, checked, pending, task, stash, view>>

\* The completion of the script a move or a ramp awaits is lost on its way, and
\* MiCommandRunner.execute has no deadline by default: the await never ends.
LoseCompletion(c) ==
    /\ pc[c] \in {"move", "heat"}
    /\ Goto(c, "lost")
    /\ UNCHANGED <<op, saw, checked, shared>>

-----------------------------------------------------------------------------
(* Tasks: _start_task and _start_moving_task.                              *)

\* Mutant: a moving task started with _start_task, without the claim.
StartTaskUnclaimed(c) ==
    /\ At(c, "sent") /\ op[c] \in Task
    /\ Show(pending, c) /\ Goto(c, "journal")
    /\ UNCHANGED <<op, saw, checked, motion, stash>>

\* The task is shown before its journal row is opened.
StartTask(c) ==
    /\ At(c, "sent") /\ op[c] \in Task
    /\ ClaimMotion(c) /\ Show(pending, c) /\ Goto(c, "journal")
    /\ UNCHANGED <<op, saw, checked, stash>>

\* journal.begin returned: the runner is spawned, the op acknowledges.
Spawn(c) ==
    /\ At(c, "journal")
    /\ Goto(c, IF op[c] = "to_temperature" THEN "heat" ELSE "move")
    /\ UNCHANGED <<op, saw, checked, shared>>

\* auto_align_center_mask with no marker tagged asks the operator for one.
AskRole(c) ==
    /\ At(c, "journal") /\ op[c] = "auto_align_center_mask"
    /\ SetPending(c) /\ Goto(c, "role")
    /\ UNCHANGED <<op, saw, checked, motion, stash>>

\* The poll finds its gate open and asks for the marker. (A look that finds none
\* before the time is up leaves the task where it was.)
RoleLook(c) ==
    /\ At(c, "role") /\ pending = c
    /\ Goto(c, "look")
    /\ UNCHANGED <<op, saw, checked, shared>>

\* The finally clause of the wait clears the gate if it is still the task's.
ClearOwn(c) == IF pending = c THEN ClearPending ELSE UNCHANGED <<pending, task, view>>

\* The marker is tagged: the task goes on, whatever became of its gate meanwhile.
RoleTagged(c) ==
    /\ At(c, "look")
    /\ ClearOwn(c) /\ Goto(c, "move")
    /\ UNCHANGED <<op, saw, checked, motion, stash>>

\* The coroutine returned or raised: the claim is released and current_task
\* cleared, whoever it shows, without a push.
TaskOver(c) ==
    ReleaseMotion(c) /\ task' = None /\ Goto(c, "ending")

EndTask(c) ==
    /\ pc[c] \in {"move", "heat"} /\ op[c] \in Task
    /\ TaskOver(c)
    /\ UNCHANGED <<op, saw, checked, pending, stash, view>>

\* Mutant: the poll notices a cleared gate, not a replaced one.
RoleCancelledCleared(c) ==
    /\ At(c, "role") /\ pending = None
    /\ TaskOver(c)
    /\ UNCHANGED <<op, saw, checked, pending, stash, view>>

\* The gate was replaced or confirmed away: the finally clause leaves a gate
\* that is another's alone.
RoleCancelled(c) ==
    /\ At(c, "role") /\ pending # c
    /\ TaskOver(c)
    /\ UNCHANGED <<op, saw, checked, pending, stash, view>>

\* role_wait_timeout_s ran out, or the look failed: the task's own gate is cleared
\* and pushed, then the task ends.
RoleTimeout(c) ==
    /\ At(c, "look") /\ TaskOver(c)
    /\ IF pending = c THEN pending' = None /\ view' = [pending |-> None, task |-> task]
                      ELSE UNCHANGED <<pending, view>>
    /\ UNCHANGED <<op, saw, checked, stash>>

\* journal.end returned: the result is pushed with the picture of now.
FinishTask(c) ==
    /\ At(c, "ending")
    /\ Show(pending, task) /\ Goto(c, "done")
    /\ UNCHANGED <<op, saw, checked, motion, stash>>
-----------------------------------------------------------------------------
Dispatch(c) ==
    \/ Refuse(c) \/ StartMove(c) \/ StartNudge(c) \/ StartSave(c) \/ StartGain(c)
    \/ AskPressure(c) \/ AnswerAtOnce(c) \/ Confirm(c) \/ StartTask(c)

Proceed(c) ==
    \/ EndMove(c) \/ EndBegin(c) \/ EndNudge(c) \/ EndSave(c) \/ Fail(c)
    \/ Spawn(c) \/ AskRole(c) \/ RoleLook(c) \/ RoleTagged(c) \/ EndTask(c)
    \/ RoleCancelled(c) \/ RoleTimeout(c) \/ FinishTask(c)

Next ==
    \E c \in Calls :
       (\E o \in Ops : Send(c, o)) \/ Dispatch(c) \/ Proceed(c) \/ LoseCompletion(c)

Spec == Init /\ [][Next]_vars

\* A request on the queue is dispatched. An await of the camera, of the journal or
\* of the calibration ends, as RPCs carry a deadline; so does the await of a script
\* whose completion arrives. LoseCompletion owes nothing and nothing ends what it
\* leaves: no deadline, and no task handle to cancel (docs/TODO.md:26-28, 47-55).
FairSpec == Spec /\ \A c \in Calls : WF_vars(Dispatch(c)) /\ WF_vars(Proceed(c))
-----------------------------------------------------------------------------
(* Properties.                                                             *)

\* A call whose op moves the mask, the gun or the carousel, for all it knows.
Moving(c) == At(c, "move") \/ (At(c, "lost") /\ op[c] # "to_temperature")

\* The claim is held by exactly the call or task that took it, from claim to
\* release: nobody releases another's, and a task keeps it until it ends.
ClaimExclusive ==
    \A c \in Calls :
       motion = c <=> /\ op[c] \in Claiming
                      /\ pc[c] \in {"move", "save", "journal", "role", "look", "lost"}

\* handlers.py:380, "motion: one move at a time".
OneMoveAtATime == \A c, d \in Calls : Moving(c) /\ Moving(d) => c = d

\* A laser_power gate on show is about the power that confirming it records.
StashMatchesGate ==
    pending # None /\ op[pending] = "begin_set_laser_power" => stash = pending

\* current_task never shows a task that is over, and as long as no thermal task
\* has been started it is the task that holds the motion claim, and None when no
\* task does.
MovingTaskShown ==
    /\ \A c \in Calls : task = c =>
          op[c] \in Task /\ pc[c] \in {"journal", "role", "look", "move", "heat", "lost"}
    /\ (\A c \in Calls : op[c] # "to_temperature") =>
          \A c \in Calls : task = c <=> motion = c /\ op[c] \in MovingTask

\* A client that has read every update sees the gate and task of now, except
\* between the end of a task and the push of its result.
ViewCurrent ==
    /\ view.pending = pending
    /\ view.task = task \/ \E c \in Calls : At(c, "ending")

\* handlers.py:1289 clears what is open after its await: the gate it was given
\* for, or one of an op that opens its gate without the claim, since no op that
\* claims can open one meanwhile. Every other answer clears the gate it checked.
Resolved(c) == pc[c] # "done" /\ pc'[c] = "done" /\ pending # None /\ pending' = None
Unclaimed == DOMAIN Kind \ Claiming
AnswerClears ==
    [][\A c \in Calls : Resolved(c) =>
          \/ checked'[c] = pending
          \/ op[c] = "confirm_center_mask" /\ op[pending] \in Unclaimed]_vars

\* A claim on the motion is given up, by every path through its op, unless the
\* completion its holder waits for was lost: then the node moves nothing more.
MotionComesBack == \A c \in Calls : motion = c ~> motion # c \/ At(c, "lost")

\* A task that was started is finished and reported, whatever happens to its gate,
\* unless the completion it waits for was lost.
TaskEnds == \A c \in Calls : At(c, "journal") ~> At(c, "done") \/ At(c, "lost")

-----------------------------------------------------------------------------
(* What comments say and the code does not keep: TLC finds both violated in *)
(* the instance of MCExperimentDriver.                                      *)

\* handlers.py:21, "the `id` existing so a stale confirm can't resolve a gate
\* that has since moved on": a caller that answers the gate it was shown never
\* resolves another one.
AnswersShown(c) == saw[c] # None /\ (op[c] = "confirm" \/ Kind[op[saw[c]]] = Answers[op[c]])
NoStaleResolve ==
    [][\A c \in Calls : Resolved(c) /\ AnswersShown(c) => saw[c] = pending]_vars

\* The same of the handler's own check: the gate an answer clears is the one
\* its _require_pending looked at.
ClearsWhatItChecked ==
    [][\A c \in Calls : Resolved(c) => checked'[c] = pending]_vars
=============================================================================
