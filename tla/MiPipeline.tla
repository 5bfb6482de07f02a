----------------------------- MODULE MiPipeline -----------------------------
(***************************************************************************)
(* MiCommandRunner (experiment/mi.py) driving the chamber's MI mode over    *)
(* the broker: a submission is an RPC on a durable request queue, its       *)
(* acknowledgement is bounded, and completion comes back as one message on  *)
(* an exclusive, auto-delete, no_ack queue that anything may lose.          *)
(* The chamber side is MiMode; its loop steps are joined to the messages    *)
(* they consume and produce.                                                *)
(***************************************************************************)
EXTENDS MiMode

CONSTANTS
    Lossy,     \* TRUE: published updates may be lost
    Unbounded  \* calls of execute() with timeout=None

ASSUME PipelineAssumption == Lossy \in BOOLEAN /\ Unbounded \subseteq Cmds

VARIABLES
    req,   \* register_commands requests waiting in the work queue
    acks,  \* replies on their way back
    wire,  \* execution updates on their way to the runner
    run,   \* where each execute() call is, or what it returned
    fut,   \* _pending[uuid]: what the future was resolved with
    lost   \* history: executions an update of which was lost or dropped

clientVars == <<req, acks, wire, run, fut, lost>>
pipeVars == <<vars, clientVars>>

Kinds == {"stopped", "aborted", "completed"}

\* What an acknowledgement says of the execution. Where the handler found none,
\* it says "special", which is meant for $stop and $clean.
Ack == [cmd: Cmds, kind: Kinds \cup {"progress", "special"}]

\* What a call of execute() can return with.
Reports == Kinds \cup {"special"}

PipeTypeOK ==
    /\ TypeOK
    /\ req \subseteq Cmds /\ acks \subseteq Ack
    /\ wire \in Seq([cmd: Cmds, kind: Kinds])
    /\ run \in [Cmds -> Reports \cup {"new", "calling", "waiting", "failed"}]
    /\ fut \in [Cmds -> Kinds \cup {"none"}]
    /\ lost \subseteq Cmds

PipeInit ==
    /\ Init
    /\ req = {} /\ acks = {} /\ wire = <<>>
    /\ run = [u \in Cmds |-> "new"] /\ fut = [u \in Cmds |-> "none"]
    /\ lost = {}

-----------------------------------------------------------------------------
(* The experiment node.                                                    *)

Pending(u) == run[u] \in {"calling", "waiting"}

\* execute() registers its future before it submits.
Submit(u) ==
    /\ run[u] = "new"
    /\ run' = [run EXCEPT ![u] = "calling"]
    /\ req' = req \cup {u}
    /\ UNCHANGED <<vars, acks, wire, fut, lost>>

\* An ack of an execution that is special or finished is the result already.
ReceiveAck(a) ==
    /\ a \in acks
    /\ acks' = acks \ {a}
    /\ run' = IF run[a.cmd] = "calling"
              THEN [run EXCEPT ![a.cmd] = IF a.kind = "progress" THEN "waiting" ELSE a.kind]
              ELSE run
    /\ UNCHANGED <<vars, req, wire, fut, lost>>

\* Mutant: the runner submits the script again when the reply is late.
AckTimeoutRetrying(u) ==
    /\ run[u] = "calling"
    /\ req' = req \cup {u}
    /\ UNCHANGED <<vars, acks, wire, run, fut, lost>>

\* The bounded acknowledgement runs out; the request itself is not withdrawn.
AckTimeout(u) ==
    /\ run[u] = "calling"
    /\ run' = [run EXCEPT ![u] = "failed"]
    /\ UNCHANGED <<vars, req, acks, wire, fut, lost>>

WaitTimeout(u) ==
    /\ u \notin Unbounded /\ run[u] = "waiting" /\ fut[u] = "none"
    /\ run' = [run EXCEPT ![u] = "failed"]
    /\ UNCHANGED <<vars, req, acks, wire, fut, lost>>

\* _on_update: only the first finished update of a pending call resolves it.
Resolves(e) == Pending(e.cmd) /\ fut[e.cmd] = "none"

\* Mutant: an update resolves whichever call is pending, not its own.
DeliverAnyone ==
    /\ wire # <<>>
    /\ wire' = Tail(wire)
    /\ \E u \in Cmds :
          fut' = IF Pending(u) THEN [fut EXCEPT ![u] = Head(wire).kind] ELSE fut
    /\ UNCHANGED <<req, acks, run, vars, lost>>

\* Mutant: a pending call is taken out of _pending by any update.
DeliverForgetting ==
    /\ wire # <<>>
    /\ wire' = Tail(wire)
    /\ fut' = fut
    /\ UNCHANGED <<vars, req, acks, run, lost>>

Deliver ==
    /\ wire # <<>>
    /\ wire' = Tail(wire)
    /\ fut' = IF Resolves(Head(wire))
              THEN [fut EXCEPT ![Head(wire).cmd] = Head(wire).kind] ELSE fut
    /\ UNCHANGED <<vars, req, acks, run, lost>>

\* execute() goes on once its future is resolved and its call acknowledged.
Finish(u) ==
    /\ run[u] = "waiting" /\ fut[u] # "none"
    /\ run' = [run EXCEPT ![u] = fut[u]]
    /\ UNCHANGED <<vars, req, acks, wire, fut, lost>>

\* The broker: a reconnect, or nobody bound to the exclusive queue.
Lose ==
    /\ Lossy /\ wire # <<>>
    /\ wire' = Tail(wire) /\ lost' = lost \cup {Head(wire).cmd}
    /\ UNCHANGED <<vars, req, acks, run, fut>>

-----------------------------------------------------------------------------
(* The chamber node's loop, with the messages it takes and sends.          *)

Serve(u) ==
    /\ u \in req /\ RegisterBegin(u)
    /\ req' = req \ {u}
    /\ UNCHANGED <<acks, wire, run, fut, lost>>

\* What there is of the execution by now: the worker may have popped it again.
Found(u) == IF u \in executions THEN Outcome(u, finished, aborted) ELSE "special"

Reply ==
    /\ RegisterReply
    /\ acks' = acks \cup {[cmd |-> lcmd, kind |-> Found(lcmd)]}
    /\ UNCHANGED <<req, wire, run, fut, lost>>

\* next_update keeps the all_executions entries to itself; a progress update
\* is published, but _on_update drops it, so it is left off the wire here.
Publish ==
    /\ NextUpdate
    /\ wire' = IF Head(updates).kind \in {"all", "progress"} THEN wire
               ELSE Append(wire, Head(updates))
    /\ UNCHANGED <<req, acks, run, fut, lost>>

\* The update of an end that finds the queue full is dropped without a word.
Observe ==
    /\ Watch
    /\ lost' = IF current \in finished' /\ Len(updates) >= UpdateSize
               THEN lost \cup {current} ELSE lost
    /\ UNCHANGED <<req, acks, wire, run, fut>>

\* The steps of the loop that neither take nor send a message, but for the
\* beginning of a special command.
LoopAlone == \/ RegisterPut \/ RegisterStore
             \/ StopDrain \/ StopTake \/ StopScript \/ StopAssist
             \/ StopRewrite \/ StopMark

ChamberStep ==
    /\ LoopAlone \/ StopBegin \/ Clean \/ Worker \/ WatchNobody \/ WatchList \/ Ctrl
    /\ UNCHANGED clientVars

Client == \/ \E u \in Cmds : AckTimeout(u) \/ WaitTimeout(u) \/ Finish(u)
          \/ \E a \in acks : ReceiveAck(a)
          \/ Deliver
Server == Reply \/ Publish \/ \E u \in Cmds : Serve(u)

PipeNext == \/ \E u \in Cmds : Submit(u)
            \/ Client \/ Server \/ Observe \/ ChamberStep \/ Lose

PipeSpec == PipeInit /\ [][PipeNext]_pipeVars

\* The broker delivers what it does not lose, deadlines run out where there are
\* any, and every thread that has not ended is scheduled.
PipeFairSpec ==
    /\ PipeSpec
    /\ WF_pipeVars(Client) /\ WF_pipeVars(Server)
    /\ WF_pipeVars(LoopAlone /\ UNCHANGED clientVars)
    /\ WF_pipeVars(Worker /\ UNCHANGED clientVars)
    /\ WF_pipeVars(Observe \/ ((WatchNobody \/ WatchList) /\ UNCHANGED clientVars))
    /\ WF_pipeVars(Ctrl /\ UNCHANGED clientVars)
-----------------------------------------------------------------------------
(* Properties.                                                             *)

Returned(u) == run[u] \in Reports \cup {"failed"}

Promise == INSTANCE MiPromise WITH
    call <- [u \in Cmds |-> IF Pending(u) THEN "pending" ELSE run[u]],
    ran <- done

\* The pipeline keeps the promise of execute(): one return per call, and
\* "completed" only for a script the chamber ran to the end, across lost
\* updates, late acknowledgements and calls that gave up.
KeepsPromise == Promise!Spec

\* A call that failed while its request was still queued is not forgotten by
\* the chamber: whatever runs was submitted, and no call that reports a result
\* still has its request waiting.
ResultMeansServed ==
    \A u \in Cmds :
       /\ started[u] > 0 => run[u] # "new"
       /\ run[u] \in Reports \cup {"waiting"} => u \notin req

\* Every call with a deadline returns, whatever is lost. One without returns too,
\* unless its update was lost on the way or dropped by a full update_queue, or
\* one of the chamber's races was lost.
CallReturns ==
    \A u \in Cmds :
       Pending(u) ~> Returned(u) \/ (u \in Unbounded /\ (u \in lost \/ Wedged))

\* What a call reports is what became of its own execution, never another's,
\* also when executions are stopped, cleaned or attributed wrongly meanwhile.
ResultIsOwn ==
    \A u \in Cmds :
       /\ Pending(u) /\ fut[u] # "none" => u \in finished
       /\ run[u] \in Reports => u \in finished
       /\ run[u] = "aborted" => u \in aborted
       /\ run[u] = "stopped" => u \in stopped
=============================================================================
