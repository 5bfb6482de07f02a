------------------------------ MODULE MiPromise ------------------------------
(***************************************************************************)
(* What MiCommandRunner.execute promises its caller (experiment/mi.py): a   *)
(* call that was submitted returns at most once, and it returns "completed" *)
(* only for a script the chamber has run to the end. Running may outlive    *)
(* the call: a caller that gave up has not cancelled anything.              *)
(***************************************************************************)
CONSTANT Cmds

VARIABLES call,  \* what each call of execute() has come to
          ran    \* scripts the chamber has run to the end

\* "special" is the answer to a $command. A script whose execution was over and
\* forgotten before the submission was answered gets it too; it says nothing of
\* how the script ended.
Outcomes == {"completed", "aborted", "stopped", "special", "failed"}

Init == call = [u \in Cmds |-> "new"] /\ ran = {}

Begin(u) ==
    /\ call[u] = "new"
    /\ call' = [call EXCEPT ![u] = "pending"]
    /\ UNCHANGED ran

Run(u) ==
    /\ call[u] # "new" /\ u \notin ran
    /\ ran' = ran \cup {u}
    /\ UNCHANGED call

Return(u, r) ==
    /\ call[u] = "pending"
    /\ r = "completed" => u \in ran
    /\ call' = [call EXCEPT ![u] = r]
    /\ UNCHANGED ran

Next == \E u \in Cmds : Begin(u) \/ Run(u) \/ \E r \in Outcomes : Return(u, r)

Spec == Init /\ [][Next]_<<call, ran>>
=============================================================================
