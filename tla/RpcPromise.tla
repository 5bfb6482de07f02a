----------------------------- MODULE RpcPromise -----------------------------
(***************************************************************************)
(* What CapabilityClient.call promises its caller, whatever happens to the *)
(* instances that serve the capability: "Returns the response model ...    *)
(* Raises RemoteError if the server said no, TimeoutError if it said       *)
(* nothing" (base/mq/client.py). An answer is that of a run of this very   *)
(* request; the request may run again, before or after the call returned.  *)
(***************************************************************************)
CONSTANTS Requests

VARIABLES
    call,  \* each call: idle, waiting, or how it returned
    done   \* the outcomes of the runs of its request

Answers == {"ok", "error"}

Init ==
    /\ call = [r \in Requests |-> "idle"]
    /\ done = [r \in Requests |-> {}]

Call(r) ==
    /\ call[r] = "idle"
    /\ call' = [call EXCEPT ![r] = "waiting"]
    /\ UNCHANGED done

Run(r) ==
    /\ call[r] # "idle"
    /\ \E o \in Answers : done' = [done EXCEPT ![r] = @ \cup {o}]
    /\ UNCHANGED call

Return(r) ==
    /\ call[r] = "waiting"
    /\ \E o \in done[r] \cup {"silent"} : call' = [call EXCEPT ![r] = o]
    /\ UNCHANGED done

Next == \E r \in Requests : Call(r) \/ Run(r) \/ Return(r)

Spec == Init /\ [][Next]_<<call, done>>
=============================================================================
