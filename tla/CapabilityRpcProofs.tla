------------------------- MODULE CapabilityRpcProofs -------------------------
(***************************************************************************)
(* Proofs about CapabilityRpc: type correctness, custody of a request      *)
(* between broker and instances, the bound on its runs, and that it        *)
(* implements RpcPromise.                                                  *)
(***************************************************************************)
EXTENDS CapabilityRpc, TLAPS

\* A delivery that was not made yet is nobody's.
Fresh ==
    \A s \in Slots : s[2] > taken[s[1]] => /\ at[s] = "none" /\ by[s] = Nobody
                                          /\ s \notin unacked

\* What the broker counts as delivered is in an instance's hands.
HeldByOne ==
    \A s \in unacked : by[s] \in Instances /\ at[s] \in {"running", "ok", "error", "replied"}

\* A request nobody published is nowhere.
Unpublished ==
    \A r \in Requests : call[r] = "idle" =>
       r \notin queue /\ taken[r] = 0 /\ done[r] = {} /\ replies[r] = {}

\* A handler that answered did run; what is on its way is what runs said.
Outcomes ==
    /\ \A s \in Slots : at[s] \in {"ok", "error"} => at[s] \in done[s[1]]
    /\ \A s \in Slots : at[s] = "replied" => done[s[1]] # {}
    /\ \A r \in Requests : replies[r] \subseteq done[r]

\* A request that waits again was cut off as often as it was delivered.
Tokens ==
    \A r \in Requests : /\ taken[r] <= 1 + cut[r]
                        /\ r \in queue => taken[r] <= cut[r]

\* NotLost, after the call returned as well.
Kept ==
    \A r \in Requests : call[r] # "idle" =>
       \/ r \in queue \cup shed
       \/ \E s \in unacked : s[1] = r
       \/ done[r] # {}

IInv == TypeOK /\ Fresh /\ HeldByOne /\ Unpublished /\ Outcomes /\ Tokens /\ Kept

\* The constants, as the steps need them.
LEMMA Constants ==
    /\ Prefetch \in Nat /\ MaxLength \in Nat /\ MaxDeliveries \in Nat /\ MaxFaults \in Nat
    /\ Nobody \notin Instances
  BY NumberAssumption, NobodyAssumption

\* Nothing was called and no instance runs.
LEMMA InitHolds == Init => IInv
<1> SUFFICES ASSUME Init PROVE IInv
  OBVIOUS
<1> USE DEF Init
<1>1. TypeOK
  BY Constants DEF TypeOK
<1>2. Fresh /\ HeldByOne /\ Unpublished /\ Outcomes
  BY DEF Fresh, HeldByOne, Unpublished, Outcomes
<1>3. Tokens /\ Kept
  BY DEF Tokens, Kept
<1> QED
  BY <1>1, <1>2, <1>3 DEF IInv

\* A published request waits in the queue.
LEMMA PublishStep == ASSUME IInv, NEW r \in Requests, Publish(r) PROVE IInv'
<1> USE Constants DEF IInv, clientVars, brokerVars, serverVars, nodeVars
<1>1. TypeOK'
  BY DEF Publish, TypeOK, Slots
<1>2. Fresh'
  BY DEF Publish, TypeOK, Slots, Fresh
<1>3. HeldByOne'
  BY DEF Publish, TypeOK, Slots, HeldByOne
<1>4. Unpublished'
  BY DEF Publish, TypeOK, Slots, Unpublished
<1>5. Outcomes'
  BY DEF Publish, TypeOK, Slots, Outcomes
<1>6. Tokens'
  BY DEF Publish, TypeOK, Slots, Tokens, Unpublished
<1>7. Kept'
  BY DEF Publish, TypeOK, Slots, Kept
<1> QED
  BY <1>1, <1>2, <1>3, <1>4, <1>5, <1>6, <1>7

\* An answer is taken in.
LEMMA ReceiveStep == ASSUME IInv, NEW r \in Requests, Receive(r) PROVE IInv'
<1> USE Constants DEF IInv, clientVars, brokerVars, serverVars, nodeVars
<1>1. TypeOK'
  BY DEF Receive, TypeOK, Slots
<1>2. Fresh'
  BY DEF Receive, TypeOK, Slots, Fresh
<1>3. HeldByOne'
  BY DEF Receive, TypeOK, Slots, HeldByOne
<1>4. Unpublished'
  BY DEF Receive, TypeOK, Slots, Unpublished
<1>5. Outcomes'
  BY DEF Receive, TypeOK, Slots, Outcomes
<1>6. Tokens'
  BY DEF Receive, TypeOK, Slots, Tokens
<1>7. Kept'
  BY DEF Receive, TypeOK, Slots, Kept
<1> QED
  BY <1>1, <1>2, <1>3, <1>4, <1>5, <1>6, <1>7

\* A caller gives up.
LEMMA TimeOutStep == ASSUME IInv, NEW r \in Requests, TimeOut(r) PROVE IInv'
<1> USE Constants DEF IInv, clientVars, brokerVars, serverVars, nodeVars
<1>1. TypeOK'
  BY DEF TimeOut, TypeOK, Slots
<1>2. Fresh'
  BY DEF TimeOut, TypeOK, Slots, Fresh
<1>3. HeldByOne'
  BY DEF TimeOut, TypeOK, Slots, HeldByOne
<1>4. Unpublished'
  BY DEF TimeOut, TypeOK, Slots, Unpublished
<1>5. Outcomes'
  BY DEF TimeOut, TypeOK, Slots, Outcomes
<1>6. Tokens'
  BY DEF TimeOut, TypeOK, Slots, Tokens
<1>7. Kept'
  BY DEF TimeOut, TypeOK, Slots, Kept
<1> QED
  BY <1>1, <1>2, <1>3, <1>4, <1>5, <1>6, <1>7

\* The broker hands a request out: it was cut off as often as it was delivered.
LEMMA DeliverStep == ASSUME IInv, NEW r \in Requests, NEW i \in Instances, Deliver(r, i) PROVE IInv'
<1> USE Constants DEF IInv, clientVars, brokerVars, serverVars, nodeVars
<1>1. TypeOK'
  BY DEF Deliver, TypeOK, Slots
<1>2. Fresh'
  BY DEF Deliver, TypeOK, Slots, Fresh
<1>3. HeldByOne'
  BY DEF Deliver, TypeOK, Slots, HeldByOne
<1>4. Unpublished'
  BY DEF Deliver, TypeOK, Slots, Unpublished
<1>5. Outcomes'
  BY DEF Deliver, TypeOK, Slots, Outcomes
<1>6. Tokens'
  BY DEF Deliver, TypeOK, Slots, Tokens
<1>7. Kept'
  BY DEF Deliver, TypeOK, Slots, Kept
<1> QED
  BY <1>1, <1>2, <1>3, <1>4, <1>5, <1>6, <1>7

\* The broker discards a request.
LEMMA ExpireStep == ASSUME IInv, NEW r \in Requests, Expire(r) PROVE IInv'
<1> USE Constants DEF IInv, clientVars, brokerVars, serverVars, nodeVars
<1>1. TypeOK'
  BY DEF Expire, TypeOK, Slots
<1>2. Fresh'
  BY DEF Expire, TypeOK, Slots, Fresh
<1>3. HeldByOne'
  BY DEF Expire, TypeOK, Slots, HeldByOne
<1>4. Unpublished'
  BY DEF Expire, TypeOK, Slots, Unpublished
<1>5. Outcomes'
  BY DEF Expire, TypeOK, Slots, Outcomes
<1>6. Tokens'
  BY DEF Expire, TypeOK, Slots, Tokens
<1>7. Kept'
  BY DEF Expire, TypeOK, Slots, Kept
<1> QED
  BY <1>1, <1>2, <1>3, <1>4, <1>5, <1>6, <1>7

\* A handler ends.
LEMMA HandleStep == ASSUME IInv, NEW s \in Slots, Handle(s) PROVE IInv'
<1> USE Constants DEF IInv, clientVars, brokerVars, serverVars, nodeVars
<1>1. TypeOK'
  BY DEF Handle, TypeOK, Slots
<1>2. Fresh'
  BY DEF Handle, TypeOK, Slots, Fresh
<1>3. HeldByOne'
  BY DEF Handle, TypeOK, Slots, HeldByOne
<1>4. Unpublished'
  BY DEF Handle, TypeOK, Slots, Unpublished, Fresh
<1>5. Outcomes'
  BY DEF Handle, TypeOK, Slots, Outcomes
<1>6. Tokens'
  BY DEF Handle, TypeOK, Slots, Tokens
<1>7. Kept'
  BY DEF Handle, TypeOK, Slots, Kept
<1> QED
  BY <1>1, <1>2, <1>3, <1>4, <1>5, <1>6, <1>7

\* A handler's outcome is published.
LEMMA ReplyStep == ASSUME IInv, NEW s \in Slots, Reply(s) PROVE IInv'
<1> USE Constants DEF IInv, clientVars, brokerVars, serverVars, nodeVars
<1>1. TypeOK'
  BY DEF Reply, Over, TypeOK, Slots
<1>2. Fresh'
  BY DEF Reply, Over, TypeOK, Slots, Fresh
<1>3. HeldByOne'
  BY DEF Reply, Over, TypeOK, Slots, HeldByOne
<1>4. Unpublished'
  BY DEF Reply, Over, TypeOK, Slots, Unpublished, Outcomes
<1>5. Outcomes'
  BY DEF Reply, Over, TypeOK, Slots, Outcomes
<1>6. Tokens'
  BY DEF Reply, Over, TypeOK, Slots, Tokens
<1>7. Kept'
  BY DEF Reply, Over, TypeOK, Slots, Kept
<1> QED
  BY <1>1, <1>2, <1>3, <1>4, <1>5, <1>6, <1>7

\* A delivery is acknowledged; its outcome is known.
LEMMA AckStep == ASSUME IInv, NEW s \in Slots, Ack(s) PROVE IInv'
<1> USE Constants DEF IInv, clientVars, brokerVars, serverVars, nodeVars
<1>1. TypeOK'
  BY DEF Ack, Over, TypeOK, Slots
<1>2. Fresh'
  BY DEF Ack, Over, TypeOK, Slots, Fresh
<1>3. HeldByOne'
  BY DEF Ack, Over, TypeOK, Slots, HeldByOne
<1>4. Unpublished'
  BY DEF Ack, Over, TypeOK, Slots, Unpublished
<1>5. Outcomes'
  BY DEF Ack, Over, TypeOK, Slots, Outcomes
<1>6. Tokens'
  BY DEF Ack, Over, TypeOK, Slots, Tokens
<1>7. Kept'
  BY DEF Ack, Over, TypeOK, Slots, Kept, Outcomes
<1> QED
  BY <1>1, <1>2, <1>3, <1>4, <1>5, <1>6, <1>7

\* An instance starts, drains or is connected again.
LEMMA LifeStep == ASSUME IInv, NEW i \in Instances, Start(i) \/ Drain(i) \/ Reconnect(i) PROVE IInv'
<1> USE Constants DEF IInv, clientVars, brokerVars, serverVars, nodeVars
<1>1. TypeOK'
  BY DEF Start, Drain, Reconnect, TypeOK, Slots
<1>2. Fresh'
  BY DEF Start, Drain, Reconnect, TypeOK, Slots, Fresh
<1>3. HeldByOne'
  BY DEF Start, Drain, Reconnect, TypeOK, Slots, HeldByOne
<1>4. Unpublished'
  BY DEF Start, Drain, Reconnect, TypeOK, Slots, Unpublished
<1>5. Outcomes'
  BY DEF Start, Drain, Reconnect, TypeOK, Slots, Outcomes
<1>6. Tokens'
  BY DEF Start, Drain, Reconnect, TypeOK, Slots, Tokens
<1>7. Kept'
  BY DEF Start, Drain, Reconnect, TypeOK, Slots, Kept
<1> QED
  BY <1>1, <1>2, <1>3, <1>4, <1>5, <1>6, <1>7

\* A drained instance holds nothing.
LEMMA LeaveStep == ASSUME IInv, NEW i \in Instances, Leave(i) PROVE IInv'
<1> USE Constants DEF IInv, clientVars, brokerVars, serverVars, nodeVars
<1>1. TypeOK'
  BY DEF Leave, Close, Requeue, Dead, Held, InFlight, TypeOK, Slots
<1>2. Fresh'
  BY DEF Leave, Close, Requeue, Dead, Held, InFlight, TypeOK, Slots, Fresh
<1>3. HeldByOne'
  BY DEF Leave, Close, Requeue, Dead, Held, InFlight, TypeOK, Slots, HeldByOne
<1>4. Unpublished'
  BY DEF Leave, Close, Requeue, Dead, Held, InFlight, TypeOK, Slots, Unpublished
<1>5. Outcomes'
  BY DEF Leave, Close, Requeue, Dead, Held, InFlight, TypeOK, Slots, Outcomes
<1>6. Tokens'
  BY DEF Leave, Close, Requeue, Dead, Held, InFlight, TypeOK, Slots, Tokens
<1>7. Kept'
  BY DEF Leave, Close, Requeue, Dead, Held, InFlight, TypeOK, Slots, Kept
<1> QED
  BY <1>1, <1>2, <1>3, <1>4, <1>5, <1>6, <1>7

\* A process that ends with requests in its hands leaves them to the broker.
LEMMA EndStep == ASSUME IInv, NEW i \in Instances, LeaveForced(i) \/ Crash(i) PROVE IInv'
<1> USE Constants DEF IInv, clientVars, brokerVars, serverVars, nodeVars
<1>1. TypeOK'
  <2> USE DEF LeaveForced, Crash, Close, Requeue, Dead, Held, Failed, TypeOK, Slots
  <2>1. (call \in [Requests -> {"idle", "waiting", "ok", "error", "silent"}])'
    OBVIOUS
  <2>2. /\ (replies \in [Requests -> SUBSET {"ok", "error"}])'
        /\ (done \in [Requests -> SUBSET {"ok", "error"}])'
    OBVIOUS
  <2>3. (queue \subseteq Requests)' /\ (shed \subseteq Requests)' /\ (unacked \subseteq Slots)'
    OBVIOUS
  <2>4. (taken \in [Requests -> 0..MaxDeliveries])' /\ (cut \in [Requests -> Nat])'
    OBVIOUS
  <2>5. (at \in [Slots -> {"none", "running", "ok", "error", "replied", "over"}])'
    OBVIOUS
  <2>6. (by \in [Slots -> Instances \cup {Nobody}])'
    OBVIOUS
  <2>7. (life \in [Instances -> {"off", "up", "draining", "down"}])' /\ (conn \subseteq Instances)'
    OBVIOUS
  <2>8. (faults \in 0..MaxFaults)'
    OBVIOUS
  <2> QED
    BY <2>1, <2>2, <2>3, <2>4, <2>5, <2>6, <2>7, <2>8
<1>2. Fresh'
  BY DEF LeaveForced, Crash, Close, Requeue, Dead, Held, Failed, TypeOK, Slots, Fresh
<1>3. HeldByOne'
  BY DEF LeaveForced, Crash, Close, Requeue, Dead, Held, Failed, TypeOK, Slots, HeldByOne
<1>4. Unpublished'
  BY DEF LeaveForced, Crash, Close, Requeue, Dead, Held, Failed, TypeOK, Slots, Unpublished, Fresh
<1>5. Outcomes'
  BY DEF LeaveForced, Crash, Close, Requeue, Dead, Held, Failed, TypeOK, Slots, Outcomes
<1>6. Tokens'
  BY DEF LeaveForced, Crash, Close, Requeue, Dead, Held, Failed, TypeOK, Slots, Tokens
<1>7. Kept'
  BY DEF LeaveForced, Crash, Close, Requeue, Dead, Held, Failed, TypeOK, Slots, Kept
<1> QED
  BY <1>1, <1>2, <1>3, <1>4, <1>5, <1>6, <1>7

\* A lost connection does the same, and the handlers go on.
LEMMA BlipStep == ASSUME IInv, NEW i \in Instances, Blip(i) PROVE IInv'
<1> USE Constants DEF IInv, clientVars, brokerVars, serverVars, nodeVars
<1>1. TypeOK'
  BY DEF Blip, Requeue, Held, Failed, TypeOK, Slots
<1>2. Fresh'
  BY DEF Blip, Requeue, Held, Failed, TypeOK, Slots, Fresh
<1>3. HeldByOne'
  BY DEF Blip, Requeue, Held, Failed, TypeOK, Slots, HeldByOne
<1>4. Unpublished'
  BY DEF Blip, Requeue, Held, Failed, TypeOK, Slots, Unpublished, Fresh
<1>5. Outcomes'
  BY DEF Blip, Requeue, Held, Failed, TypeOK, Slots, Outcomes
<1>6. Tokens'
  BY DEF Blip, Requeue, Held, Failed, TypeOK, Slots, Tokens
<1>7. Kept'
  BY DEF Blip, Requeue, Held, Failed, TypeOK, Slots, Kept
<1> QED
  BY <1>1, <1>2, <1>3, <1>4, <1>5, <1>6, <1>7

\* Every step keeps the invariant.
LEMMA StepHolds == IInv /\ [Next]_vars => IInv'
<1> SUFFICES ASSUME IInv, [Next]_vars PROVE IInv'
  OBVIOUS
<1>1. CASE UNCHANGED vars
  BY <1>1 DEF vars, clientVars, brokerVars, serverVars, nodeVars, IInv, TypeOK, Fresh, HeldByOne,
              Unpublished, Outcomes, Tokens, Kept
<1>2. CASE \E r \in Requests : ClientStep(r) \/ Expire(r)
  BY <1>2, PublishStep, ReceiveStep, TimeOutStep, ExpireStep DEF ClientStep
<1>3. CASE \E r \in Requests, i \in Instances : Deliver(r, i)
  BY <1>3, DeliverStep
<1>4. CASE \E s \in Slots : ServerStep(s)
  BY <1>4, HandleStep, ReplyStep, AckStep DEF ServerStep
<1>5. CASE \E i \in Instances : NodeStep(i)
  BY <1>5, LifeStep, LeaveStep, EndStep, BlipStep DEF NodeStep
<1> QED
  BY <1>1, <1>2, <1>3, <1>4, <1>5 DEF Next

\* The inductive invariant holds for ever.
THEOREM Invariance == Spec => []IInv
  BY InitHolds, StepHolds, PTL DEF Spec

\* Type correctness of calls, queue, deliveries and instances.
THEOREM RpcTypeCorrect == Spec => []TypeOK
<1>1. IInv => TypeOK
  BY DEF IInv
<1> QED
  BY <1>1, Invariance, PTL

\* While its caller waits, a request the broker kept is not lost.
THEOREM NotLostCorrect == Spec => []NotLost
<1>1. IInv => NotLost
  BY DEF IInv, Kept, NotLost
<1> QED
  BY <1>1, Invariance, PTL

\* A request runs again only after an instance failed with it in its hands.
THEOREM OncePerFaultCorrect == Spec => []OncePerFault
<1>1. IInv => OncePerFault
  BY DEF IInv, Tokens, OncePerFault
<1> QED
  BY <1>1, Invariance, PTL

-----------------------------------------------------------------------------
(* Refinement: a publish is the call, the end of a handler is a run, and   *)
(* a call returns with an answer taken in or with its timeout.             *)

\* Nothing was called: the promise starts as it must.
LEMMA InitRefines == Init => Promise!Init
  BY DEF Init, Promise!Init

\* Every step is one of the promise's, or none.
LEMMA StepRefines == IInv /\ [Next]_vars => [Promise!Next]_<<call, done>>
<1> SUFFICES ASSUME IInv, [Next]_vars, ~UNCHANGED <<call, done>> PROVE Promise!Next
  BY Zenon
<1> USE DEF clientVars, brokerVars, serverVars, nodeVars, IInv
<1>1. ASSUME NEW r \in Requests, Publish(r) PROVE Promise!Next
  BY <1>1 DEF Publish, Promise!Next, Promise!Call
<1>2. ASSUME NEW r \in Requests, Receive(r) PROVE Promise!Next
  BY <1>2 DEF Receive, Outcomes, TypeOK, Promise!Next, Promise!Return
<1>3. ASSUME NEW r \in Requests, TimeOut(r) PROVE Promise!Next
  BY <1>3 DEF TimeOut, Promise!Next, Promise!Return
<1>4. ASSUME NEW s \in Slots, Handle(s) PROVE Promise!Next
  <2>1. s[1] \in Requests /\ s[2] \in 1..MaxDeliveries /\ taken[s[1]] # 0
    BY <1>4, Constants DEF Handle, Slots, Fresh, TypeOK
  <2>2. Promise!Run(s[1])
    BY <1>4, <2>1 DEF Handle, Unpublished, Promise!Run, Promise!Answers
  <2> QED
    BY <2>1, <2>2 DEF Promise!Next
<1>5. ASSUME NEW r \in Requests, Expire(r) \/ \E i \in Instances : Deliver(r, i) PROVE FALSE
  BY <1>5 DEF Expire, Deliver
<1>6. ASSUME NEW s \in Slots, Reply(s) \/ Ack(s) PROVE FALSE
  BY <1>6 DEF Reply, Ack
<1>7. ASSUME NEW i \in Instances, NodeStep(i) PROVE FALSE
  BY <1>7 DEF NodeStep, Start, Drain, Leave, LeaveForced, Close, Crash, Blip, Reconnect
<1>8. Next
  BY DEF vars
<1> QED
  BY <1>1, <1>2, <1>3, <1>4, <1>5, <1>6, <1>7, <1>8 DEF Next, ClientStep, ServerStep

\* Client, broker and instances keep the promise of a call.
THEOREM KeepsPromiseCorrect == Spec => KeepsPromise
<1>1. IInv /\ [Next]_vars => [Promise!Next]_<<call, done>>
  BY StepRefines
<1> QED
  BY <1>1, InitRefines, Invariance, PTL DEF Spec, KeepsPromise, Promise!Spec

=============================================================================
