--------------------------- MODULE CapabilityRpc ----------------------------
(***************************************************************************)
(* One capability called over the broker: CapabilityClient.call            *)
(* (base/mq/client.py), the durable work queue that several instances of a *)
(* node share (base/mq/queues.py), and the servers that consume it, crash, *)
(* lose their connection, drain and restart (base/mq/server.py,            *)
(* node/node.py).                                                          *)
(*                                                                         *)
(* A request is delivered, handled, answered and acknowledged in four      *)
(* steps, and the broker hands out again what was delivered and never      *)
(* acknowledged. Each delivery of a request is therefore a slot of its own *)
(* here: the handler of a delivery the broker took back may still run.     *)
(* Timers (the caller's timeout, the queue's TTL, the deadline of a drain)  *)
(* may fire at any moment: no property here depends on their lengths.      *)
(***************************************************************************)
EXTENDS Naturals, FiniteSets

CONSTANTS
    Requests, Instances,
    Prefetch,      \* prefetch_count of a channel
    MaxLength,     \* x-max-length of the work queue
    MaxDeliveries, \* bound: deliveries of one request
    MaxFaults      \* bound: crashes and lost connections in a behaviour

ASSUME NumberAssumption ==
    {Prefetch, MaxLength, MaxDeliveries, MaxFaults} \subseteq Nat

Nobody == "nobody"
ASSUME NobodyAssumption == Nobody \notin Instances

VARIABLES
    call,     \* each call: idle, waiting, or how it returned
    replies,  \* answers on their way to the caller's reply queue
    queue,    \* the requests that wait in the work queue
    shed,     \* the requests the broker discarded: too old, or too many
    taken,    \* how often each request was delivered
    at,       \* what the server does with each delivery
    by,       \* the instance that handles it
    unacked,  \* the deliveries the broker waits to have acknowledged
    life,     \* what each instance does
    conn,     \* the instances with an open channel
    done,     \* the outcomes of the runs of a request
    cut,      \* how often an instance failed with a request in its hands
    faults    \* crashes and lost connections so far

clientVars == <<call, replies>>
brokerVars == <<queue, shed, unacked>>
serverVars == <<taken, at, by, done>>
nodeVars   == <<life, conn, cut, faults>>
vars == <<clientVars, brokerVars, serverVars, nodeVars>>

Slots == Requests \X (1..MaxDeliveries)

TypeOK ==
    /\ call \in [Requests -> {"idle", "waiting", "ok", "error", "silent"}]
    /\ replies \in [Requests -> SUBSET {"ok", "error"}]
    /\ queue \subseteq Requests /\ shed \subseteq Requests
    /\ taken \in [Requests -> 0..MaxDeliveries]
    /\ at \in [Slots -> {"none", "running", "ok", "error", "replied", "over"}]
    /\ by \in [Slots -> Instances \cup {Nobody}]
    /\ unacked \subseteq Slots
    /\ life \in [Instances -> {"off", "up", "draining", "down"}]
    /\ conn \subseteq Instances
    /\ done \in [Requests -> SUBSET {"ok", "error"}]
    /\ cut \in [Requests -> Nat]
    /\ faults \in 0..MaxFaults

Init ==
    /\ call = [r \in Requests |-> "idle"]
    /\ replies = [r \in Requests |-> {}]
    /\ queue = {} /\ shed = {} /\ unacked = {}
    /\ taken = [r \in Requests |-> 0]
    /\ at = [s \in Slots |-> "none"] /\ by = [s \in Slots |-> Nobody]
    /\ life = [i \in Instances |-> "off"] /\ conn = {}
    /\ done = [r \in Requests |-> {}] /\ cut = [r \in Requests |-> 0]
    /\ faults = 0

-----------------------------------------------------------------------------
(* The caller. The future is registered before the publish, so that no     *)
(* answer can come too early for it: both are one step.                    *)

\* A full queue drops its oldest message for the new one; the order of the
\* queue is not kept here, so that is any of them.
Publish(r) ==
    /\ call[r] = "idle"
    /\ call' = [call EXCEPT ![r] = "waiting"]
    /\ \/ /\ Cardinality(queue) < MaxLength
          /\ queue' = queue \cup {r} /\ UNCHANGED shed
       \/ /\ Cardinality(queue) >= MaxLength
          /\ \E q \in queue : /\ queue' = (queue \ {q}) \cup {r}
                              /\ shed' = shed \cup {q}
    /\ UNCHANGED <<replies, unacked, serverVars, nodeVars>>

\* Mutant: the answer goes to whichever call is waiting.
ReceiveAnyone(r) ==
    \E o \in replies[r], p \in Requests :
       /\ replies' = [replies EXCEPT ![r] = @ \ {o}]
       /\ call[p] = "waiting"
       /\ call' = [call EXCEPT ![p] = o]
       /\ UNCHANGED <<brokerVars, serverVars, nodeVars>>

\* _on_reply; an answer to a call that has returned is ignored.
Receive(r) ==
    \E o \in replies[r] :
       /\ replies' = [replies EXCEPT ![r] = @ \ {o}]
       /\ call' = [call EXCEPT ![r] = IF @ = "waiting" THEN o ELSE @]
       /\ UNCHANGED <<brokerVars, serverVars, nodeVars>>

TimeOut(r) ==
    /\ call[r] = "waiting"
    /\ call' = [call EXCEPT ![r] = "silent"]
    /\ UNCHANGED <<replies, brokerVars, serverVars, nodeVars>>

-----------------------------------------------------------------------------
(* The broker and the handling of a delivery.                              *)

Held(i) == {s \in unacked : by[s] = i}

\* Mutant: the queue is consumed with no_ack.
DeliverUnacked(r, i) ==
    /\ r \in queue /\ taken[r] < MaxDeliveries
    /\ life[i] = "up" /\ i \in conn /\ Cardinality(Held(i)) < Prefetch
    /\ queue' = queue \ {r}
    /\ taken' = [taken EXCEPT ![r] = @ + 1]
    /\ at' = [at EXCEPT ![<<r, taken[r] + 1>>] = "running"]
    /\ by' = [by EXCEPT ![<<r, taken[r] + 1>>] = i]
    /\ UNCHANGED <<clientVars, unacked, shed, done, nodeVars>>

\* Every delivery is a task of its own on the instance's loop.
Deliver(r, i) ==
    /\ r \in queue /\ taken[r] < MaxDeliveries
    /\ life[i] = "up" /\ i \in conn /\ Cardinality(Held(i)) < Prefetch
    /\ queue' = queue \ {r} /\ unacked' = unacked \cup {<<r, taken[r] + 1>>}
    /\ taken' = [taken EXCEPT ![r] = @ + 1]
    /\ at' = [at EXCEPT ![<<r, taken[r] + 1>>] = "running"]
    /\ by' = [by EXCEPT ![<<r, taken[r] + 1>>] = i]
    /\ UNCHANGED <<clientVars, shed, done, nodeVars>>

Expire(r) ==
    /\ r \in queue
    /\ queue' = queue \ {r} /\ shed' = shed \cup {r}
    /\ UNCHANGED <<clientVars, unacked, serverVars, nodeVars>>

\* The handler returns, raises, or was never called: an unknown op, a bad
\* request and an unencodable response are all answered with an error.
Handle(s) ==
    /\ at[s] = "running"
    /\ \E o \in {"ok", "error"} : /\ at' = [at EXCEPT ![s] = o]
                                  /\ done' = [done EXCEPT ![s[1]] = @ \cup {o}]
    /\ UNCHANGED <<clientVars, brokerVars, taken, by, nodeVars>>

Over(s) == at' = [at EXCEPT ![s] = "over"] /\ by' = [by EXCEPT ![s] = Nobody]

\* _reply, or a publish that raises because the channel is gone. The reject
\* of a delivery that the broker has taken back raises as well.
Reply(s) ==
    /\ at[s] \in {"ok", "error"}
    /\ replies' = IF by[s] \in conn THEN [replies EXCEPT ![s[1]] = @ \cup {at[s]}]
                                    ELSE replies
    /\ IF s \in unacked THEN at' = [at EXCEPT ![s] = "replied"] /\ UNCHANGED by
                        ELSE Over(s)
    /\ UNCHANGED <<call, brokerVars, taken, done, nodeVars>>

\* The end of message.process().
Ack(s) ==
    /\ at[s] = "replied" /\ Over(s)
    /\ unacked' = unacked \ {s}
    /\ UNCHANGED <<clientVars, queue, shed, taken, done, nodeVars>>

-----------------------------------------------------------------------------
(* The instances. When a channel closes the broker puts back what was not  *)
(* acknowledged on it.                                                     *)

Requeue(i) ==
    /\ unacked' = unacked \ Held(i)
    /\ queue' = queue \cup {s[1] : s \in Held(i)}
    /\ UNCHANGED shed

Failed(i) ==
    cut' = [r \in Requests |-> IF \E s \in Held(i) : s[1] = r THEN cut[r] + 1 ELSE cut[r]]

\* The process is gone, and with it every task of it.
Dead(i) ==
    /\ at' = [s \in Slots |-> IF by[s] = i THEN "over" ELSE at[s]]
    /\ by' = [s \in Slots |-> IF by[s] = i THEN Nobody ELSE by[s]]

\* An instance id is that of one process; a restarted node is another instance.
Start(i) ==
    /\ life[i] = "off"
    /\ life' = [life EXCEPT ![i] = "up"] /\ conn' = conn \cup {i}
    /\ UNCHANGED <<clientVars, brokerVars, serverVars, cut, faults>>

\* A signal or the shutdown verb: the consumer is cancelled first.
Drain(i) ==
    /\ life[i] = "up"
    /\ life' = [life EXCEPT ![i] = "draining"]
    /\ UNCHANGED <<clientVars, brokerVars, serverVars, conn, cut, faults>>

InFlight(i) == \E s \in Slots : by[s] = i

Close(i) ==
    /\ life' = [life EXCEPT ![i] = "down"] /\ conn' = conn \ {i}
    /\ Requeue(i) /\ Dead(i)
    /\ UNCHANGED <<clientVars, taken, done, faults>>

LeaveEarly(i) == life[i] = "draining" /\ Close(i) /\ UNCHANGED cut   \* mutant: no wait

\* drain() waits for what is in flight, closes the channel, and the process ends.
Leave(i) ==
    /\ life[i] = "draining" /\ ~InFlight(i)
    /\ Close(i) /\ UNCHANGED cut

\* Past its deadline it no longer waits; asyncio.run cancels what still runs.
LeaveForced(i) ==
    /\ life[i] = "draining" /\ InFlight(i)
    /\ Close(i) /\ Failed(i)

Crash(i) ==
    /\ life[i] \in {"up", "draining"} /\ faults < MaxFaults
    /\ faults' = faults + 1 /\ life' = [life EXCEPT ![i] = "down"] /\ conn' = conn \ {i}
    /\ Failed(i) /\ Requeue(i) /\ Dead(i)
    /\ UNCHANGED <<clientVars, taken, done>>

\* The connection breaks under a running instance: its handlers go on.
Blip(i) ==
    /\ i \in conn /\ faults < MaxFaults
    /\ faults' = faults + 1 /\ conn' = conn \ {i}
    /\ Failed(i) /\ Requeue(i)
    /\ UNCHANGED <<clientVars, serverVars, life>>

\* connect_robust restores channel and consumer.
Reconnect(i) ==
    /\ life[i] \in {"up", "draining"} /\ i \notin conn
    /\ conn' = conn \cup {i}
    /\ UNCHANGED <<clientVars, brokerVars, serverVars, life, cut, faults>>

-----------------------------------------------------------------------------
ClientStep(r) == Publish(r) \/ Receive(r) \/ TimeOut(r)
ServerStep(s) == Handle(s) \/ Reply(s) \/ Ack(s)
NodeStep(i) == Start(i) \/ Drain(i) \/ Leave(i) \/ LeaveForced(i)
               \/ Crash(i) \/ Blip(i) \/ Reconnect(i)

Next ==
    \/ \E r \in Requests : ClientStep(r) \/ Expire(r) \/ \E i \in Instances : Deliver(r, i)
    \/ \E s \in Slots : ServerStep(s)
    \/ \E i \in Instances : NodeStep(i)

Spec == Init /\ [][Next]_vars

-----------------------------------------------------------------------------
(* Properties.                                                             *)

\* queues.py:125, "a request must not be lost if the handler dies
\* mid-flight": while its caller waits, a request the broker did not discard
\* is in the queue, in an instance's hands, or was run.
NotLost ==
    \A r \in Requests : call[r] = "waiting" =>
       \/ r \in queue \cup shed
       \/ \E s \in unacked : s[1] = r
       \/ done[r] # {}

\* queues.py:94, "two instances of a node compete for requests and each
\* request is answered once": a request is handed out again only after an
\* instance that had it failed or was drained past its deadline.
OncePerFault == \A r \in Requests : taken[r] <= 1 + cut[r]

\* The caller is told what became of its own request, or nothing, and a
\* request is run for a call only (RpcPromise).
Promise == INSTANCE RpcPromise
KeepsPromise == Promise!Spec
=============================================================================
