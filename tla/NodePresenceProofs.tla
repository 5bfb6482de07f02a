------------------------- MODULE NodePresenceProofs -------------------------
(***************************************************************************)
(* The registry's verdicts, for any number of instances and any timing     *)
(* within TimingAssumption.                                                *)
(*                                                                         *)
(* Fresh is the heart of the invariant: the age of a record is bounded by  *)
(* what is on its way. With no beat on its way, the last one that got      *)
(* through was taken in, so the record of a beating node is no older than  *)
(* that beat; with a beat m seconds on its way, the one before it was sent *)
(* at most Gap seconds earlier and was taken in. Either bound is within    *)
(* the TTL, so only a node with no beat to come can be declared down. That *)
(* holds as long as nothing is backed up; OnItsWay holds in any case: a    *)
(* beat is no older than the broker and a blocked monitor let it get, and  *)
(* its sender has been dead no longer than it.                             *)
(***************************************************************************)
EXTENDS NodePresence, TLAPS

Fresh(i) ==
    /\ Beating(i) => sent[i] + due[i] <= Gap
    /\ ~backlog =>
          /\ \A m \in beats[i] : m <= Delay
          /\ status[i] # "unknown" /\ Beating(i) /\ beats[i] = {} => age[i] <= sent[i]
          /\ status[i] # "unknown" /\ beats[i] # {} => \E m \in beats[i] : age[i] <= m + Gap

\* How old a message, and how long dead its sender, can be.
OnItsWay(i) ==
    /\ \A m \in beats[i] \cup leave[i] : m + stall <= Expiration + Stall
    /\ \A m \in beats[i] : dead[i] <= m
    /\ life[i] \notin {"gone", "crashed"} => dead[i] = 0

\* Records, messages and processes that exist together.
Placed(i) ==
    /\ life[i] = "off" => status[i] = "unknown" /\ beats[i] = {} /\ due[i] = 0 /\ sent[i] = 0
    /\ ~monitor => status[i] = "unknown" /\ beats[i] = {} /\ leave[i] = {} /\ ~reaped
    /\ ~backlog /\ status[i] = "down" => beats[i] = {} /\ life[i] \in {"gone", "crashed"}

\* The reaper has dealt with every record that was due in this second.
Reaped(i) ==
    /\ status[i] = "up" => age[i] + stall <= Ttl + Stall /\ (reaped => age[i] <= Ttl)
    /\ status[i] # "unknown" => age[i] + stall <= Grace + Stall /\ (reaped => age[i] <= Grace)

IInv == /\ TypeOK /\ WaiterWoken
        /\ \A i \in Instances : Fresh(i) /\ OnItsWay(i) /\ Placed(i) /\ Reaped(i)

\* The time-out of a record is a number of seconds.
LEMMA TtlType == Ttl \in Nat
<1>1. Interval \in Nat /\ MissedBeats \in Nat /\ MinTtl \in Nat
  BY NumberAssumption
<1>2. Interval * MissedBeats \in Nat
  BY <1>1
<1> QED
  BY <1>1, <1>2 DEF Ttl

\* So is the time a message may wait at the broker.
LEMMA ExpirationType == Expiration \in Nat
  BY NumberAssumption DEF Expiration

\* The constants, as the steps need them.
LEMMA Constants ==
    /\ Interval \in Nat /\ Interval > 0 /\ Grace \in Nat /\ Delay \in Nat
    /\ Gap \in Nat /\ MaxRestarts \in Nat /\ Ttl \in Nat /\ Expiration \in Nat
    /\ Stall \in Nat /\ Stall > 0
    /\ Interval <= Gap /\ Gap + Delay <= Ttl /\ Delay <= Expiration /\ Ttl + Stall < Grace
    /\ LongDead = Expiration + Stall + 1 /\ LongDead \in Nat
  BY NumberAssumption, TimingAssumption, TtlType, ExpirationType DEF LongDead

\* No instance has been started and the monitor knows none.
LEMMA InitHolds == Init => IInv
<1> SUFFICES ASSUME Init PROVE IInv
  OBVIOUS
<1>1. TypeOK
  <2> USE Constants DEF Init
  <2>1. life \in [Instances -> {"off", "up", "draining", "gone", "crashed"}]
    OBVIOUS
  <2>2. due \in [Instances -> 0..Interval] /\ sent \in [Instances -> 0..Gap]
    OBVIOUS
  <2>3. beats \in [Instances -> SUBSET (0..Expiration + Stall)] /\ leave \in [Instances -> SUBSET (0..Expiration + Stall)]
    OBVIOUS
  <2>4. monitor \in BOOLEAN /\ reaped \in BOOLEAN /\ backlog \in BOOLEAN
    OBVIOUS
  <2>8. stall \in 0..Stall /\ dead \in [Instances -> 0..LongDead]
    OBVIOUS
  <2>5. status \in [Instances -> {"unknown", "up", "down", "leaving"}]
    OBVIOUS
  <2>6. age \in [Instances -> 0..Grace + Stall] /\ restarts \in 0..MaxRestarts
    OBVIOUS
  <2>7. ask \in [Clients -> {"idle", "waiting", "done"}]
    OBVIOUS
  <2> QED
    BY <2>1, <2>2, <2>3, <2>4, <2>5, <2>6, <2>7, <2>8 DEF TypeOK
<1>2. WaiterWoken
  BY DEF Init, WaiterWoken, SomeUp
<1>3. ASSUME NEW i \in Instances PROVE Fresh(i) /\ OnItsWay(i) /\ Placed(i) /\ Reaped(i)
  BY Constants DEF Init, Fresh, OnItsWay, Placed, Reaped, Beating
<1> QED
  BY <1>1, <1>2, <1>3 DEF IInv

\* A process that starts, beats, loses a beat, announces, stops or crashes
\* leaves every record as it is and sends beats in time.
LEMMA NodeStep ==
    ASSUME IInv, NEW j \in Instances,
           Start(j) \/ Beat(j) \/ LoseBeat(j) \/ Announce(j) \/ StopBeating(j) \/ Crash(j)
    PROVE  IInv'
<1> USE Constants DEF IInv, TypeOK, WaiterWoken, SomeUp, Fresh, OnItsWay, Placed, Reaped, Beating,
        nodeVars, wireVars, Silence
<1>1. CASE Start(j)
  BY <1>1 DEF Start
<1>2. CASE Beat(j)
  BY <1>2 DEF Beat
<1>3. CASE LoseBeat(j)
  BY <1>3 DEF LoseBeat
<1>4. CASE Announce(j)
  BY <1>4 DEF Announce
<1>5. CASE StopBeating(j)
  BY <1>5 DEF StopBeating
<1>6. CASE Crash(j)
  BY <1>6 DEF Crash
<1> QED
  BY <1>1, <1>2, <1>3, <1>4, <1>5, <1>6

\* A message taken in makes its record fresh, or leaves its age alone.
LEMMA DeliverStep ==
    ASSUME IInv, NEW j \in Instances, DeliverBeat(j) \/ DeliverLeave(j)
    PROVE  IInv'
<1> USE Constants DEF IInv, TypeOK, WaiterWoken, SomeUp, Fresh, OnItsWay, Placed, Reaped, Beating,
        nodeVars, wireVars, Free
<1>1. CASE DeliverBeat(j)
  BY <1>1 DEF DeliverBeat, OnBeat, Wake
<1>2. CASE DeliverLeave(j)
  BY <1>2 DEF DeliverLeave
<1> QED
  BY <1>1, <1>2

\* The reaper declares down only who has no beat to come.
LEMMA ReapStep == ASSUME IInv, Reap PROVE IInv'
<1> USE Constants DEF IInv, TypeOK, Reap, nodeVars, wireVars, Free
<1>1. ASSUME NEW i \in Instances, Expired(i), ~backlog PROVE beats[i] = {} /\ ~Beating(i)
  BY <1>1 DEF Expired, Fresh, Beating
<1>2. ASSUME NEW i \in Instances PROVE Placed(i)'
  BY <1>1 DEF Placed, Beating, Expired
<1>3. ASSUME NEW i \in Instances PROVE Fresh(i)'
  BY DEF Fresh, Beating, Expired, Cold
<1>4. ASSUME NEW i \in Instances PROVE Reaped(i)'
  <2>1. age[i] \in Nat /\ age'[i] \in Nat /\ stall = 0 /\ stall' = 0
    OBVIOUS
  <2>2. /\ status[i] = "up" => age[i] <= Ttl + Stall
        /\ status[i] # "unknown" => age[i] <= Grace + Stall
    BY <2>1 DEF Reaped
  <2>3. /\ status'[i] = "up" => age'[i] <= Ttl
        /\ status'[i] # "unknown" => age'[i] <= Grace
    BY <2>1, <2>2 DEF Expired, Cold
  <2> QED
    BY <2>1, <2>3 DEF Reaped
<1>5. TypeOK'
  BY DEF TypeOK
<1>6. WaiterWoken'
  BY DEF WaiterWoken, SomeUp
<1>7. ASSUME NEW i \in Instances PROVE OnItsWay(i)'
  BY DEF OnItsWay
<1> QED
  BY <1>2, <1>3, <1>4, <1>5, <1>6, <1>7

\* The monitor's loop is blocked when it has nothing in hand that has expired.
LEMMA BlockStep == ASSUME IInv, Block PROVE IInv'
<1> USE Constants DEF IInv, Block, Free, nodeVars, wireVars
<1>1. stall' \in 0..Stall
  BY DEF TypeOK
<1>2. TypeOK'
  BY <1>1 DEF TypeOK
<1>3. WaiterWoken'
  BY DEF WaiterWoken, SomeUp
<1>4. ASSUME NEW i \in Instances PROVE Fresh(i)' /\ Placed(i)'
  BY DEF Fresh, Placed, Beating
<1>5. ASSUME NEW i \in Instances PROVE OnItsWay(i)'
  <2>1. ASSUME NEW m \in beats[i] \cup leave[i] PROVE m + stall' <= Expiration + Stall
    <3>1. m \in 0..Expiration
      OBVIOUS
    <3> QED
      BY <3>1, <1>1
  <2>2. UNCHANGED <<beats, leave, dead, life>>
    OBVIOUS
  <2>3. OnItsWay(i)
    OBVIOUS
  <2> HIDE DEF IInv, Block
  <2> QED
    BY <2>1, <2>2, <2>3 DEF OnItsWay
<1>6. ASSUME NEW i \in Instances PROVE Reaped(i)'
  <2>1. /\ status[i] = "up" => age[i] <= Ttl
        /\ status[i] # "unknown" => age[i] <= Grace
    <3>1. reaped /\ Reaped(i)
      OBVIOUS
    <3> HIDE DEF IInv, Block
    <3> QED
      BY <3>1, Zenon DEF Reaped
  <2>2. age[i] \in Nat /\ stall' \in Nat /\ stall' <= Stall
    BY <1>1 DEF TypeOK
  <2>3. /\ status[i] = "up" => age[i] + stall' <= Ttl + Stall
        /\ status[i] # "unknown" => age[i] + stall' <= Grace + Stall
    BY <2>1, <2>2
  <2>4. status' = status /\ age' = age
    OBVIOUS
  <2> QED
    BY <2>1, <2>3, <2>4, Zenon DEF Reaped
<1> QED
  BY <1>2, <1>3, <1>4, <1>5, <1>6

\* What is on its way a second later was on its way a second ago. With no backlog
\* to come of it, nothing expires and nothing is held up.
LEMMA Later ==
    ASSUME IInv, Tick, NEW i \in Instances
    PROVE  /\ \A m \in beats'[i] : m - 1 \in beats[i]
           /\ \A m \in leave'[i] : m - 1 \in leave[i]
           /\ \A m \in beats'[i] \cup leave'[i] : m <= Expiration \/ stall > 0
           /\ ~backlog' => /\ ~backlog /\ stall = 0
                           /\ \A m \in beats[i] : m + 1 <= Delay /\ m + 1 \in beats'[i]
<1> USE Constants DEF IInv, TypeOK
<1>1. beats[i] \subseteq Nat /\ leave[i] \subseteq Nat /\ stall \in Nat
  OBVIOUS
<1>2. CASE beats'[i] = Queued(beats[i]) /\ leave'[i] = Queued(leave[i])
  BY <1>1, <1>2 DEF Tick, Queued
<1>3. CASE stall > 0 /\ beats'[i] = Handed(beats[i]) /\ leave'[i] = Handed(leave[i])
  BY <1>1, <1>3 DEF Tick, Handed
<1> QED
  BY <1>2, <1>3 DEF Tick

\* A second that passes ages every record and every message alike.
LEMMA TickStep == ASSUME IInv, Tick PROVE IInv'
<1> USE Constants DEF IInv, TypeOK, Beating
<1>1. ASSUME NEW i \in Instances PROVE Fresh(i)'
  <2> Fresh(i)
    OBVIOUS
  <2>1. (Beating(i) => sent[i] + due[i] <= Gap)'
    BY DEF Fresh, Tick
  <2>2. ASSUME ~backlog' PROVE \A m \in beats'[i] : m <= Delay
    <3>1. \A m \in beats'[i] : m - 1 \in beats[i] /\ m \in Nat
      BY Later DEF Tick, Queued, Handed
    <3> QED
      BY <2>2, <3>1, Later
  <2>3. ASSUME ~backlog', (status[i] # "unknown" /\ Beating(i) /\ beats[i] = {})'
        PROVE  age'[i] <= sent'[i]
    <3>1. ~backlog /\ beats[i] = {}
      BY <2>3, Later
    <3> QED
      BY <2>3, <3>1 DEF Fresh, Tick
  <2>4. ASSUME ~backlog', (status[i] # "unknown" /\ beats[i] # {})'
        PROVE  (\E m \in beats[i] : age[i] <= m + Gap)'
    <3>1. ~backlog /\ beats[i] # {}
      BY <2>4, Later
    <3>2. status[i] # "unknown"
      BY <2>4 DEF Tick
    <3>3. PICK m \in beats[i] : age[i] <= m + Gap
      BY <3>1, <3>2 DEF Fresh
    <3>4. m + 1 \in beats'[i]
      BY <2>4, <3>3, Later
    <3>5. age'[i] = age[i] + 1 /\ age[i] \in Nat /\ m \in Nat
      BY <3>2, <3>3 DEF Tick
    <3> QED
      BY <3>3, <3>4, <3>5
  <2> QED
    BY <2>1, <2>2, <2>3, <2>4 DEF Fresh
<1>2. ASSUME NEW i \in Instances PROVE OnItsWay(i)'
  <2>1. \A m \in beats'[i] \cup leave'[i] : m \in Nat
    BY DEF Tick, Queued, Handed
  <2>2. ASSUME NEW m \in beats'[i] \cup leave'[i] PROVE m + stall' <= Expiration + Stall
    <3>1. m - 1 \in beats[i] \cup leave[i] /\ (m <= Expiration \/ stall > 0)
      BY <2>2, Later
    <3>2. (m - 1) + stall <= Expiration + Stall
      BY <3>1 DEF OnItsWay
    <3> QED
      BY <2>1, <2>2, <3>1, <3>2 DEF Tick
  <2>3. ASSUME NEW m \in beats'[i] PROVE dead'[i] <= m
    <3>1. dead[i] <= m - 1
      BY <2>3, Later DEF OnItsWay
    <3> QED
      BY <2>1, <2>3, <3>1 DEF Tick
  <2>4. (life[i] \notin {"gone", "crashed"} => dead[i] = 0)'
    BY DEF Tick, OnItsWay
  <2> QED
    BY <2>2, <2>3, <2>4 DEF OnItsWay
<1>3. ASSUME NEW i \in Instances PROVE Placed(i)'
  <2>1. beats[i] = {} => beats'[i] = {}
    BY Later
  <2>2. leave[i] = {} => leave'[i] = {}
    BY Later
  <2>3. ~backlog' => ~backlog
    BY Later
  <2> QED
    BY <2>1, <2>2, <2>3 DEF Placed, Tick
<1>4. ASSUME NEW i \in Instances PROVE Reaped(i)'
  BY DEF Reaped, Placed, Tick, Free
<1>5. TypeOK'
  <2>1. (due \in [Instances -> 0..Interval])' /\ (sent \in [Instances -> 0..Gap])'
    BY DEF Fresh, Tick
  <2>2. ASSUME NEW i \in Instances
        PROVE  beats'[i] \cup leave'[i] \subseteq 0..Expiration + Stall
    <3>1. \A m \in beats'[i] \cup leave'[i] : m \in Nat
      BY DEF Tick, Queued, Handed
    <3> QED
      BY <1>2, <3>1 DEF OnItsWay, Tick
  <2>3. /\ beats' = [i \in Instances |-> beats'[i]] /\ leave' = [i \in Instances |-> leave'[i]]
    BY DEF Tick
  <2>4. (beats \in [Instances -> SUBSET (0..Expiration + Stall)])'
    BY <2>2, <2>3
  <2>5. (leave \in [Instances -> SUBSET (0..Expiration + Stall)])'
    BY <2>2, <2>3
  <2>6. (age \in [Instances -> 0..Grace + Stall])'
    <3>1. ASSUME NEW i \in Instances, status[i] # "unknown" PROVE age[i] + 1 <= Grace + Stall
      BY <3>1 DEF Reaped, Tick, Free, Placed
    <3> QED
      BY <3>1 DEF Tick
  <2>7. (dead \in [Instances -> 0..LongDead])'
    BY DEF Tick
  <2>8. (stall \in 0..Stall)'
    BY DEF Tick
  <2>9. (backlog \in BOOLEAN /\ reaped \in BOOLEAN)'
    BY DEF Tick
  <2> QED
    BY <2>1, <2>4, <2>5, <2>6, <2>7, <2>8, <2>9 DEF Tick
<1>6. WaiterWoken'
  BY DEF WaiterWoken, SomeUp, Tick
<1> QED
  BY <1>1, <1>2, <1>3, <1>4, <1>5, <1>6

\* Clients and the monitor's own crash and restart.
LEMMA MonitorStep ==
    ASSUME IInv,
           MonitorCrash \/ MonitorStart \/ \E c \in Clients : WaitFor(c) \/ WaitTimeout(c)
    PROVE  IInv'
<1> USE Constants DEF IInv, TypeOK, WaiterWoken, SomeUp, Fresh, OnItsWay, Placed, Reaped, Beating,
        nodeVars, wireVars
<1>1. CASE MonitorCrash
  <2> USE <1>1 DEF MonitorCrash
  <2>1. TypeOK'
    <3>1. (beats \in [Instances -> SUBSET (0..Expiration + Stall)] /\ leave \in [Instances -> SUBSET (0..Expiration + Stall)])'
      OBVIOUS
    <3>2. (monitor \in BOOLEAN /\ reaped \in BOOLEAN)'
      OBVIOUS
    <3>6. (stall \in 0..Stall)'
      OBVIOUS
    <3>3. (status \in [Instances -> {"unknown", "up", "down", "leaving"}])'
      OBVIOUS
    <3>4. (age \in [Instances -> 0..Grace + Stall] /\ restarts \in 0..MaxRestarts)'
      OBVIOUS
    <3>5. (ask \in [Clients -> {"idle", "waiting", "done"}])'
      OBVIOUS
    <3> QED
      BY <3>1, <3>2, <3>3, <3>4, <3>5, <3>6
  <2>2. WaiterWoken'
    OBVIOUS
  <2>3. ASSUME NEW i \in Instances PROVE Fresh(i)' /\ OnItsWay(i)' /\ Placed(i)' /\ Reaped(i)'
    OBVIOUS
  <2> QED
    BY <2>1, <2>2, <2>3
<1>2. CASE MonitorStart
  BY <1>2 DEF MonitorStart
<1>3. ASSUME NEW c \in Clients, WaitFor(c) \/ WaitTimeout(c) PROVE IInv'
  <2>1. TypeOK'
    BY <1>3 DEF WaitFor, WaitTimeout
  <2>2. WaiterWoken'
    BY <1>3 DEF WaitFor, WaitTimeout
  <2>3. ASSUME NEW i \in Instances PROVE Fresh(i)' /\ OnItsWay(i)' /\ Placed(i)' /\ Reaped(i)'
    BY <1>3 DEF WaitFor, WaitTimeout
  <2> QED
    BY <2>1, <2>2, <2>3
<1> QED
  BY <1>1, <1>2, <1>3

\* The invariant is preserved by every step.
LEMMA NextStep == IInv /\ [Next]_vars => IInv'
<1> SUFFICES ASSUME IInv, [Next]_vars PROVE IInv'
  OBVIOUS
<1>1. CASE UNCHANGED vars
  BY <1>1 DEF vars, nodeVars, wireVars, IInv, TypeOK, WaiterWoken, SomeUp, Fresh, OnItsWay,
     Placed, Reaped, Beating
<1> QED
  BY <1>1, NodeStep, DeliverStep, ReapStep, BlockStep, TickStep, MonitorStep DEF Next, Clock

\* The inductive invariant of presence holds in every reachable state.
THEOREM PresenceCorrect == Spec => []IInv
  BY InitHolds, NextStep, PTL DEF Spec

\* Processes, messages and records are what their types say.
THEOREM PresenceTypeCorrect == Spec => []TypeOK
  BY PresenceCorrect, PTL DEF IInv

\* "one dropped packet is not a crash" (registry.py:22): as long as nothing is
\* backed up, a live node is never declared down, whatever the broker loses.
THEOREM NoFalseDownCorrect == Spec => []NoFalseDown
<1>1. IInv => NoFalseDown
  BY DEF IInv, Placed, NoFalseDown
<1> QED
  BY <1>1, PresenceCorrect, PTL

\* A record that says "up" is past its TTL by no more than the reaper is kept
\* from running.
THEOREM NoticedInTimeCorrect == Spec => []NoticedInTime
<1>1. ASSUME IInv, NEW i \in Instances
      PROVE  /\ status[i] = "up" => age[i] <= Ttl + Stall
             /\ status[i] # "unknown" => age[i] <= Grace + Stall
  <2>1. age[i] \in Nat /\ stall \in Nat
    BY <1>1, Constants DEF IInv, TypeOK
  <2>2. /\ status[i] = "up" => age[i] + stall <= Ttl + Stall
        /\ status[i] # "unknown" => age[i] + stall <= Grace + Stall
    BY <1>1 DEF IInv, Reaped
  <2> QED
    BY <2>1, <2>2, Constants
<1>2. IInv => NoticedInTime
  BY <1>1 DEF NoticedInTime
<1> QED
  BY <1>2, PresenceCorrect, PTL

\* wait_for never keeps a client waiting for what is there.
THEOREM WaiterCorrect == Spec => []WaiterWoken
  BY PresenceCorrect, PTL DEF IInv

\* However long its queue is backed up and its loop is blocked, the monitor does not
\* take a node for up that stopped longer ago than a beat lives (heartbeat.py:102-104).
THEOREM NoResurrectionCorrect == Spec => NoResurrection
<1>1. ASSUME IInv, [Next]_vars, NEW i \in Instances, status[i] # "up", status'[i] = "up"
      PROVE  dead[i] < LongDead
  <2>1. DeliverBeat(i)
    BY <1>1 DEF IInv, TypeOK, Next, Clock, vars, nodeVars, wireVars, Tick, Reap, Block, Beat,
       LoseBeat, DeliverBeat, OnBeat, DeliverLeave, MonitorCrash, MonitorStart, Start, Announce,
       StopBeating, Crash, WaitFor, WaitTimeout, Expired, Cold
  <2>2. PICK m \in beats[i] : dead[i] <= m /\ m + stall <= Expiration + Stall
    BY <1>1, <2>1 DEF IInv, OnItsWay, DeliverBeat
  <2> QED
    BY <1>1, <2>2, Constants DEF IInv, TypeOK
<1>2. IInv /\ [Next]_vars =>
        [\A i \in Instances : status[i] # "up" /\ status'[i] = "up" => dead[i] < LongDead]_vars
  BY <1>1
<1> QED
  BY <1>2, PresenceCorrect, PTL DEF Spec, NoResurrection
=============================================================================
