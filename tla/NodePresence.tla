---------------------------- MODULE NodePresence ----------------------------
(***************************************************************************)
(* Presence: nodes announce themselves (node/heartbeat.py, node/node.py)   *)
(* and the monitor's registry decides who is up (system/registry.py,       *)
(* system/monitor.py).                                                     *)
(*                                                                         *)
(* An instance publishes a beat every Interval seconds and a leave before  *)
(* it goes; the monitor takes the two from two queues, in any order of one *)
(* to the other. The broker drops a message that has waited Expiration     *)
(* seconds; one that the monitor has already been handed it cannot. A      *)
(* reaper expires records once a second, unless the monitor's loop is      *)
(* blocked. Time is counted in whole seconds: Tick passes one, once        *)
(* everything due in it is done.                                           *)
(* All instances are of one equipment; an instance id is never used again, *)
(* so a restarted node is another instance.                                *)
(***************************************************************************)
EXTENDS Naturals

CONSTANTS
    Instances, Clients,
    Interval,     \* seconds between two beats (2 in the code)
    MissedBeats,  \* MISSED_BEATS
    MinTtl,       \* MIN_TTL
    Grace,        \* GRACE: GRAVE_PERIOD, bounded for TLC
    Delay,        \* the longest a message is on its way when nothing is backed up
    Gap,          \* the longest that no beat of a live node gets through
    Stall,        \* the longest the monitor's loop is blocked
    MaxRestarts   \* bound: crashes of the monitor in a behaviour

\* on_heartbeat: max(interval_s * MISSED_BEATS, MIN_TTL).
Ttl == IF Interval * MissedBeats > MinTtl THEN Interval * MissedBeats ELSE MinTtl

\* _publish: a beat and a leave expire after three intervals.
Expiration == Interval * 3

ASSUME NumberAssumption ==
    /\ {Interval, MissedBeats, MinTtl, Grace, Delay, Gap, Stall, MaxRestarts} \subseteq Nat
    /\ Interval > 0 /\ Stall > 0

\* "one dropped packet is not a crash": what the broker loses, and what it delays
\* when nothing is backed up, stays within what the registry tolerates. The grave
\* period is a minute, far more than a TTL and a blocked loop.
ASSUME TimingAssumption ==
    /\ Interval <= Gap /\ Gap + Delay <= Ttl /\ Delay <= Expiration
    /\ Ttl + Stall < Grace

VARIABLES
    life,     \* what each process does
    due,      \* seconds until its heartbeat loop wakes
    sent,     \* seconds since a beat of it got through
    beats,    \* the ages of its beats on their way
    leave,    \* the age of its leave on its way, if any
    dead,     \* history: seconds since its process ended, counted up to LongDead
    monitor,  \* whether the monitor runs
    stall,    \* seconds for which the monitor's loop is still blocked
    backlog,  \* history: a message took longer than Delay, or the loop was blocked
    status,   \* its record in the registry, "unknown" without one
    age,      \* seconds since _last_seen, 0 without a record
    reaped,   \* whether the reaper has run in this second
    ask,      \* each client's wait_for
    restarts  \* crashes of the monitor so far

nodeVars == <<life, due, sent, dead>>
wireVars == <<beats, leave, backlog>>
vars == <<nodeVars, wireVars, monitor, stall, status, age, reaped, ask, restarts>>

\* A node that stopped longer ago than its last beat can be on its way.
LongDead == Expiration + Stall + 1

TypeOK ==
    /\ life \in [Instances -> {"off", "up", "draining", "gone", "crashed"}]
    /\ due \in [Instances -> 0..Interval] /\ sent \in [Instances -> 0..Gap]
    /\ beats \in [Instances -> SUBSET (0..Expiration + Stall)]
    /\ leave \in [Instances -> SUBSET (0..Expiration + Stall)]
    /\ dead \in [Instances -> 0..LongDead]
    /\ monitor \in BOOLEAN /\ reaped \in BOOLEAN /\ stall \in 0..Stall /\ backlog \in BOOLEAN
    /\ status \in [Instances -> {"unknown", "up", "down", "leaving"}]
    /\ age \in [Instances -> 0..Grace + Stall]
    /\ ask \in [Clients -> {"idle", "waiting", "done"}]
    /\ restarts \in 0..MaxRestarts

Init ==
    /\ life = [i \in Instances |-> "off"]
    /\ due = [i \in Instances |-> 0] /\ sent = [i \in Instances |-> 0]
    /\ beats = [i \in Instances |-> {}] /\ leave = [i \in Instances |-> {}]
    /\ dead = [i \in Instances |-> 0]
    /\ monitor = TRUE /\ reaped = FALSE /\ stall = 0 /\ backlog = FALSE
    /\ status = [i \in Instances |-> "unknown"]
    /\ age = [i \in Instances |-> 0]
    /\ ask = [c \in Clients |-> "idle"]
    /\ restarts = 0

-----------------------------------------------------------------------------
(* The nodes.                                                              *)

Beating(i) == life[i] \in {"up", "draining"}
Loses == Gap > Interval

Start(i) ==
    /\ life[i] = "off"
    /\ life' = [life EXCEPT ![i] = "up"]
    /\ UNCHANGED <<due, sent, dead, wireVars, monitor, stall, status, age, reaped, ask, restarts>>

\* Mutant: the loop sleeps a second too long.
BeatLate(i) ==
    /\ Beating(i) /\ due[i] = 0
    /\ due' = [due EXCEPT ![i] = Interval + 1] /\ sent' = [sent EXCEPT ![i] = 0]
    /\ beats' = IF monitor THEN [beats EXCEPT ![i] = @ \cup {0}] ELSE beats
    /\ UNCHANGED <<life, dead, leave, backlog, monitor, stall, status, age, reaped, ask, restarts>>

\* One turn of the heartbeat loop. Nobody listens while the monitor is down.
Beat(i) ==
    /\ Beating(i) /\ due[i] = 0
    /\ due' = [due EXCEPT ![i] = Interval] /\ sent' = [sent EXCEPT ![i] = 0]
    /\ beats' = IF monitor THEN [beats EXCEPT ![i] = @ \cup {0}] ELSE beats
    /\ UNCHANGED <<life, dead, leave, backlog, monitor, stall, status, age, reaped, ask, restarts>>

\* The publish fails and is logged, or the broker drops the beat.
LoseBeat(i) ==
    /\ Beating(i) /\ due[i] = 0 /\ sent[i] + Interval <= Gap
    /\ due' = [due EXCEPT ![i] = Interval]
    /\ UNCHANGED <<life, sent, dead, wireVars, monitor, stall, status, age, reaped, ask, restarts>>

\* drain(): announce_leaving awaits its publish with the loop still beating.
Announce(i) ==
    /\ life[i] = "up"
    /\ life' = [life EXCEPT ![i] = "draining"]
    /\ \/ leave' = IF monitor THEN [leave EXCEPT ![i] = {0}] ELSE leave
       \/ Loses /\ UNCHANGED leave
    /\ UNCHANGED <<due, sent, dead, beats, backlog, monitor, stall, status, age, reaped, ask,
                   restarts>>

Silence(i) == due' = [due EXCEPT ![i] = 0] /\ sent' = [sent EXCEPT ![i] = 0]

\* ... and only then stops the loop.
StopBeating(i) ==
    /\ life[i] = "draining"
    /\ life' = [life EXCEPT ![i] = "gone"] /\ Silence(i)
    /\ UNCHANGED <<dead, wireVars, monitor, stall, status, age, reaped, ask, restarts>>

Crash(i) ==
    /\ Beating(i)
    /\ life' = [life EXCEPT ![i] = "crashed"] /\ Silence(i)
    /\ UNCHANGED <<dead, wireVars, monitor, stall, status, age, reaped, ask, restarts>>

-----------------------------------------------------------------------------
(* The registry. None of its handlers awaits anything that yields. The      *)
(* event each of them emits goes to a bounded log nothing here reads.       *)

Free == monitor /\ stall = 0

\* _wake_waiters.
Wake == ask' = [c \in Clients |-> IF ask[c] = "waiting" THEN "done" ELSE ask[c]]

\* Mutant: a beat of a node that is up does not move _last_seen.
OnBeatUnrefreshed(i) ==
    /\ status' = [status EXCEPT ![i] = "up"]
    /\ age' = IF status[i] = "up" THEN age ELSE [age EXCEPT ![i] = 0]
    /\ Wake

\* Mutant: waiters are woken for a new record only.
OnBeatWakingNew(i) ==
    /\ status' = [status EXCEPT ![i] = "up"] /\ age' = [age EXCEPT ![i] = 0]
    /\ IF status[i] = "unknown" THEN Wake ELSE UNCHANGED ask

\* on_heartbeat: whatever the record said, the node is up.
OnBeat(i) ==
    /\ status' = [status EXCEPT ![i] = "up"] /\ age' = [age EXCEPT ![i] = 0]
    /\ Wake

DeliverBeat(i) ==
    /\ Free /\ \E m \in beats[i] : beats' = [beats EXCEPT ![i] = @ \ {m}]
    /\ OnBeat(i)
    /\ UNCHANGED <<nodeVars, leave, backlog, monitor, stall, reaped, restarts>>

\* on_leaving changes the status only; _last_seen stays.
DeliverLeave(i) ==
    /\ Free /\ leave[i] # {}
    /\ leave' = [leave EXCEPT ![i] = {}]
    /\ status' = [status EXCEPT ![i] = IF @ = "unknown" THEN @ ELSE "leaving"]
    /\ UNCHANGED <<nodeVars, beats, backlog, monitor, stall, age, reaped, ask, restarts>>

Expired(i) == status[i] = "up" /\ age[i] > Ttl
ColdDown(i) == status[i] = "down" /\ age[i] > Grace      \* mutant: LEAVING stays
Cold(i)    == status[i] \in {"down", "leaving"} /\ age[i] > Grace

\* Marks the silent down and forgets the cold, all in one go.
Reap ==
    /\ Free /\ ~reaped
    /\ reaped' = TRUE
    /\ status' = [i \in Instances |-> IF Expired(i) THEN "down"
                                      ELSE IF Cold(i) THEN "unknown" ELSE status[i]]
    /\ age' = [i \in Instances |-> IF Cold(i) THEN 0 ELSE age[i]]
    /\ UNCHANGED <<nodeVars, wireVars, monitor, stall, ask, restarts>>

SomeUp == \E i \in Instances : status[i] = "up"

WaitFor(c) ==
    /\ Free /\ ask[c] = "idle"
    /\ ask' = [ask EXCEPT ![c] = IF SomeUp THEN "done" ELSE "waiting"]
    /\ UNCHANGED <<nodeVars, wireVars, monitor, stall, status, age, reaped, restarts>>

WaitTimeout(c) ==
    /\ Free /\ ask[c] = "waiting"
    /\ ask' = [ask EXCEPT ![c] = "done"]
    /\ UNCHANGED <<nodeVars, wireVars, monitor, stall, status, age, reaped, restarts>>

\* The registry lives in memory and its queues are exclusive.
MonitorCrash ==
    /\ monitor /\ restarts < MaxRestarts
    /\ monitor' = FALSE /\ restarts' = restarts + 1
    /\ beats' = [i \in Instances |-> {}] /\ leave' = [i \in Instances |-> {}]
    /\ status' = [i \in Instances |-> "unknown"] /\ age' = [i \in Instances |-> 0]
    /\ reaped' = FALSE /\ stall' = 0
    /\ ask' = [c \in Clients |-> IF ask[c] = "waiting" THEN "done" ELSE ask[c]]
    /\ UNCHANGED <<nodeVars, backlog>>

MonitorStart ==
    /\ ~monitor
    /\ monitor' = TRUE
    /\ UNCHANGED <<nodeVars, wireVars, stall, status, age, reaped, ask, restarts>>

\* A handler, or the host, keeps the monitor's loop from running. It has taken in
\* what it was handed before.
Block ==
    /\ Free /\ reaped /\ \A i \in Instances : beats[i] \cup leave[i] \subseteq 0..Expiration
    /\ stall' \in 1..Stall
    /\ UNCHANGED <<nodeVars, wireVars, monitor, status, age, reaped, ask, restarts>>

-----------------------------------------------------------------------------
(* The messages on their way a second later. The broker drops what has      *)
(* expired in its queue; what it has handed to a blocked monitor stays.     *)

\* Mutant: published without an expiration.
QueuedForGood(ages) == {m + 1 : m \in ages} \cap 0..LongDead
Queued(ages) == {m + 1 : m \in ages} \cap 0..Expiration
Handed(ages) == {m + 1 : m \in ages}

\* A second passes: every loop that was due and is not blocked has run.
Tick ==
    /\ \A i \in Instances : Beating(i) => due[i] > 0
    /\ Free => reaped
    /\ due' = [i \in Instances |-> IF Beating(i) THEN due[i] - 1 ELSE due[i]]
    /\ sent' = [i \in Instances |-> IF Beating(i) THEN sent[i] + 1 ELSE sent[i]]
    /\ dead' = [i \in Instances |-> IF life[i] \in {"gone", "crashed"} /\ dead[i] < LongDead
                                 THEN dead[i] + 1 ELSE dead[i]]
    /\ \/ /\ beats' = [i \in Instances |-> Queued(beats[i])]
          /\ leave' = [i \in Instances |-> Queued(leave[i])]
       \/ /\ stall > 0
          /\ beats' = [i \in Instances |-> Handed(beats[i])]
          /\ leave' = [i \in Instances |-> Handed(leave[i])]
    /\ backlog' = (\/ backlog \/ stall > 0
                   \/ \E i \in Instances : \E m \in beats[i] \cup leave[i] : m >= Delay)
    /\ age' = [i \in Instances |-> IF status[i] # "unknown" THEN age[i] + 1 ELSE age[i]]
    /\ stall' = IF stall > 0 THEN stall - 1 ELSE 0
    /\ reaped' = FALSE
    /\ UNCHANGED <<life, monitor, status, ask, restarts>>

Clock == \/ Tick \/ Reap \/ Block
         \/ \E i \in Instances : Beat(i) \/ LoseBeat(i) \/ DeliverBeat(i) \/ DeliverLeave(i)

Next == \/ Clock \/ MonitorCrash \/ MonitorStart
        \/ \E i \in Instances : Start(i) \/ Announce(i) \/ StopBeating(i) \/ Crash(i)
        \/ \E c \in Clients : WaitFor(c) \/ WaitTimeout(c)

Spec == Init /\ [][Next]_vars
-----------------------------------------------------------------------------
(* Properties.                                                             *)

\* registry.py:22, "one dropped packet is not a crash": as long as nothing has been
\* backed up, no live node is recorded as down.
NoFalseDown ==
    ~backlog => \A i \in Instances : status[i] = "down" => life[i] \in {"gone", "crashed"}

\* heartbeat.py:102, a heartbeat in a backed-up queue must not "resurrect a node
\* that is long dead": whatever is delayed, no record goes up for an instance that
\* stopped longer ago than a beat lives in the queue and then in a blocked monitor.
\* (A beat taken in sooner does bring back an instance declared down meanwhile.)
NoResurrection ==
    [][\A i \in Instances : status[i] # "up" /\ status'[i] = "up" => dead[i] < LongDead]_vars

\* wait_for never leaves a client waiting while an instance is up.
WaiterWoken == (\E c \in Clients : ask[c] = "waiting") => ~SomeUp

\* Silence is noticed in time: no record says "up" longer after its TTL than the
\* reaper may be kept from running, and none outlives its grave period by more.
NoticedInTime ==
    \A i \in Instances :
       /\ status[i] = "up" => age[i] <= Ttl + Stall
       /\ status[i] # "unknown" => age[i] <= Grace + Stall

-----------------------------------------------------------------------------
(* What a comment says and the code does not keep: TLC finds it violated    *)
(* once a node leaves while a beat of its is on the way.                    *)

\* node.py:153, drain() says goodbye "so the monitor marks us as a clean stop
\* rather than waiting for the heartbeat to expire and calling it a crash".
CleanStopRecorded == \A i \in Instances : status[i] = "down" => life[i] = "crashed"
=============================================================================
