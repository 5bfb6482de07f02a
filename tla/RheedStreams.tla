----------------------------- MODULE RheedStreams -----------------------------
(***************************************************************************)
(* The streams of the RHEED node: the camera thread that fans a frame out  *)
(* (base/camera/generic_camera.py), the video compressor                   *)
(* (base/camera/video_stream.py) and the box integrator                    *)
(* (rheed/integrator.py), each a thread with a bounded output queue, and   *)
(* the node's event loop, which changes the boxes (rheed/handlers.py) and  *)
(* publishes what is in the queues (base/mq/server.py, _stream_loop).      *)
(*                                                                         *)
(* A thread may be interrupted between any two of its actions; the event   *)
(* loop runs one handler at a time and leaves a stream item only while it  *)
(* is being published. The camera's own stream and the STFT are left out.  *)
(***************************************************************************)
EXTENDS Naturals, Sequences, FiniteSets

CONSTANTS
    Boxes,       \* boxes a client may register
    BadBoxes,    \* those outside the picture
    QueueSize,   \* of the camera's fan-out queues
    FragSize,    \* fragment_queue_size
    OutSize,     \* output_queue_size of the integrator
    Cached,      \* cached_startup_fragments
    MaxFrames,   \* bound: frames in a fan-out queue over time
    Limits,      \* bound: frames the two queues get, a behaviour has one of these
    MaxFailures  \* bound: failures of the encoder

ASSUME BoxAssumption == BadBoxes \subseteq Boxes /\ IsFiniteSet(Boxes)
ASSUME SizeAssumption ==
    /\ {QueueSize, FragSize, OutSize} \subseteq Nat \ {0}
    /\ {Cached, MaxFrames, MaxFailures} \subseteq Nat

Streams == {"video", "integrator"}

ASSUME LimitAssumption == Limits \subseteq [Streams -> 0..MaxFrames]

None == <<>>

VARIABLES
    limit,      \* bound: frames the queues get
    given,      \* frames the queues got so far
    videoQ,     \* the compressor's queue of frames
    boxQ,       \* the integrator's queue of frames
    enc,        \* the compressor: where it is, which container, fragments cut
    frags,      \* compressor.fragments
    startup,    \* compressor.startup_fragments
    int,        \* the integrator: where it is, its frame and its boxes
    out,        \* integrator.output_queue
    boxes,      \* integrator.bboxes
    caches,     \* the keys of integrator.bboxes_integration_cache
    loop,       \* the handler the event loop is in, and its box
    streaming,  \* the streams that are on
    item,       \* what each stream loop is publishing
    wire        \* what each stream published last

encVars == <<enc, frags, startup>>
boxVars == <<boxes, caches>>
loopVars == <<streaming, item, wire>>
vars == <<limit, given, videoQ, boxQ, encVars, int, out, boxVars, loop, loopVars>>

\* A fragment is its container and its number in it, a sample is its frame.
Fragment == (0..MaxFailures) \X (1..MaxFrames)
Sample == {<<n>> : n \in 1..MaxFrames}
Busy == {"register", "remove"} \X Boxes

TypeOK ==
    /\ limit \in Limits /\ given \in [Streams -> 0..MaxFrames]
    /\ videoQ \in Seq(1..MaxFrames) /\ Len(videoQ) <= QueueSize
    /\ boxQ \in Seq(1..MaxFrames) /\ Len(boxQ) <= QueueSize
    /\ enc \in [pc : {"encoding", "putting", "evicting", "failed", "clearing", "getting", "dead"},
                gen : 0..MaxFailures, cut : 0..MaxFrames]
    /\ frags \in Seq(Fragment) /\ Len(frags) <= FragSize
    /\ startup \in Seq(Fragment) /\ Len(startup) <= Cached
    /\ int \in [pc : {"idle", "got", "copying", "integrating", "putting", "dead"},
                frame : 0..MaxFrames, todo : SUBSET Boxes, quiet : BOOLEAN]
    /\ out \in Seq(Sample) /\ Len(out) <= OutSize
    /\ boxes \subseteq Boxes /\ caches \subseteq Boxes
    /\ loop \in Busy \cup {None}
    /\ streaming \subseteq Streams
    /\ item \in [Streams -> Fragment \cup Sample \cup {None}]
    /\ wire \in [Streams -> Fragment \cup Sample \cup {None}]

Init ==
    /\ limit \in Limits /\ given = [s \in Streams |-> 0]
    /\ videoQ = <<>> /\ boxQ = <<>>
    /\ enc = [pc |-> "encoding", gen |-> 0, cut |-> 0]
    /\ frags = <<>> /\ startup = <<>>
    /\ int = [pc |-> "idle", frame |-> 0, todo |-> {}, quiet |-> TRUE]
    /\ out = <<>> /\ boxes = {} /\ caches = {}
    /\ loop = None /\ streaming = {}
    /\ item = [s \in Streams |-> None] /\ wire = [s \in Streams |-> None]

-----------------------------------------------------------------------------
(* The camera. A full queue does not get the frame.                        *)

Gets(q, s) == Len(q) < QueueSize /\ given[s] < limit[s]
Fan(q, s) == IF Gets(q, s) THEN Append(q, given[s] + 1) ELSE q

Grab ==
    /\ videoQ' = Fan(videoQ, "video") /\ boxQ' = Fan(boxQ, "integrator")
    /\ given' = [s \in Streams |-> given[s] +
                   IF Gets(IF s = "video" THEN videoQ ELSE boxQ, s) THEN 1 ELSE 0]
    /\ UNCHANGED <<limit, encVars, int, out, boxVars, loop, loopVars>>

-----------------------------------------------------------------------------
(* The compressor.                                                         *)

EncRest == UNCHANGED <<limit, given, boxQ, int, out, boxVars, loop, loopVars>>
Newest == <<enc.gen, enc.cut - 1>>

\* A frame that completes no fragment.
Encode ==
    /\ enc.pc = "encoding" /\ videoQ # <<>> /\ videoQ' = Tail(videoQ)
    /\ UNCHANGED encVars /\ EncRest

\* A keyframe completes one. The first of a container is not given out, and
\* the next ones are kept for clients that join later.
Cut ==
    /\ enc.pc = "encoding" /\ videoQ # <<>> /\ videoQ' = Tail(videoQ)
    /\ enc' = [enc EXCEPT !.cut = @ + 1, !.pc = IF enc.cut > 0 THEN "putting" ELSE @]
    /\ startup' = IF enc.cut \in 1..Cached - 1 THEN Append(startup, <<enc.gen, enc.cut>>)
                  ELSE startup
    /\ UNCHANGED frags /\ EncRest

PutDroppingNew ==   \* mutant: a full queue does not get the fragment
    /\ enc.pc = "putting" /\ enc' = [enc EXCEPT !.pc = "encoding"]
    /\ frags' = IF Len(frags) < FragSize THEN Append(frags, Newest) ELSE frags
    /\ UNCHANGED <<videoQ, startup>> /\ EncRest

\* _put_fragment: with a full queue the oldest makes room.
Put ==
    /\ enc.pc = "putting"
    /\ IF Len(frags) < FragSize
       THEN frags' = Append(frags, Newest) /\ enc' = [enc EXCEPT !.pc = "encoding"]
       ELSE UNCHANGED frags /\ enc' = [enc EXCEPT !.pc = "evicting"]
    /\ UNCHANGED <<videoQ, startup>> /\ EncRest

Evict ==
    /\ enc.pc = "evicting" /\ enc' = [enc EXCEPT !.pc = "encoding"]
    /\ frags' = Append(IF frags = <<>> THEN frags ELSE Tail(frags), Newest)
    /\ UNCHANGED <<videoQ, startup>> /\ EncRest

\* Encoding or muxing raises; run() catches it and backs off.
Break ==
    /\ enc.pc = "encoding" /\ videoQ # <<>> /\ videoQ' = Tail(videoQ)
    /\ enc.gen < MaxFailures /\ enc' = [enc EXCEPT !.pc = "failed"]
    /\ UNCHANGED <<frags, startup>> /\ EncRest

BackOffEnding ==   \* mutant: the thread ends with its exception
    /\ enc.pc = "failed" /\ enc' = [enc EXCEPT !.pc = "dead"]
    /\ UNCHANGED <<videoQ, frags, startup>> /\ EncRest

BackOff ==
    /\ enc.pc = "failed" /\ enc' = [enc EXCEPT !.pc = "clearing"]
    /\ UNCHANGED <<videoQ, frags, startup>> /\ EncRest

Rebuilt == [pc |-> "encoding", gen |-> enc.gen + 1, cut |-> 0]

ClearKeeping ==   \* mutant: the cached fragments outlive their container
    /\ enc.pc = "clearing"
    /\ enc' = IF frags = <<>> THEN Rebuilt ELSE [enc EXCEPT !.pc = "getting"]
    /\ UNCHANGED <<videoQ, frags, startup>> /\ EncRest

\* _reset_encoder_state: while the queue is not empty, take from it ...
Clear ==
    /\ enc.pc = "clearing"
    /\ IF frags = <<>> THEN enc' = Rebuilt /\ startup' = <<>>
                       ELSE enc' = [enc EXCEPT !.pc = "getting"] /\ UNCHANGED startup
    /\ UNCHANGED <<videoQ, frags>> /\ EncRest

\* ... with a get() that waits. Nobody but this thread puts.
ClearGet ==
    /\ enc.pc = "getting" /\ frags # <<>> /\ frags' = Tail(frags)
    /\ enc' = [enc EXCEPT !.pc = "clearing"]
    /\ UNCHANGED <<videoQ, startup>> /\ EncRest

-----------------------------------------------------------------------------
(* The integrator. Nothing catches an exception of its thread.             *)

IntRest == UNCHANGED <<limit, given, videoQ, encVars, boxVars, loop, loopVars>>

GetImage ==
    /\ int.pc = "idle" /\ boxQ # <<>> /\ boxes # {}
    /\ boxQ' = Tail(boxQ)
    /\ int' = [pc |-> "got", frame |-> Head(boxQ), todo |-> {}, quiet |-> loop = None]
    /\ UNCHANGED out /\ IntRest

\* copy.deepcopy(self.bboxes) goes through the dict in Python and raises if
\* its size changes meanwhile.
Copy ==
    /\ int.pc = "got" /\ int' = [int EXCEPT !.pc = "copying", !.todo = boxes]
    /\ UNCHANGED <<boxQ, out>> /\ IntRest

Copied ==
    /\ int.pc = "copying"
    /\ int' = [int EXCEPT !.pc = IF Cardinality(boxes) = Cardinality(int.todo)
                                 THEN "integrating" ELSE "dead"]
    /\ UNCHANGED <<boxQ, out>> /\ IntRest

\* An empty area has no maximum, a box without its cache no place to go.
Integrate(b) ==
    /\ int.pc = "integrating" /\ b \in int.todo
    /\ int' = IF b \in BadBoxes \/ b \notin caches
              THEN [int EXCEPT !.pc = "dead"] ELSE [int EXCEPT !.todo = @ \ {b}]
    /\ UNCHANGED <<boxQ, out>> /\ IntRest

Yield ==
    /\ int.pc = "integrating" /\ int.todo = {} /\ int' = [int EXCEPT !.pc = "putting"]
    /\ UNCHANGED <<boxQ, out>> /\ IntRest

\* output_queue.put waits for room.
PutSample ==
    /\ int.pc = "putting" /\ Len(out) < OutSize
    /\ out' = Append(out, <<int.frame>>) /\ int' = [int EXCEPT !.pc = "idle"]
    /\ UNCHANGED boxQ /\ IntRest

-----------------------------------------------------------------------------
(* The event loop.                                                         *)

LoopRest == UNCHANGED <<limit, given, videoQ, boxQ, enc, startup>>
Disturb == int' = [int EXCEPT !.quiet = FALSE]

\* register_bbox: the box, then its cache.
Register(b) ==
    /\ loop = None /\ loop' = <<"register", b>>
    /\ boxes' = boxes \cup {b} /\ Disturb
    /\ UNCHANGED <<frags, out, caches, loopVars>> /\ LoopRest

RegisterUncached ==   \* mutant: the cache is not made
    /\ loop # None /\ loop[1] = "register" /\ loop' = None /\ Disturb
    /\ UNCHANGED <<frags, out, boxVars, loopVars>> /\ LoopRest

RegisterCache ==
    /\ loop # None /\ loop[1] = "register" /\ loop' = None
    /\ caches' = caches \cup {loop[2]} /\ Disturb
    /\ UNCHANGED <<frags, out, boxes, loopVars>> /\ LoopRest

Remove(b) ==
    /\ loop = None /\ b \in boxes /\ loop' = <<"remove", b>>
    /\ boxes' = boxes \ {b} /\ Disturb
    /\ UNCHANGED <<frags, out, caches, loopVars>> /\ LoopRest

RemoveCache ==
    /\ loop # None /\ loop[1] = "remove" /\ loop' = None
    /\ caches' = caches \ {loop[2]} /\ Disturb
    /\ UNCHANGED <<frags, out, boxes, loopVars>> /\ LoopRest

\* The flag is the server's: any client turns it on or off for all.
Start(s) ==
    /\ loop = None /\ s \notin streaming /\ streaming' = streaming \cup {s}
    /\ UNCHANGED <<frags, int, out, boxVars, loop, item, wire>> /\ LoopRest

Stop(s) ==
    /\ loop = None /\ s \in streaming /\ streaming' = streaming \ {s}
    /\ UNCHANGED <<frags, int, out, boxVars, loop, item, wire>> /\ LoopRest

NextVideo ==
    /\ loop = None /\ "video" \in streaming /\ item["video"] = None /\ frags # <<>>
    /\ item' = [item EXCEPT !["video"] = Head(frags)] /\ frags' = Tail(frags)
    /\ UNCHANGED <<int, out, boxVars, loop, streaming, wire>> /\ LoopRest

NextSample ==
    /\ loop = None /\ "integrator" \in streaming /\ item["integrator"] = None /\ out # <<>>
    /\ item' = [item EXCEPT !["integrator"] = Head(out)] /\ out' = Tail(out)
    /\ UNCHANGED <<frags, int, boxVars, loop, streaming, wire>> /\ LoopRest

Publish(s) ==
    /\ loop = None /\ item[s] # None
    /\ wire' = [wire EXCEPT ![s] = item[s]] /\ item' = [item EXCEPT ![s] = None]
    /\ UNCHANGED <<frags, int, out, boxVars, loop, streaming>> /\ LoopRest

PublishFailsKeeping(s) ==   \* mutant: the item goes back into its queue
    /\ loop = None /\ item[s] # None /\ item' = [item EXCEPT ![s] = None]
    /\ IF s = "video" /\ Len(frags) < FragSize
       THEN frags' = Append(frags, item[s]) ELSE UNCHANGED frags
    /\ UNCHANGED <<int, out, boxVars, loop, streaming, wire>> /\ LoopRest

\* The channel is closed under it: the item is dropped, the loop goes on.
PublishFails(s) ==
    /\ loop = None /\ item[s] # None /\ item' = [item EXCEPT ![s] = None]
    /\ UNCHANGED <<frags, int, out, boxVars, loop, streaming, wire>> /\ LoopRest

-----------------------------------------------------------------------------
Encoder == Encode \/ Cut \/ Put \/ Evict \/ Break \/ BackOff \/ Clear \/ ClearGet

Integrator ==
    \/ GetImage \/ Copy \/ Copied \/ Yield \/ PutSample
    \/ \E b \in Boxes : Integrate(b)

EventLoop ==
    \/ RegisterCache \/ RemoveCache \/ NextVideo \/ NextSample
    \/ \E b \in Boxes : Register(b) \/ Remove(b)
    \/ \E s \in Streams : Start(s) \/ Stop(s) \/ Publish(s) \/ PublishFails(s)

Next == Grab \/ Encoder \/ Integrator \/ EventLoop

Spec == Init /\ [][Next]_vars

\* The threads run; frames may stop coming and clients may do nothing.
FairSpec == Spec /\ WF_vars(Encoder)

-----------------------------------------------------------------------------
(* Properties.                                                             *)

\* Of two containers the later, of two fragments or samples the later.
Newer(x, y) ==
    \/ y = None
    \/ x[1] > y[1]
    \/ Len(x) = 2 /\ x[1] = y[1] /\ x[2] > y[2]

\* server.py:446, "a live stream has nothing to gain from retrying a stale
\* one": whatever is dropped, evicted, rebuilt or not published, a stream goes
\* forward only.
StreamsForward == [][\A s \in Streams : Publish(s) => Newer(item[s], wire[s])]_vars

\* video_stream.py:296, "Serving a stale init segment is worse than serving
\* none": the fragments a client that joins is given are of the container of
\* every fragment it can get from then on, unless that one has failed since.
InitCurrent ==
    \A n \in DOMAIN startup :
       \A x \in {frags[k] : k \in DOMAIN frags} \cup {item["video"], wire["video"]} :
          x # None => startup[n][1] >= x[1] /\ startup[n][1] = startup[1][1]

\* video_stream.py:311, "the stale fragment is the one to discard, not the new
\* one": a fragment that was cut is the last in the queue until it is taken.
NewestKept ==
    enc.pc = "encoding" /\ enc.cut > 1 =>
       \/ frags # <<>> /\ frags[Len(frags)] = Newest
       \/ frags = <<>> /\ (item["video"] = Newest \/ item["video"] = None)

Parked == enc.pc = "getting" /\ frags = <<>>

\* video_stream.py:261, run() rebuilds the encoder so that one bad packet does
\* not end the feed until "a full process restart". It does, unless the event
\* loop takes the last fragment between empty() and get().
EncoderRecovers == enc.pc = "failed" ~> enc.pc = "encoding" \/ Parked

\* integrator.py:99, "bbox might change when iterating": the thread ends for a
\* box outside the picture, or when a handler changed the boxes while it was
\* at a frame, and for nothing else.
IntegratorLives == int.pc = "dead" => ~int.quiet \/ int.todo \cap BadBoxes # {}
=============================================================================
