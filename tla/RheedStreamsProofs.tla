-------------------------- MODULE RheedStreamsProofs ---------------------------
(***************************************************************************)
(* Theorems about RheedStreams: type correctness, the order of the video   *)
(* and of the integrator's stream, the start-up fragments, the newest      *)
(* fragment, and what ends the integrator's thread; for any queue sizes,   *)
(* boxes, numbers of frames and failures.                                  *)
(***************************************************************************)
EXTENDS RheedStreams, TLAPS

\* The constants, as the steps need them.
LEMMA Sizes ==
    /\ QueueSize \in Nat \ {0} /\ FragSize \in Nat \ {0} /\ OutSize \in Nat \ {0}
    /\ Cached \in Nat /\ MaxFrames \in Nat /\ MaxFailures \in Nat
BY SizeAssumption

\* The queues get at most MaxFrames frames.
LEMMA LimitFacts == limit \in Limits => limit \in [Streams -> 0..MaxFrames]
BY LimitAssumption

\* What is taken from a queue, and what is left of it.
LEMMA HeadTail ==
    ASSUME NEW S, NEW q \in Seq(S), q # <<>>
    PROVE  /\ Tail(q) \in Seq(S) /\ Len(Tail(q)) = Len(q) - 1 /\ Len(q) \in Nat \ {0}
           /\ Head(q) \in S /\ Head(q) = q[1]
           /\ \A n \in 1..Len(Tail(q)) : Tail(q)[n] = q[n + 1] /\ n + 1 \in 1..Len(q)
OBVIOUS

\* A queue that something was put into.
LEMMA AppendFacts ==
    ASSUME NEW S, NEW q \in Seq(S), NEW x \in S
    PROVE  /\ Append(q, x) \in Seq(S) /\ Len(Append(q, x)) = Len(q) + 1 /\ Len(q) \in Nat
           /\ Append(q, x) # <<>> /\ Append(q, x)[Len(q) + 1] = x
           /\ \A n \in 1..Len(q) : Append(q, x)[n] = q[n]
OBVIOUS

-----------------------------------------------------------------------------
(* Type correctness. A fragment is of the container at work or an earlier  *)
(* one and took a frame of its own, hence the numbers stay within bounds.  *)

\* What each stream carries.
Carried ==
    /\ item["video"] \in Fragment \cup {None} /\ wire["video"] \in Fragment \cup {None}
    /\ item["integrator"] \in Sample \cup {None} /\ wire["integrator"] \in Sample \cup {None}

Counted ==
    /\ \A s \in Streams : given[s] <= limit[s]
    /\ enc.cut + Len(videoQ) <= given["video"]
    /\ enc.pc \in {"putting", "evicting"} => enc.cut >= 2
    /\ enc.pc \in {"failed", "clearing", "getting"} => enc.gen < MaxFailures
    /\ Len(startup) <= enc.cut /\ (enc.cut > 0 => Len(startup) < enc.cut)
    /\ int.pc \in {"got", "copying", "integrating", "putting"} => int.frame > 0

Typed == TypeOK /\ Carried /\ Counted

\* A frame is given to the queues that have room.
LEMMA GrabTyped == ASSUME Typed, Grab PROVE Typed'
<1> USE Sizes DEF Typed, Grab, encVars, boxVars, loopVars
<1>0. /\ limit \in [Streams -> 0..MaxFrames] /\ given \in [Streams -> 0..MaxFrames]
      /\ "video" \in Streams /\ "integrator" \in Streams
      /\ \A s \in Streams : /\ limit[s] \in 0..MaxFrames /\ given[s] \in 0..MaxFrames
                            /\ given[s] <= limit[s] /\ limit'[s] = limit[s]
  BY LimitFacts DEF TypeOK, Counted, Streams
<1>1. /\ given' \in [Streams -> 0..MaxFrames] /\ \A s \in Streams : given'[s] <= limit'[s]
      /\ given'["video"] >= given["video"]
  BY <1>0, SMTT(30) DEF Gets
<1>2. /\ videoQ' \in Seq(1..MaxFrames) /\ Len(videoQ') <= QueueSize
      /\ \/ Len(videoQ') = Len(videoQ) /\ given'["video"] = given["video"]
         \/ Len(videoQ') = Len(videoQ) + 1 /\ given'["video"] = given["video"] + 1
  <2>1. CASE Gets(videoQ, "video")
    <3> DEFINE n == given["video"] + 1
    <3>1. n \in 1..MaxFrames /\ given'["video"] = n
      BY <1>0, <2>1 DEF Gets
    <3>2. Append(videoQ, n) \in Seq(1..MaxFrames) /\ Len(Append(videoQ, n)) = Len(videoQ) + 1
          /\ Len(videoQ) \in Nat
      BY <3>1, AppendFacts DEF TypeOK
    <3>3. videoQ' = Append(videoQ, n)
      BY <2>1 DEF Fan
    <3>4. Len(videoQ) < QueueSize /\ QueueSize \in Nat
      BY <2>1 DEF Gets
    <3> HIDE DEF n, Grab
    <3> QED BY ONLY <3>1, <3>2, <3>3, <3>4 DEF n
  <2>2. CASE ~Gets(videoQ, "video")
    BY <1>0, <2>2, SMTT(30) DEF TypeOK, Fan
  <2> QED BY <2>1, <2>2
<1>3. boxQ' \in Seq(1..MaxFrames) /\ Len(boxQ') <= QueueSize
  <2>1. given["integrator"] < limit["integrator"] => given["integrator"] + 1 \in 1..MaxFrames
    BY <1>0
  <2>2. CASE Gets(boxQ, "integrator")
    BY <1>0, <2>1, <2>2, AppendFacts DEF TypeOK, Fan, Gets
  <2>3. CASE ~Gets(boxQ, "integrator")
    BY <1>0, <2>3 DEF TypeOK, Fan
  <2> QED BY <2>2, <2>3
<1>4. TypeOK'
  BY <1>1, <1>2, <1>3 DEF TypeOK
<1>5. Carried'
  BY DEF Carried
<1>6. Counted'
  <2>1. Len(videoQ) \in Nat /\ enc.cut \in Nat /\ given["video"] \in Nat
    BY <1>0 DEF TypeOK
  <2>2. enc.cut + Len(videoQ') <= given'["video"]
    BY <1>2, <2>1, SMTT(30) DEF Counted
  <2> QED BY <1>1, <2>2 DEF Counted
<1> QED BY <1>4, <1>5, <1>6

\* The numbers the encoder counts with.
LEMMA EncoderNumbers ==
    ASSUME Typed
    PROVE    /\ enc.cut \in 0..MaxFrames /\ enc.gen \in 0..MaxFailures
             /\ Len(videoQ) \in Nat /\ Len(frags) \in Nat /\ Len(startup) \in Nat
             /\ given["video"] \in 0..MaxFrames /\ enc.cut + Len(videoQ) <= given["video"]
             /\ MaxFrames \in Nat /\ MaxFailures \in Nat /\ FragSize \in Nat \ {0} /\ Cached \in Nat
<1> USE Sizes DEF Typed
<1>1. enc.cut \in 0..MaxFrames /\ enc.gen \in 0..MaxFailures
  BY DEF TypeOK
<1>2. Len(videoQ) \in Nat /\ Len(frags) \in Nat /\ Len(startup) \in Nat
  BY DEF TypeOK
<1>3. given["video"] \in 0..MaxFrames
  BY DEF TypeOK, Streams
<1>4. enc.cut + Len(videoQ) <= given["video"]
  BY DEF Counted
<1> QED BY <1>1, <1>2, <1>3, <1>4

EncStates ==
    [pc : {"encoding", "putting", "evicting", "failed", "clearing", "getting", "dead"},
     gen : 0..MaxFailures, cut : 0..MaxFrames]

\* What it leaves alone is as it was.
LEMMA EncoderKeeps ==
    ASSUME Typed
    PROVE  /\ videoQ \in Seq(1..MaxFrames) /\ enc \in EncStates
           /\ frags \in Seq(Fragment) /\ Len(frags) <= FragSize
           /\ startup \in Seq(Fragment) /\ Len(startup) <= Cached
           /\ Len(startup) <= enc.cut /\ (enc.cut > 0 => Len(startup) < enc.cut)
           /\ enc.pc \in {"putting", "evicting"} => enc.cut >= 2
           /\ enc.pc \in {"failed", "clearing", "getting"} => enc.gen < MaxFailures
BY DEF Typed, TypeOK, Counted, EncStates

\* A step of the encoder touches its own state only.
LEMMA EncoderTyped ==
    ASSUME Typed, EncRest,
           videoQ' \in Seq(1..MaxFrames), Len(videoQ') <= Len(videoQ),
           enc' \in EncStates,
           frags' \in Seq(Fragment), Len(frags') <= FragSize,
           startup' \in Seq(Fragment), Len(startup') <= Cached,
           enc'.cut + Len(videoQ') <= enc.cut + Len(videoQ),
           enc'.pc \in {"putting", "evicting"} => enc'.cut >= 2,
           enc'.pc \in {"failed", "clearing", "getting"} => enc'.gen < MaxFailures,
           Len(startup') <= enc'.cut, enc'.cut > 0 => Len(startup') < enc'.cut
    PROVE  Typed'
<1>1. TypeOK'
  <2>1. Len(videoQ') \in Nat
    OBVIOUS
  <2>2. Len(videoQ) \in Nat /\ Len(videoQ) <= QueueSize /\ QueueSize \in Nat
    BY Sizes, EncoderNumbers DEF Typed, TypeOK
  <2>3. Len(videoQ') <= QueueSize
    BY <2>1, <2>2
  <2>4. /\ limit' \in Limits /\ given' \in [Streams -> 0..MaxFrames]
        /\ boxQ' \in Seq(1..MaxFrames) /\ Len(boxQ') <= QueueSize
    BY DEF Typed, TypeOK, EncRest
  <2>5. /\ int' \in [pc : {"idle", "got", "copying", "integrating", "putting", "dead"},
                      frame : 0..MaxFrames, todo : SUBSET Boxes, quiet : BOOLEAN]
        /\ out' \in Seq(Sample) /\ Len(out') <= OutSize
    BY DEF Typed, TypeOK, EncRest
  <2>6. /\ boxes' \subseteq Boxes /\ caches' \subseteq Boxes /\ loop' \in Busy \cup {None}
        /\ streaming' \subseteq Streams
        /\ item' \in [Streams -> Fragment \cup Sample \cup {None}]
        /\ wire' \in [Streams -> Fragment \cup Sample \cup {None}]
    BY DEF Typed, TypeOK, EncRest, boxVars, loopVars
  <2> QED BY <2>3, <2>4, <2>5, <2>6 DEF TypeOK, EncStates
<1>2. Carried'
  BY DEF Typed, Carried, EncRest, loopVars
<1>3. Counted'
  <2>1. Len(videoQ') \in Nat /\ enc'.cut \in Nat
    BY DEF EncStates
  <2>2. given' = given /\ limit' = limit /\ int' = int
    BY DEF EncRest
  <2>3. enc'.cut + Len(videoQ') <= given'["video"]
    <3>1. /\ enc'.cut + Len(videoQ') <= enc.cut + Len(videoQ)
          /\ enc.cut + Len(videoQ) <= given["video"]
          /\ {enc'.cut, Len(videoQ'), enc.cut, Len(videoQ), given["video"]} \subseteq Nat
      BY <2>1, EncoderNumbers, SMTT(30)
    <3> QED BY ONLY <3>1, <2>2
  <2> QED BY <2>2, <2>3 DEF Typed, Counted
<1> QED BY <1>1, <1>2, <1>3 DEF Typed

\* A frame is taken.
LEMMA TakeFrame ==
    ASSUME Typed, videoQ # <<>>
    PROVE  Tail(videoQ) \in Seq(1..MaxFrames) /\ Len(Tail(videoQ)) = Len(videoQ) - 1
BY HeadTail DEF Typed, TypeOK

\* A frame is taken and no fragment comes of it.
LEMMA EncodeTyped == ASSUME Typed, Encode \/ Break PROVE Typed'
<1> USE EncoderNumbers, EncoderKeeps
<1>1. Tail(videoQ) \in Seq(1..MaxFrames) /\ Len(Tail(videoQ)) = Len(videoQ) - 1
  BY TakeFrame DEF Encode, Break
<1>2. CASE Encode
  <2>1. videoQ' = Tail(videoQ) /\ enc' = enc /\ frags' = frags /\ startup' = startup /\ EncRest
    BY <1>2 DEF Encode, encVars
  <2> QED BY <1>1, <2>1, EncoderTyped
<1>3. CASE Break
  <2>1. videoQ' = Tail(videoQ) /\ frags' = frags /\ startup' = startup /\ EncRest
    BY <1>3 DEF Break
  <2>2. enc' \in EncStates /\ enc'.cut = enc.cut /\ enc'.pc = "failed" /\ enc'.gen < MaxFailures
    BY <1>3 DEF Break, EncStates
  <2> QED BY <1>1, <2>1, <2>2, EncoderTyped
<1> QED BY <1>2, <1>3

\* A frame is taken and completes a fragment, which may be cached.
LEMMA CutTyped == ASSUME Typed, Cut PROVE Typed'
<1> USE EncoderNumbers, EncoderKeeps
<1>1. /\ videoQ' = Tail(videoQ) /\ Tail(videoQ) \in Seq(1..MaxFrames)
      /\ Len(Tail(videoQ)) = Len(videoQ) - 1 /\ frags' = frags /\ EncRest
  BY TakeFrame DEF Cut
<1>2. enc.cut + 1 \in 1..MaxFrames
  <2>1. Len(Tail(videoQ)) \in Nat
    BY <1>1
  <2>2. {Len(videoQ), enc.cut, MaxFrames} \subseteq Nat /\ enc.cut + Len(videoQ) <= MaxFrames
    OBVIOUS
  <2> QED BY ONLY <1>1, <2>1, <2>2
<1>3. /\ enc' \in EncStates /\ enc'.cut = enc.cut + 1
      /\ enc'.pc \in {"putting", "encoding"} /\ (enc'.pc = "putting" => enc.cut > 0)
  <2>1. enc' = [pc |-> IF enc.cut > 0 THEN "putting" ELSE "encoding",
                gen |-> enc.gen, cut |-> enc.cut + 1]
    <3>1. enc \in EncStates /\ enc.pc = "encoding"
      BY DEF Cut
    <3> QED BY ONLY <3>1, Cut DEF Cut, EncStates
  <2> QED BY ONLY <1>2, <2>1, EncoderNumbers, Typed DEF EncStates
<1>4. /\ startup' \in Seq(Fragment) /\ Len(startup') <= Cached
      /\ Len(startup') < enc'.cut
  <2>1. CASE enc.cut \in 1..Cached - 1
    <3>1. <<enc.gen, enc.cut>> \in Fragment
      BY <2>1 DEF Fragment
    <3>2. startup' = Append(startup, <<enc.gen, enc.cut>>) /\ Len(startup) < enc.cut
      <4>1. startup' = Append(startup, <<enc.gen, enc.cut>>)
        BY <2>1 DEF Cut
      <4> QED BY <2>1, <4>1
    <3>3. startup' \in Seq(Fragment) /\ Len(startup') = Len(startup) + 1
      BY <3>1, <3>2, AppendFacts
    <3> QED BY <2>1, <3>2, <3>3, <1>3, SMTT(30)
  <2>2. CASE enc.cut \notin 1..Cached - 1
    BY <1>3, <2>2 DEF Cut
  <2> QED BY <2>1, <2>2
<1>5. enc'.cut + Len(videoQ') <= enc.cut + Len(videoQ) /\ Len(videoQ') <= Len(videoQ)
  BY <1>1, <1>3, SMTT(30)
<1>6. /\ enc'.pc \in {"putting", "evicting"} => enc'.cut >= 2
      /\ enc'.pc \in {"failed", "clearing", "getting"} => enc'.gen < MaxFailures
      /\ Len(startup') <= enc'.cut
  BY <1>3, <1>4, SMTT(30)
<1> QED BY <1>1, <1>3, <1>4, <1>5, <1>6, EncoderTyped

\* What _put_fragment puts.
LEMMA NewestIsFragment ==
    ASSUME Typed, enc.pc \in {"putting", "evicting"} PROVE Newest \in Fragment
BY EncoderNumbers, SMTT(30) DEF Typed, Counted, Newest, Fragment

\* The fragment is put, or the oldest makes room for it.
LEMMA PutTyped == ASSUME Typed, Put \/ Evict PROVE Typed'
<1> USE EncoderNumbers, EncoderKeeps
<1>1. /\ videoQ' = videoQ /\ startup' = startup /\ EncRest
      /\ enc.pc \in {"putting", "evicting"}
  BY DEF Put, Evict
<1>2. enc' \in EncStates /\ enc'.cut = enc.cut /\ enc'.pc \in {"encoding", "evicting"}
  BY DEF Put, Evict, EncStates
<1>3. frags' \in Seq(Fragment) /\ Len(frags') <= FragSize
  <2>1. \A q \in Seq(Fragment) : /\ Append(q, Newest) \in Seq(Fragment)
                                 /\ Len(Append(q, Newest)) = Len(q) + 1
    BY <1>1, NewestIsFragment, AppendFacts
  <2>2. frags # <<>> => Tail(frags) \in Seq(Fragment) /\ Len(Tail(frags)) = Len(frags) - 1
    BY HeadTail
  <2>3. CASE Put
    <3>1. CASE Len(frags) < FragSize
      <4>1. frags' = Append(frags, Newest)
        BY <2>3, <3>1 DEF Put
      <4> QED BY <2>1, <3>1, <4>1
    <3>2. CASE ~(Len(frags) < FragSize)
      BY <2>3, <3>2 DEF Put
    <3> QED BY <3>1, <3>2
  <2>4. CASE Evict /\ frags = <<>>
    BY <2>1, <2>4 DEF Evict
  <2>5. CASE Evict /\ frags # <<>>
    BY <2>1, <2>2, <2>5 DEF Evict
  <2> QED BY <2>3, <2>4, <2>5
<1>4. Len(startup) < enc.cut
  BY <1>1
<1> QED BY <1>1, <1>2, <1>3, <1>4, EncoderTyped

\* The encoder is rebuilt.
LEMMA ResetTyped == ASSUME Typed, BackOff \/ Clear \/ ClearGet PROVE Typed'
<1> USE EncoderNumbers, EncoderKeeps
<1>1. videoQ' = videoQ /\ EncRest
  BY DEF BackOff, Clear, ClearGet
<1>2. CASE BackOff
  <2>1. enc' \in EncStates /\ enc'.cut = enc.cut /\ enc'.gen = enc.gen /\ enc'.pc = "clearing"
    BY <1>2 DEF BackOff, EncStates
  <2>2. frags' = frags /\ startup' = startup /\ enc.gen < MaxFailures
    BY <1>2 DEF BackOff
  <2> QED BY <1>1, <2>1, <2>2, EncoderTyped
<1>3. CASE Clear /\ frags = <<>>
  <2>1. enc' \in EncStates /\ enc'.cut = 0 /\ enc'.pc = "encoding"
    BY <1>3 DEF Clear, Rebuilt, EncStates
  <2>2. frags' = frags /\ startup' = <<>> /\ <<>> \in Seq(Fragment) /\ Len(<<>>) = 0
    BY <1>3 DEF Clear
  <2> QED BY <1>1, <2>1, <2>2, EncoderTyped
<1>4. CASE Clear /\ frags # <<>>
  <2>1. enc' \in EncStates /\ enc'.cut = enc.cut /\ enc'.gen = enc.gen /\ enc'.pc = "getting"
    BY <1>4 DEF Clear, EncStates
  <2>2. frags' = frags /\ startup' = startup /\ enc.gen < MaxFailures
    BY <1>4 DEF Clear
  <2> QED BY <1>1, <2>1, <2>2, EncoderTyped
<1>5. CASE ClearGet
  <2>1. enc' \in EncStates /\ enc'.cut = enc.cut /\ enc'.gen = enc.gen /\ enc'.pc = "clearing"
    BY <1>5 DEF ClearGet, EncStates
  <2>2. /\ frags' = Tail(frags) /\ frags # <<>> /\ startup' = startup /\ enc.gen < MaxFailures
    BY <1>5 DEF ClearGet
  <2>3. Tail(frags) \in Seq(Fragment) /\ Len(Tail(frags)) = Len(frags) - 1
    BY <2>2, HeadTail
  <2> QED BY <1>1, <2>1, <2>2, <2>3, EncoderTyped
<1> QED BY <1>2, <1>3, <1>4, <1>5

IntStates ==
    [pc : {"idle", "got", "copying", "integrating", "putting", "dead"},
     frame : 0..MaxFrames, todo : SUBSET Boxes, quiet : BOOLEAN]

Holds == int.pc \in {"got", "copying", "integrating", "putting"}

\* What the integrator leaves alone is as it was.
LEMMA IntegratorKeeps ==
    ASSUME Typed
    PROVE  /\ boxQ \in Seq(1..MaxFrames) /\ Len(boxQ) <= QueueSize
           /\ int \in IntStates /\ (Holds => int.frame > 0)
           /\ out \in Seq(Sample) /\ Len(out) <= OutSize
           /\ boxes \subseteq Boxes
BY DEF Typed, TypeOK, Counted, IntStates, Holds

\* A step of the integrator touches its own state only.
LEMMA IntegratorTyped ==
    ASSUME Typed, IntRest,
           boxQ' \in Seq(1..MaxFrames), Len(boxQ') <= QueueSize,
           int' \in IntStates, Holds' => int'.frame > 0,
           out' \in Seq(Sample), Len(out') <= OutSize
    PROVE  Typed'
<1>1. /\ limit' = limit /\ given' = given /\ videoQ' = videoQ /\ enc' = enc /\ frags' = frags
      /\ startup' = startup /\ boxes' = boxes /\ caches' = caches /\ loop' = loop
      /\ streaming' = streaming /\ item' = item /\ wire' = wire
  BY DEF IntRest, encVars, boxVars, loopVars
<1>2. TypeOK'
  BY <1>1 DEF Typed, TypeOK, IntStates
<1>3. Carried' /\ Counted'
  BY <1>1 DEF Typed, Carried, Counted, Holds
<1> QED BY <1>2, <1>3 DEF Typed

\* The integrator takes a frame.
LEMMA GetImageTyped == ASSUME Typed, GetImage PROVE Typed'
<1> USE IntegratorKeeps
<1>1. /\ boxQ # <<>> /\ boxQ' = Tail(boxQ) /\ out' = out /\ IntRest
      /\ int' = [pc |-> "got", frame |-> Head(boxQ), todo |-> {}, quiet |-> loop = None]
  BY DEF GetImage
<1>2. Head(boxQ) \in 1..MaxFrames /\ boxQ' \in Seq(1..MaxFrames) /\ Len(boxQ') = Len(boxQ) - 1
      /\ Len(boxQ) \in Nat
  BY <1>1, HeadTail
<1>3. Head(boxQ) \in 0..MaxFrames /\ Head(boxQ) > 0
  BY ONLY <1>2, Sizes
<1>4. int' \in IntStates /\ int'.frame > 0
  BY <1>1, <1>3 DEF IntStates
<1>5. Len(boxQ') <= QueueSize
  BY <1>2, Sizes
<1> QED BY <1>1, <1>2, <1>4, <1>5, IntegratorTyped

\* It goes on with the frame it has.
LEMMA WorkTyped ==
    ASSUME Typed, Copy \/ Copied \/ Yield \/ \E b \in Boxes : Integrate(b) PROVE Typed'
<1> USE IntegratorKeeps
<1>1. boxQ' = boxQ /\ out' = out /\ IntRest /\ Holds
  BY DEF Copy, Copied, Yield, Integrate, Holds
<1>2. int' \in IntStates /\ int'.frame = int.frame
  <2>1. CASE Copy
    BY <2>1 DEF Copy, IntStates
  <2>2. CASE Copied
    BY <2>2 DEF Copied, IntStates
  <2>3. CASE Yield
    BY <2>3 DEF Yield, IntStates
  <2>4. ASSUME NEW b \in Boxes, Integrate(b) PROVE int' \in IntStates /\ int'.frame = int.frame
    BY <2>4 DEF Integrate, IntStates
  <2> QED BY <2>1, <2>2, <2>3, <2>4
<1> QED BY <1>1, <1>2, IntegratorTyped

\* It puts the sample of the frame.
LEMMA PutSampleTyped == ASSUME Typed, PutSample PROVE Typed'
<1> USE IntegratorKeeps
<1>1. /\ boxQ' = boxQ /\ IntRest /\ Holds /\ Len(out) < OutSize
      /\ out' = Append(out, <<int.frame>>) /\ int' = [int EXCEPT !.pc = "idle"]
  BY DEF PutSample, Holds
<1>2. <<int.frame>> \in Sample
  BY <1>1 DEF Sample, IntStates
<1>3. out' \in Seq(Sample) /\ Len(out') = Len(out) + 1 /\ Len(out) \in Nat
  BY <1>1, <1>2, AppendFacts
<1>4. int' \in IntStates /\ int'.pc = "idle"
  BY <1>1 DEF IntStates
<1>5. Len(out') <= OutSize
  BY <1>1, <1>3, Sizes
<1> QED BY <1>1, <1>3, <1>4, <1>5, IntegratorTyped DEF Holds

\* A step of the event loop leaves the camera and the encoder alone.
LEMMA LoopKeeps ==
    ASSUME Typed
    PROVE  /\ frags \in Seq(Fragment) /\ Len(frags) <= FragSize
           /\ boxes \subseteq Boxes /\ caches \subseteq Boxes /\ loop \in Busy \cup {None}
           /\ streaming \subseteq Streams
           /\ item \in [Streams -> Fragment \cup Sample \cup {None}]
           /\ wire \in [Streams -> Fragment \cup Sample \cup {None}]
BY DEF Typed, TypeOK

\* It touches the boxes, the integrator's peace, and what the streams carry.
LEMMA LoopTyped ==
    ASSUME Typed, LoopRest,
           frags' \in Seq(Fragment), Len(frags') <= FragSize,
           int' = int \/ Disturb, out' \in Seq(Sample), Len(out') <= OutSize,
           boxes' \subseteq Boxes, caches' \subseteq Boxes, loop' \in Busy \cup {None},
           streaming' \subseteq Streams,
           item' \in [Streams -> Fragment \cup Sample \cup {None}],
           wire' \in [Streams -> Fragment \cup Sample \cup {None}], Carried'
    PROVE  Typed'
<1>1. /\ limit' = limit /\ given' = given /\ videoQ' = videoQ /\ boxQ' = boxQ
      /\ enc' = enc /\ startup' = startup
  BY DEF LoopRest
<1>2. int' \in IntStates /\ int'.pc = int.pc /\ int'.frame = int.frame
  BY IntegratorKeeps DEF Disturb, IntStates
<1>3. TypeOK'
  BY <1>1, <1>2 DEF Typed, TypeOK, IntStates
<1>4. Counted'
  BY <1>1, <1>2 DEF Typed, Counted
<1> QED BY <1>3, <1>4 DEF Typed

\* A handler changes the boxes.
LEMMA BoxesTyped ==
    ASSUME Typed,
           RegisterCache \/ RemoveCache \/ \E b \in Boxes : Register(b) \/ Remove(b)
    PROVE  Typed'
<1> USE IntegratorKeeps, LoopKeeps
<1>1. frags' = frags /\ out' = out /\ LoopRest /\ Disturb
      /\ streaming' = streaming /\ item' = item /\ wire' = wire
  BY DEF RegisterCache, RemoveCache, Register, Remove, loopVars
<1>2. boxes' \subseteq Boxes /\ caches' \subseteq Boxes /\ loop' \in Busy \cup {None}
  <2>1. loop # None => loop[2] \in Boxes
    BY DEF Busy
  <2>2. CASE RegisterCache \/ RemoveCache
    BY <2>1, <2>2 DEF RegisterCache, RemoveCache
  <2>3. ASSUME NEW b \in Boxes, Register(b) \/ Remove(b)
        PROVE  boxes' \subseteq Boxes /\ caches' \subseteq Boxes /\ loop' \in Busy \cup {None}
    BY <2>3 DEF Register, Remove, Busy
  <2> QED BY <2>2, <2>3
<1>3. Carried'
  BY <1>1 DEF Typed, Carried
<1> QED BY <1>1, <1>2, <1>3, LoopTyped

\* The stream loops take and publish.
LEMMA StreamTyped ==
    ASSUME Typed,
           NextVideo \/ NextSample
              \/ \E s \in Streams : Start(s) \/ Stop(s) \/ Publish(s) \/ PublishFails(s)
    PROVE  Typed'
<1> USE IntegratorKeeps, LoopKeeps
<1>1. loop' = loop /\ boxes' = boxes /\ caches' = caches /\ int' = int /\ LoopRest
  BY DEF NextVideo, NextSample, Start, Stop, Publish, PublishFails, boxVars
<1>2. streaming' \subseteq Streams
  BY DEF NextVideo, NextSample, Start, Stop, Publish, PublishFails
<1>3. CASE NextVideo
  <2>1. frags # <<>> /\ frags' = Tail(frags) /\ out' = out /\ wire' = wire
        /\ item' = [item EXCEPT !["video"] = Head(frags)]
    BY <1>3 DEF NextVideo
  <2>2. Head(frags) \in Fragment /\ frags' \in Seq(Fragment) /\ Len(frags') = Len(frags) - 1
        /\ Len(frags) \in Nat
    BY <2>1, HeadTail
  <2>3. Len(frags') <= FragSize
    BY <2>2, Sizes
  <2>4. item' \in [Streams -> Fragment \cup Sample \cup {None}]
    BY <2>1, <2>2
  <2>5. Carried'
    BY <2>1, <2>2 DEF Typed, Carried, Streams
  <2> QED BY <1>1, <1>2, <2>1, <2>2, <2>3, <2>4, <2>5, LoopTyped
<1>4. CASE NextSample
  <2>1. out # <<>> /\ out' = Tail(out) /\ frags' = frags /\ wire' = wire
        /\ item' = [item EXCEPT !["integrator"] = Head(out)]
    BY <1>4 DEF NextSample
  <2>2. Head(out) \in Sample /\ out' \in Seq(Sample) /\ Len(out') = Len(out) - 1
        /\ Len(out) \in Nat
    BY <2>1, HeadTail
  <2>3. Len(out') <= OutSize
    BY <2>2, Sizes
  <2>4. item' \in [Streams -> Fragment \cup Sample \cup {None}]
    BY <2>1, <2>2
  <2>5. Carried'
    BY <2>1, <2>2 DEF Typed, Carried, Streams
  <2> QED BY <1>1, <1>2, <2>1, <2>2, <2>3, <2>4, <2>5, LoopTyped
<1>5. ASSUME NEW s \in Streams, Start(s) \/ Stop(s) \/ Publish(s) \/ PublishFails(s)
      PROVE  Typed'
  <2>1. frags' = frags /\ out' = out
    BY <1>5 DEF Start, Stop, Publish, PublishFails
  <2>2. /\ item' = item \/ item' = [item EXCEPT ![s] = None]
        /\ wire' = wire \/ wire' = [wire EXCEPT ![s] = item[s]]
    BY <1>5 DEF Start, Stop, Publish, PublishFails
  <2>3. /\ item' \in [Streams -> Fragment \cup Sample \cup {None}]
        /\ wire' \in [Streams -> Fragment \cup Sample \cup {None}]
    BY <2>2
  <2>4. Carried'
    BY <2>2 DEF Typed, Carried, Streams
  <2> QED BY <1>1, <1>2, <2>1, <2>3, <2>4, LoopTyped
<1> QED BY <1>3, <1>4, <1>5

\* The start, each step, and hence always.
LEMMA InitTyped == Init => Typed
<1> SUFFICES ASSUME Init PROVE Typed
  OBVIOUS
<1>1. /\ given \in [Streams -> 0..MaxFrames] /\ enc \in EncStates
      /\ int \in IntStates /\ \A s \in Streams : given[s] <= limit[s]
  BY Sizes, LimitFacts DEF Init, EncStates, IntStates
<1>2. \A S : <<>> \in Seq(S) /\ Len(<<>>) = 0
  OBVIOUS
<1>3. TypeOK
  BY <1>1, <1>2, Sizes DEF Init, TypeOK, EncStates, IntStates
<1>4. Carried
  BY DEF Init, Carried, Streams
<1>5. Counted
  BY <1>1, <1>2 DEF Init, Counted, Streams
<1> QED BY <1>3, <1>4, <1>5 DEF Typed

\* Every step keeps the types.
LEMMA NextTyped == Typed /\ [Next]_vars => Typed'
<1> SUFFICES ASSUME Typed, [Next]_vars PROVE Typed'
  OBVIOUS
<1>1. CASE Grab
  BY <1>1, GrabTyped
<1>2. CASE Encoder
  BY <1>2, EncodeTyped, CutTyped, PutTyped, ResetTyped DEF Encoder
<1>3. CASE Integrator
  BY <1>3, GetImageTyped, WorkTyped, PutSampleTyped DEF Integrator
<1>4. CASE EventLoop
  BY <1>4, BoxesTyped, StreamTyped DEF EventLoop
<1>5. CASE UNCHANGED vars
  BY <1>5 DEF vars, encVars, boxVars, loopVars, Typed, TypeOK, Carried, Counted
<1> QED BY <1>1, <1>2, <1>3, <1>4, <1>5 DEF Next

\* The types hold throughout.
LEMMA AlwaysTyped == Spec => []Typed
BY InitTyped, NextTyped, PTL DEF Spec

\* Queues, counters, threads and streams stay within their types.
THEOREM StreamsTypeCorrect == Spec => []TypeOK
<1>1. Typed => TypeOK
  BY DEF Typed
<1> QED BY <1>1, AlwaysTyped, PTL

-----------------------------------------------------------------------------
(* The order of the video stream: what was published, what is being        *)
(* published, what is queued and what is to come, by container and number. *)

Older(x, y) == x[1] < y[1] \/ (x[1] = y[1] /\ x[2] < y[2])

\* The next fragment to be put.
Coming == <<enc.gen, IF enc.pc \in {"putting", "evicting"} THEN enc.cut - 1 ELSE enc.cut>>

InOrder(q) == \A k, n \in 1..Len(q) : k < n => Older(q[k], q[n])
Before(q, y) == \A n \in 1..Len(q) : Older(q[n], y)
After(x, q) == \A n \in 1..Len(q) : Older(x, q[n])

VideoInOrder ==
    /\ InOrder(frags) /\ Before(frags, Coming)
    /\ item["video"] # None => Older(item["video"], Coming) /\ After(item["video"], frags)
    /\ wire["video"] # None => Older(wire["video"], Coming) /\ After(wire["video"], frags)
    /\ item["video"] # None /\ wire["video"] # None => Older(wire["video"], item["video"])

Place == (0..MaxFailures) \X (0..MaxFrames)

\* Places are ordered.
LEMMA Places ==
    /\ \A x \in Fragment : x \in Place /\ x # None /\ Len(x) = 2
    /\ \A x, y, z \in Place : Older(x, y) /\ Older(y, z) => Older(x, z)
<1>1. \A x \in Fragment : x \in Place /\ x # None /\ Len(x) = 2
  BY Sizes DEF Fragment, Place, None
<1>2. \A x \in Place : x[1] \in Nat /\ x[2] \in Nat
  BY Sizes DEF Place
<1>3. ASSUME NEW x \in Place, NEW y \in Place, NEW z \in Place, Older(x, y), Older(y, z)
      PROVE  Older(x, z)
  <2>1. {x[1], x[2], y[1], y[2], z[1], z[2]} \subseteq Nat
    BY <1>2
  <2> QED BY ONLY <2>1, <1>3 DEF Older
<1> QED BY <1>1, <1>3

\* The next fragment has a place.
LEMMA ComingIsPlace == (Typed => Coming \in Place) /\ (Typed' => Coming' \in Place)
<1>1. Typed => Coming \in Place
  BY EncoderNumbers, EncoderKeeps, SMTT(30) DEF Coming, Place
<1>2. Typed' => (Coming \in Place)'
  BY <1>1, PTL
<1> QED BY <1>1, <1>2

\* What is taken from a queue in order comes before what is left.
LEMMA TailInOrder ==
    ASSUME NEW q \in Seq(Fragment), q # <<>>, InOrder(q)
    PROVE  /\ InOrder(Tail(q)) /\ After(Head(q), Tail(q))
           /\ \A x \in Place : /\ After(x, q) => After(x, Tail(q)) /\ Older(x, Head(q))
                               /\ Before(q, x) => Before(Tail(q), x) /\ Older(Head(q), x)
<1>1. /\ Len(q) \in Nat \ {0} /\ Len(Tail(q)) = Len(q) - 1 /\ Head(q) = q[1]
      /\ \A n \in 1..Len(Tail(q)) : Tail(q)[n] = q[n + 1] /\ n + 1 \in 1..Len(q)
  BY HeadTail
<1>2. 1 \in 1..Len(q) /\ \A k, n \in 1..Len(Tail(q)) : (k < n => k + 1 < n + 1) /\ 1 < n + 1
  BY <1>1
<1>3. InOrder(Tail(q)) /\ After(Head(q), Tail(q))
  BY <1>1, <1>2 DEF InOrder, After
<1>4. ASSUME NEW x \in Place
      PROVE  /\ After(x, q) => After(x, Tail(q)) /\ Older(x, Head(q))
             /\ Before(q, x) => Before(Tail(q), x) /\ Older(Head(q), x)
  BY <1>1, <1>2 DEF Before, After
<1> QED BY <1>3, <1>4

\* What is put behind what comes before it keeps a queue in order.
LEMMA AppendInOrder ==
    ASSUME NEW q \in Seq(Fragment), NEW y \in Fragment, InOrder(q), Before(q, y)
    PROVE  /\ InOrder(Append(q, y))
           /\ \A x \in Place : After(x, q) /\ Older(x, y) => After(x, Append(q, y))
           /\ \A z \in Place : Older(y, z) => Before(Append(q, y), z)
<1>1. /\ Len(Append(q, y)) = Len(q) + 1 /\ Len(q) \in Nat /\ Append(q, y)[Len(q) + 1] = y
      /\ \A n \in 1..Len(q) : Append(q, y)[n] = q[n]
  BY AppendFacts
<1>2. /\ \A n \in 1..Len(Append(q, y)) : n \in 1..Len(q) \/ n = Len(q) + 1
      /\ \A n \in 1..Len(Append(q, y)) : ~(Len(q) + 1 < n)
  BY <1>1
<1>3. InOrder(Append(q, y))
  BY <1>1, <1>2 DEF InOrder, Before
<1>4. \A x \in Place : After(x, q) /\ Older(x, y) => After(x, Append(q, y))
  BY <1>1, <1>2 DEF After
<1>5. ASSUME NEW z \in Place, Older(y, z) PROVE Before(Append(q, y), z)
  <2>1. \A n \in 1..Len(q) : q[n] \in Fragment
    OBVIOUS
  <2>2. \A n \in 1..Len(q) : Older(q[n], z)
    BY <1>5, <2>1, Places DEF Before
  <2> QED BY <1>1, <1>2, <1>5, <2>2 DEF Before
<1> QED BY <1>3, <1>4, <1>5

\* What comes before the next fragment comes before a later one.
LEMMA LaterComing ==
    ASSUME NEW q \in Seq(Fragment), NEW x \in Place, NEW y \in Place, Before(q, x), Older(x, y)
    PROVE  Before(q, y)
<1>1. \A n \in 1..Len(q) : q[n] \in Fragment
  OBVIOUS
<1> QED BY <1>1, Places DEF Before

\* The fragments a stream loop carries are places too.
LEMMA CarriedPlaces ==
    ASSUME Typed
    PROVE  /\ item["video"] # None => item["video"] \in Place
           /\ wire["video"] # None => wire["video"] \in Place
           /\ frags \in Seq(Fragment) /\ Coming \in Place /\ None \notin Fragment
BY Places, EncoderKeeps, ComingIsPlace DEF Typed, Carried, None

\* The encoder leaves the queue alone or takes from it, and what is to come
\* is what was or later.
LEMMA TakingInOrder ==
    ASSUME Typed, Typed', VideoInOrder, EncRest,
           frags' = frags \/ (frags # <<>> /\ frags' = Tail(frags)),
           Coming' = Coming \/ Older(Coming, Coming')
    PROVE  VideoInOrder'
<1> USE CarriedPlaces
<1>1. item' = item /\ wire' = wire /\ Coming' \in Place
  BY ComingIsPlace DEF EncRest, loopVars
<1>2. /\ InOrder(frags') /\ Before(frags', Coming) /\ frags' \in Seq(Fragment)
      /\ \A x \in Place : After(x, frags) => After(x, frags')
  BY TailInOrder, HeadTail DEF VideoInOrder
<1>3. Before(frags', Coming')
  BY <1>1, <1>2, LaterComing
<1>4. \A x \in Place : Older(x, Coming) => Older(x, Coming')
  BY <1>1, Places
<1> QED BY <1>1, <1>2, <1>3, <1>4 DEF VideoInOrder

\* The fragment that is put comes after those in the queue.
LEMMA PuttingInOrder ==
    ASSUME Typed, Typed', VideoInOrder, Put \/ Evict PROVE VideoInOrder'
<1> USE CarriedPlaces
<1>1. CASE Put /\ ~(Len(frags) < FragSize)
  <2>1. frags' = frags /\ enc' = [enc EXCEPT !.pc = "evicting"] /\ enc.pc = "putting" /\ EncRest
    BY <1>1 DEF Put
  <2>2. Coming' = Coming
    BY <2>1, EncoderKeeps DEF Coming, EncStates
  <2> QED BY <2>1, <2>2, TakingInOrder
<1>2. CASE (Put /\ Len(frags) < FragSize) \/ Evict
  <2> DEFINE q == IF Evict /\ frags # <<>> THEN Tail(frags) ELSE frags
  <2>1. /\ frags' = Append(q, Newest) /\ enc' = [enc EXCEPT !.pc = "encoding"]
        /\ enc.pc \in {"putting", "evicting"} /\ item' = item /\ wire' = wire
    BY <1>2 DEF Put, Evict, EncRest, loopVars
  <2>2. Newest \in Fragment /\ Newest = Coming
    BY <2>1, NewestIsFragment DEF Coming, Newest
  <2>3. Older(Coming, Coming') /\ Coming' \in Place
    BY <2>1, EncoderKeeps, EncoderNumbers, ComingIsPlace DEF Coming, EncStates, Older
  <2>4. /\ q \in Seq(Fragment) /\ InOrder(q) /\ Before(q, Coming)
        /\ \A x \in Place : After(x, frags) => After(x, q)
    BY TailInOrder, HeadTail DEF VideoInOrder
  <2> HIDE DEF q
  <2>5. InOrder(frags') /\ Before(frags', Coming')
        /\ \A x \in Place : After(x, q) /\ Older(x, Coming) => After(x, frags')
    BY <2>1, <2>2, <2>3, <2>4, AppendInOrder
  <2>6. \A x \in Place : Older(x, Coming) => Older(x, Coming')
    BY <2>3, Places
  <2> QED BY <2>1, <2>4, <2>5, <2>6 DEF VideoInOrder
<1> QED BY <1>1, <1>2

\* The encoder keeps the order.
LEMMA EncoderInOrder ==
    ASSUME Typed, Typed', VideoInOrder, Encoder PROVE VideoInOrder'
<1> USE EncoderKeeps, EncoderNumbers
<1>1. CASE Encode \/ Break \/ BackOff
  <2>1. frags' = frags /\ EncRest /\ Coming' = Coming
    BY <1>1 DEF Encode, Break, BackOff, encVars, Coming, EncStates
  <2> QED BY <2>1, TakingInOrder
<1>2. CASE Cut
  <2>1. frags' = frags /\ EncRest
    BY <1>2 DEF Cut
  <2>2. enc.cut > 0 => Coming' = Coming
    BY <1>2 DEF Cut, Coming, EncStates
  <2>3. ~(enc.cut > 0) => Older(Coming, Coming')
    BY <1>2 DEF Cut, Coming, EncStates, Older
  <2> QED BY <2>1, <2>2, <2>3, TakingInOrder
<1>3. CASE Put \/ Evict
  BY <1>3, PuttingInOrder
<1>4. CASE Clear
  <2>1. frags' = frags /\ EncRest
    BY <1>4 DEF Clear
  <2>2. CASE frags = <<>>
    BY <1>4, <2>1, <2>2, TakingInOrder DEF Clear, Rebuilt, Coming, Older
  <2>3. CASE frags # <<>>
    <3>1. Coming' = Coming
      BY <1>4, <2>3 DEF Clear, Coming, EncStates
    <3> QED BY <2>1, <3>1, TakingInOrder
  <2> QED BY <2>2, <2>3
<1>5. CASE ClearGet
  <2>1. frags # <<>> /\ frags' = Tail(frags) /\ EncRest
    BY <1>5 DEF ClearGet
  <2>2. Coming' = Coming
    BY <1>5 DEF ClearGet, Coming, EncStates
  <2> QED BY <2>1, <2>2, TakingInOrder
<1> QED BY <1>1, <1>2, <1>3, <1>4, <1>5 DEF Encoder

\* So does the loop that takes from the queue and publishes.
LEMMA EventLoopInOrder ==
    ASSUME Typed, VideoInOrder, EventLoop PROVE VideoInOrder'
<1> USE CarriedPlaces
<1>1. Coming' = Coming
  BY DEF EventLoop, RegisterCache, RemoveCache, NextVideo, NextSample, Register, Remove,
         Start, Stop, Publish, PublishFails, LoopRest, Coming
<1>2. CASE NextVideo
  <2>1. /\ frags # <<>> /\ frags' = Tail(frags) /\ wire' = wire /\ item["video"] = None
        /\ item' = [item EXCEPT !["video"] = Head(frags)]
    BY <1>2 DEF NextVideo
  <2>2. item'["video"] = Head(frags) /\ Head(frags) \in Fragment
    BY <2>1, LoopKeeps, HeadTail DEF Streams
  <2>3. /\ InOrder(frags') /\ After(Head(frags), frags') /\ Before(frags', Coming)
        /\ Older(Head(frags), Coming)
        /\ \A x \in Place : After(x, frags) => After(x, frags') /\ Older(x, Head(frags))
    BY <2>1, TailInOrder DEF VideoInOrder
  <2> QED BY <1>1, <2>1, <2>2, <2>3 DEF VideoInOrder
<1>3. CASE NextSample \/ RegisterCache \/ RemoveCache \/ \E b \in Boxes : Register(b) \/ Remove(b)
  <2>1. frags' = frags /\ wire' = wire /\ item'["video"] = item["video"]
    BY <1>3, LoopKeeps
    DEF NextSample, RegisterCache, RemoveCache, Register, Remove, loopVars, Streams
  <2> QED BY <1>1, <2>1 DEF VideoInOrder
<1>4. ASSUME NEW s \in Streams, Start(s) \/ Stop(s) \/ Publish(s) \/ PublishFails(s)
      PROVE  VideoInOrder'
  <2>1. frags' = frags
    BY <1>4 DEF Start, Stop, Publish, PublishFails
  <2>2. \/ item'["video"] = item["video"] /\ wire'["video"] = wire["video"]
        \/ item'["video"] = None /\ wire'["video"] \in {wire["video"], item["video"]}
    BY <1>4, LoopKeeps DEF Start, Stop, Publish, PublishFails, Streams
  <2> QED BY <1>1, <2>1, <2>2 DEF VideoInOrder
<1> QED BY <1>2, <1>3, <1>4 DEF EventLoop

\* The camera and the integrator do not touch the video stream.
LEMMA VideoLeftAlone ==
    VideoInOrder /\ UNCHANGED <<enc, frags, item, wire>> => VideoInOrder'
BY DEF VideoInOrder, Coming

\* Every step keeps it.
LEMMA VideoStep == Typed /\ Typed' /\ VideoInOrder /\ [Next]_vars => VideoInOrder'
<1> SUFFICES ASSUME Typed, Typed', VideoInOrder, [Next]_vars PROVE VideoInOrder'
  OBVIOUS
<1>1. CASE Grab \/ Integrator \/ UNCHANGED vars
  <2>1. UNCHANGED <<enc, frags, item, wire>>
    BY <1>1 DEF Grab, Integrator, GetImage, Copy, Copied, Yield, PutSample, Integrate, IntRest,
                encVars, loopVars, vars
  <2> QED BY <2>1, VideoLeftAlone
<1>2. CASE Encoder
  BY <1>2, EncoderInOrder
<1>3. CASE EventLoop
  BY <1>3, EventLoopInOrder
<1> QED BY <1>1, <1>2, <1>3 DEF Next

\* The order holds from the start on.
LEMMA AlwaysInOrder == Spec => []VideoInOrder
<1>1. Init => VideoInOrder
  BY DEF Init, VideoInOrder, InOrder, Before, Streams
<1> QED BY <1>1, VideoStep, AlwaysTyped, PTL DEF Spec

-----------------------------------------------------------------------------
(* The start-up fragments.                                                 *)

\* The cached fragments are of the container at work.
StartupCurrent == \A n \in 1..Len(startup) : startup[n][1] = enc.gen

\* The cache follows the container.
LEMMA StartupStep == Typed /\ StartupCurrent /\ [Next]_vars => StartupCurrent'
<1> SUFFICES ASSUME Typed, StartupCurrent, [Next]_vars PROVE StartupCurrent'
  OBVIOUS
<1> USE EncoderKeeps
<1>1. CASE Grab \/ Integrator \/ EventLoop \/ UNCHANGED vars
  <2>1. startup' = startup /\ enc' = enc
    BY <1>1 DEF Grab, Integrator, GetImage, Copy, Copied, Yield, PutSample, Integrate, IntRest,
                EventLoop, RegisterCache, RemoveCache, NextVideo, NextSample, Register, Remove,
                Start, Stop, Publish, PublishFails, LoopRest, encVars, vars
  <2> QED BY <2>1 DEF StartupCurrent
<1>2. CASE Encode \/ Put \/ Evict \/ Break \/ BackOff \/ ClearGet
  <2>1. startup' = startup /\ enc'.gen = enc.gen
    BY <1>2 DEF Encode, Put, Evict, Break, BackOff, ClearGet, encVars, EncStates
  <2> QED BY <2>1 DEF StartupCurrent
<1>3. CASE Clear
  <2>1. CASE frags = <<>>
    <3>1. startup' = <<>>
      BY <1>3, <2>1 DEF Clear
    <3> QED BY <3>1 DEF StartupCurrent
  <2>2. CASE frags # <<>>
    <3>1. startup' = startup /\ enc'.gen = enc.gen
      BY <1>3, <2>2 DEF Clear, EncStates
    <3> QED BY <3>1 DEF StartupCurrent
  <2> QED BY <2>1, <2>2
<1>4. CASE Cut
  <2>1. enc'.gen = enc.gen
    BY <1>4 DEF Cut, EncStates
  <2>2. CASE enc.cut \in 1..Cached - 1
    <3> DEFINE x == <<enc.gen, enc.cut>>
    <3>1. startup' = Append(startup, x) /\ x \in Fragment
      BY <1>4, <2>2, EncoderNumbers, SMTT(30) DEF Cut, Fragment
    <3>2. /\ \A n \in 1..Len(startup') : n \in 1..Len(startup) \/ n = Len(startup) + 1
          /\ \A n \in 1..Len(startup) : startup'[n] = startup[n]
          /\ startup'[Len(startup) + 1] = x
      BY <3>1, AppendFacts
    <3> QED BY <2>1, <3>2, SMTT(30) DEF StartupCurrent
  <2>3. CASE enc.cut \notin 1..Cached - 1
    <3>1. startup' = startup
      BY <1>4, <2>3 DEF Cut
    <3> QED BY <2>1, <3>1 DEF StartupCurrent
  <2> QED BY <2>2, <2>3
<1> QED BY <1>1, <1>2, <1>3, <1>4 DEF Next, Encoder

\* A client that joins is given the fragments of the latest container: none
\* it can get later is of a later one.
THEOREM InitCurrentCorrect == Spec => []InitCurrent
<1>1. Init => StartupCurrent
  BY DEF Init, StartupCurrent
<1>2. Spec => []StartupCurrent
  BY <1>1, StartupStep, AlwaysTyped, PTL DEF Spec
<1>3. Typed /\ VideoInOrder /\ StartupCurrent => InitCurrent
  <2> SUFFICES ASSUME Typed, VideoInOrder, StartupCurrent, NEW n \in DOMAIN startup,
                      NEW x \in {frags[k] : k \in DOMAIN frags} \cup {item["video"], wire["video"]},
                      x # None
               PROVE  startup[n][1] >= x[1] /\ startup[n][1] = startup[1][1]
    BY DEF InitCurrent
  <2>1. n \in 1..Len(startup) /\ Len(startup) \in Nat
    BY EncoderKeeps
  <2>2. startup[n][1] = enc.gen /\ startup[1][1] = enc.gen
    BY <2>1 DEF StartupCurrent
  <2>3. x \in Place /\ Older(x, Coming)
    <3>1. CASE x \in {frags[k] : k \in DOMAIN frags}
      <4>1. PICK k \in 1..Len(frags) : x = frags[k]
        BY <3>1, EncoderKeeps
      <4> QED BY <4>1, EncoderKeeps, Places DEF VideoInOrder, Before
    <3>2. CASE x \in {item["video"], wire["video"]}
      BY <3>2, CarriedPlaces DEF VideoInOrder
    <3> QED BY <3>1, <3>2
  <2>4. Coming[1] = enc.gen /\ enc.gen \in Nat /\ x[1] \in Nat
    BY <2>3, EncoderNumbers DEF Coming, Place
  <2> QED BY <2>2, <2>3, <2>4 DEF Older
<1> QED BY <1>2, <1>3, AlwaysTyped, AlwaysInOrder, PTL

-----------------------------------------------------------------------------
(* The newest fragment.                                                    *)

\* Only the taker removes it from the end.
LEMMA NewestStep == Typed /\ NewestKept /\ [Next]_vars => NewestKept'
<1> SUFFICES ASSUME Typed, NewestKept, [Next]_vars PROVE NewestKept'
  OBVIOUS
<1> USE EncoderKeeps, EncoderNumbers
<1>1. CASE Grab \/ Integrator \/ Encode \/ UNCHANGED vars
  <2>1. UNCHANGED <<enc, frags, item>>
    BY <1>1 DEF Grab, Integrator, GetImage, Copy, Copied, Yield, PutSample, Integrate, IntRest,
                Encode, EncRest, encVars, loopVars, vars
  <2> QED BY <2>1 DEF NewestKept, Newest
<1>2. CASE Cut
  <2>1. enc'.pc = "putting" \/ enc'.cut = 1
    BY <1>2 DEF Cut, EncStates
  <2> QED BY <2>1 DEF NewestKept
<1>3. CASE (Put /\ Len(frags) < FragSize) \/ Evict
  <2> DEFINE q == IF Evict /\ frags # <<>> THEN Tail(frags) ELSE frags
  <2>1. frags' = Append(q, Newest) /\ Newest' = Newest /\ enc.pc \in {"putting", "evicting"}
    BY <1>3 DEF Put, Evict, Newest, EncStates
  <2>2. q \in Seq(Fragment) /\ Newest \in Fragment
    BY <2>1, NewestIsFragment, HeadTail
  <2> HIDE DEF q
  <2>3. frags' # <<>> /\ frags'[Len(frags')] = Newest'
    <3>1. /\ Append(q, Newest) # <<>> /\ Len(Append(q, Newest)) = Len(q) + 1
          /\ Append(q, Newest)[Len(q) + 1] = Newest
      BY ONLY <2>2, AppendFacts
    <3> QED BY ONLY <3>1, <2>1
  <2> QED BY <2>3 DEF NewestKept
<1>4. CASE Put /\ ~(Len(frags) < FragSize)
  BY <1>4 DEF Put, NewestKept, EncStates
<1>5. CASE Break \/ BackOff \/ ClearGet
  BY <1>5 DEF Break, BackOff, ClearGet, NewestKept, EncStates
<1>6. CASE Clear
  BY <1>6 DEF Clear, Rebuilt, NewestKept, EncStates
<1>7. CASE NextVideo
  <2>1. /\ frags # <<>> /\ frags' = Tail(frags) /\ enc' = enc
        /\ item' = [item EXCEPT !["video"] = Head(frags)]
    BY <1>7 DEF NextVideo, LoopRest
  <2>2. item'["video"] = Head(frags) /\ Newest' = Newest
    BY <2>1, LoopKeeps DEF Streams, Newest
  <2>3. /\ Len(Tail(frags)) = Len(frags) - 1 /\ Head(frags) = frags[1]
        /\ Len(frags) \in Nat \ {0} /\ Tail(frags) \in Seq(Fragment)
        /\ \A n \in 1..Len(Tail(frags)) : Tail(frags)[n] = frags[n + 1]
    BY <2>1, HeadTail
  <2>4. CASE Len(frags) = 1
    <3>1. frags' = <<>>
      <4>1. \A q \in Seq(Fragment) : Len(q) = 0 => q = <<>>
        OBVIOUS
      <4>2. Tail(frags) \in Seq(Fragment) /\ Len(Tail(frags)) = 0
        BY ONLY <2>3, <2>4
      <4> QED BY ONLY <2>1, <4>1, <4>2
    <3> QED BY <2>1, <2>2, <2>3, <2>4, <3>1 DEF NewestKept
  <2>5. CASE Len(frags) > 1
    <3>1. frags'[Len(frags')] = frags[Len(frags)] /\ frags' # <<>>
      <4> DEFINE n == Len(frags) - 1
      <4>1. n \in 1..Len(Tail(frags)) /\ Len(frags') = n /\ n + 1 = Len(frags)
        BY <2>1, <2>3, <2>5
      <4>2. frags'[n] = frags[n + 1]
        BY <2>1, <2>3, <4>1
      <4>3. Len(<<>>) = 0 /\ n # 0
        BY ONLY <4>1, <2>3, <2>5
      <4> HIDE DEF n
      <4> QED BY <4>1, <4>2, <4>3
    <3> QED BY <2>1, <2>2, <3>1 DEF NewestKept
  <2> QED BY <2>3, <2>4, <2>5
<1>8. CASE NextSample \/ RegisterCache \/ RemoveCache
             \/ (\E b \in Boxes : Register(b) \/ Remove(b))
             \/ (\E s \in Streams : Start(s) \/ Stop(s) \/ Publish(s) \/ PublishFails(s))
  <2>1. enc' = enc /\ frags' = frags
    BY <1>8 DEF NextSample, RegisterCache, RemoveCache, Register, Remove,
                Start, Stop, Publish, PublishFails, LoopRest
  <2>2. item'["video"] \in {item["video"], None}
    BY <1>8, LoopKeeps DEF NextSample, RegisterCache, RemoveCache, Register, Remove,
                Start, Stop, Publish, PublishFails, loopVars, Streams
  <2> QED BY <2>1, <2>2 DEF NewestKept, Newest
<1> QED BY <1>1, <1>2, <1>3, <1>4, <1>5, <1>6, <1>7, <1>8 DEF Next, Encoder, EventLoop

\* A fragment that was cut is the last in the queue until it is taken.
THEOREM NewestKeptCorrect == Spec => []NewestKept
<1>1. Init => NewestKept
  BY DEF Init, NewestKept
<1> QED BY <1>1, NewestStep, AlwaysTyped, PTL DEF Spec

-----------------------------------------------------------------------------
(* What ends the integrator's thread.                                      *)

\* Outside a handler each box has its cache; the integrator that was left in
\* peace works on boxes there are.
BoxesInStep ==
    /\ loop = None => boxes = caches
    /\ \A b \in Boxes : /\ loop = <<"register", b>> => boxes = caches \cup {b}
                        /\ loop = <<"remove", b>> => boxes = caches \ {b}
    /\ int.quiet /\ int.pc \in {"got", "copying", "integrating"} => loop = None
    /\ int.quiet /\ int.pc = "copying" => int.todo = boxes
    /\ int.quiet /\ int.pc = "integrating" => int.todo \subseteq boxes

LivesInv == BoxesInStep /\ IntegratorLives

\* A step that breaks the accord of boxes and caches is a handler's.
LEMMA LivesStep == Typed /\ LivesInv /\ [Next]_vars => LivesInv'
<1> SUFFICES ASSUME Typed, LivesInv, [Next]_vars PROVE LivesInv'
  OBVIOUS
<1> USE IntegratorKeeps, LoopKeeps DEF LivesInv
<1>1. CASE Grab \/ Encoder \/ NextVideo \/ NextSample \/ UNCHANGED vars
             \/ (\E s \in Streams : Start(s) \/ Stop(s) \/ Publish(s) \/ PublishFails(s))
  <2>1. UNCHANGED <<int, boxes, caches, loop>>
    BY <1>1 DEF Grab, Encoder, Encode, Cut, Put, Evict, Break, BackOff, Clear, ClearGet, EncRest,
                NextVideo, NextSample, Start, Stop, Publish, PublishFails, boxVars, vars
  <2> QED BY <2>1 DEF BoxesInStep, IntegratorLives
<1>2. CASE Integrator
  <2>1. boxes' = boxes /\ caches' = caches /\ loop' = loop
    BY <1>2 DEF Integrator, GetImage, Copy, Copied, Yield, PutSample, Integrate, IntRest, boxVars
  <2>2. CASE GetImage
    BY <2>1, <2>2 DEF GetImage, BoxesInStep, IntegratorLives
  <2>3. CASE Copy
    BY <2>1, <2>3 DEF Copy, BoxesInStep, IntegratorLives, IntStates
  <2>4. CASE Copied
    BY <2>1, <2>4 DEF Copied, BoxesInStep, IntegratorLives, IntStates
  <2>5. CASE Yield \/ PutSample
    BY <2>1, <2>5 DEF Yield, PutSample, BoxesInStep, IntegratorLives, IntStates
  <2>6. ASSUME NEW b \in Boxes, Integrate(b) PROVE LivesInv'
    BY <2>1, <2>6 DEF Integrate, BoxesInStep, IntegratorLives, IntStates
  <2> QED BY <1>2, <2>2, <2>3, <2>4, <2>5, <2>6 DEF Integrator
<1>3. CASE RegisterCache \/ RemoveCache \/ \E b \in Boxes : Register(b) \/ Remove(b)
  <2>1. int' = [int EXCEPT !.quiet = FALSE]
    BY <1>3 DEF RegisterCache, RemoveCache, Register, Remove, Disturb
  <2>2. ~int'.quiet
    BY <2>1 DEF IntStates
  <2>3. \A b \in Boxes : <<"register", b>> # None /\ <<"remove", b>> # None
    BY DEF None
  <2>4. CASE RegisterCache \/ RemoveCache
    <3>1. PICK b \in Boxes : loop = <<"register", b>> \/ loop = <<"remove", b>>
      BY <2>4 DEF RegisterCache, RemoveCache, Busy
    <3>2. loop' = None /\ boxes' = boxes /\ loop[2] = b
      BY <2>4, <3>1 DEF RegisterCache, RemoveCache
    <3>3. CASE RegisterCache
      <4>1. loop = <<"register", b>> /\ caches' = caches \cup {b}
        BY <3>1, <3>2, <3>3 DEF RegisterCache
      <4>2. boxes' = caches'
        BY <3>2, <4>1 DEF BoxesInStep
      <4> QED BY <2>2, <2>3, <3>2, <4>2 DEF BoxesInStep, IntegratorLives
    <3>4. CASE RemoveCache
      <4>1. loop = <<"remove", b>> /\ caches' = caches \ {b}
        BY <3>1, <3>2, <3>4 DEF RemoveCache
      <4>2. boxes' = caches'
        BY <3>2, <4>1 DEF BoxesInStep
      <4> QED BY <2>2, <2>3, <3>2, <4>2 DEF BoxesInStep, IntegratorLives
    <3> QED BY <2>4, <3>3, <3>4
  <2>5. ASSUME NEW b \in Boxes, Register(b) \/ Remove(b) PROVE LivesInv'
    BY <2>2, <2>3, <2>5 DEF Register, Remove, BoxesInStep, IntegratorLives
  <2> QED BY <1>3, <2>4, <2>5
<1> QED BY <1>1, <1>2, <1>3 DEF Next, EventLoop

\* The integrator ends for a box outside the picture, or for a handler that
\* changed the boxes while it was at a frame, and for nothing else.
THEOREM IntegratorLivesCorrect == Spec => []IntegratorLives
<1>1. Init => LivesInv
  BY DEF Init, LivesInv, BoxesInStep, IntegratorLives, None
<1>2. LivesInv => IntegratorLives
  BY DEF LivesInv
<1> QED BY <1>1, <1>2, LivesStep, AlwaysTyped, PTL DEF Spec

-----------------------------------------------------------------------------
(* The order of the integrator's stream. A sample is of one frame: those   *)
(* given out are of frames before the one at work, which is before those   *)
(* that wait.                                                              *)

FramesInOrder ==
    /\ int.frame <= given["integrator"]
    /\ \A n \in 1..Len(boxQ) : int.frame < boxQ[n] /\ boxQ[n] <= given["integrator"]
    /\ \A k, n \in 1..Len(boxQ) : k < n => boxQ[k] < boxQ[n]

Done(x) == x[1] <= int.frame /\ (Holds => x[1] < int.frame)

SamplesInOrder ==
    /\ \A n \in 1..Len(out) : Done(out[n])
    /\ \A k, n \in 1..Len(out) : k < n => out[k][1] < out[n][1]
    /\ item["integrator"] # None =>
          Done(item["integrator"]) /\ \A n \in 1..Len(out) : item["integrator"][1] < out[n][1]
    /\ wire["integrator"] # None =>
          Done(wire["integrator"]) /\ \A n \in 1..Len(out) : wire["integrator"][1] < out[n][1]
    /\ item["integrator"] # None /\ wire["integrator"] # None =>
          wire["integrator"][1] < item["integrator"][1]

\* What the integrator's stream carries.
LEMMA CarriedSamples ==
    ASSUME Typed
    PROVE  /\ item["integrator"] # None => item["integrator"] \in Sample
           /\ wire["integrator"] # None => wire["integrator"] \in Sample
           /\ \A x \in Sample : x # None /\ x[1] \in Nat
           /\ int.frame \in Nat /\ given["integrator"] \in Nat
<1>1. \A x \in Sample : x # None /\ x[1] \in Nat
  BY Sizes DEF Sample, None
<1>2. int.frame \in Nat
  BY IntegratorKeeps, Sizes DEF IntStates
<1>3. given["integrator"] \in 0..MaxFrames
  BY DEF Typed, TypeOK, Streams
<1>4. given["integrator"] \in Nat
  BY <1>3, Sizes
<1> QED BY <1>1, <1>2, <1>4 DEF Typed, Carried

\* The frames that wait are later than the one at work.
LEMMA FramesStep == Typed /\ FramesInOrder /\ [Next]_vars => FramesInOrder'
<1> SUFFICES ASSUME Typed, FramesInOrder, [Next]_vars PROVE FramesInOrder'
  OBVIOUS
<1> USE IntegratorKeeps, CarriedSamples
<1>1. CASE Grab
  <2> DEFINE g == given["integrator"] + 1
  <2>1. int' = int
    BY <1>1 DEF Grab
  <2>2. CASE Gets(boxQ, "integrator")
    <3>1. boxQ' = Append(boxQ, g) /\ given'["integrator"] = g
      BY <1>1, <2>2 DEF Grab, Fan, Streams
    <3>2. g \in 1..MaxFrames
      <4>1. "integrator" \in Streams
        BY DEF Streams
      <4>2. /\ limit["integrator"] \in 0..MaxFrames /\ given["integrator"] \in 0..MaxFrames
            /\ given["integrator"] < limit["integrator"]
        BY <2>2, <4>1, LimitFacts DEF Gets, Typed, TypeOK
      <4> QED BY ONLY <4>2, Sizes
    <3>3. /\ Len(boxQ) \in Nat /\ boxQ'[Len(boxQ) + 1] = g
          /\ \A n \in 1..Len(boxQ') : n \in 1..Len(boxQ) \/ n = Len(boxQ) + 1
          /\ \A n \in 1..Len(boxQ') : ~(Len(boxQ) + 1 < n)
          /\ \A n \in 1..Len(boxQ) : boxQ'[n] = boxQ[n] /\ boxQ[n] \in Nat
      <4>1. /\ Len(Append(boxQ, g)) = Len(boxQ) + 1 /\ Len(boxQ) \in Nat
            /\ Append(boxQ, g)[Len(boxQ) + 1] = g
            /\ \A n \in 1..Len(boxQ) : Append(boxQ, g)[n] = boxQ[n]
        BY <3>2, AppendFacts
      <4>2. \A n \in 1..Len(boxQ) : boxQ[n] \in Nat
        BY Sizes
      <4> HIDE DEF g
      <4> QED BY ONLY <3>1, <4>1, <4>2
    <3>4. /\ int'.frame <= g
          /\ \A n \in 1..Len(boxQ) : int'.frame < boxQ'[n] /\ boxQ'[n] < g
          /\ \A k, n \in 1..Len(boxQ) : k < n => boxQ'[k] < boxQ'[n]
          /\ int'.frame < g
      <4>1. int.frame \in Nat /\ given["integrator"] \in Nat /\ int'.frame = int.frame
        BY <2>1
      <4>2. int'.frame <= g /\ int'.frame < g
        BY <4>1 DEF FramesInOrder
      <4>3. ASSUME NEW n \in 1..Len(boxQ) PROVE int'.frame < boxQ'[n] /\ boxQ'[n] < g
        <5>1. int.frame < boxQ[n] /\ boxQ[n] <= given["integrator"]
              /\ boxQ'[n] = boxQ[n] /\ boxQ[n] \in Nat
          BY <3>3 DEF FramesInOrder
        <5> QED BY ONLY <4>1, <5>1
      <4>4. \A k, n \in 1..Len(boxQ) : k < n => boxQ'[k] < boxQ'[n]
        BY <3>3 DEF FramesInOrder
      <4> QED BY <4>2, <4>3, <4>4
    <3> HIDE DEF g
    <3>5. g \in Nat
      BY <3>2, Sizes
    <3> QED BY ONLY <3>1, <3>3, <3>4, <3>5 DEF FramesInOrder
  <2>3. CASE ~Gets(boxQ, "integrator")
    BY <1>1, <2>1, <2>3 DEF Grab, Fan, Streams, FramesInOrder, Typed, TypeOK
  <2> QED BY <2>2, <2>3
<1>2. CASE GetImage
  <2>1. /\ boxQ # <<>> /\ boxQ' = Tail(boxQ) /\ int'.frame = Head(boxQ) /\ given' = given
    BY <1>2 DEF GetImage, IntRest
  <2>2. /\ Head(boxQ) = boxQ[1] /\ 1 \in 1..Len(boxQ)
        /\ \A n \in 1..Len(Tail(boxQ)) : /\ Tail(boxQ)[n] = boxQ[n + 1] /\ n + 1 \in 1..Len(boxQ)
                                        /\ 1 < n + 1
        /\ \A k, n \in 1..Len(Tail(boxQ)) : k < n => k + 1 < n + 1
    BY <2>1, HeadTail
  <2> QED BY ONLY <2>1, <2>2, FramesInOrder DEF FramesInOrder
<1>3. CASE Copy \/ Copied \/ Yield \/ PutSample \/ (\E b \in Boxes : Integrate(b))
  <2>1. boxQ' = boxQ /\ given' = given /\ int'.frame = int.frame
    BY <1>3 DEF Copy, Copied, Yield, PutSample, Integrate, IntRest, IntStates
  <2> QED BY <2>1 DEF FramesInOrder
<1>4. CASE Encoder \/ EventLoop \/ UNCHANGED vars
  <2>1. boxQ' = boxQ /\ given' = given
    BY <1>4 DEF Encoder, Encode, Cut, Put, Evict, Break, BackOff, Clear, ClearGet, EncRest,
                EventLoop, RegisterCache, RemoveCache, NextVideo, NextSample, Register, Remove,
                Start, Stop, Publish, PublishFails, LoopRest, vars
  <2>2. int' = int \/ Disturb
    BY <1>4 DEF Encoder, Encode, Cut, Put, Evict, Break, BackOff, Clear, ClearGet, EncRest,
                EventLoop, RegisterCache, RemoveCache, NextVideo, NextSample, Register, Remove,
                Start, Stop, Publish, PublishFails, vars
  <2>3. int'.frame = int.frame
    BY <2>2 DEF Disturb, IntStates
  <2> QED BY <2>1, <2>3 DEF FramesInOrder
<1> QED BY <1>1, <1>2, <1>3, <1>4 DEF Next, Integrator

\* What was done with stays so.
LEMMA SamplesKept ==
    ASSUME Typed, SamplesInOrder, out' = out,
           item'["integrator"] = item["integrator"], wire'["integrator"] = wire["integrator"],
           \A x \in Sample : Done(x) => Done(x)'
    PROVE  SamplesInOrder'
<1>1. \A n \in 1..Len(out) : out[n] \in Sample
  BY IntegratorKeeps
<1> QED BY <1>1, CarriedSamples DEF SamplesInOrder, Done

\* The sample that is put comes after those in the queue.
LEMMA IntegratorInOrder ==
    ASSUME Typed, FramesInOrder, SamplesInOrder, Integrator PROVE SamplesInOrder'
<1> USE IntegratorKeeps, CarriedSamples
<1>0. item' = item /\ wire' = wire
  BY DEF Integrator, GetImage, Copy, Copied, Yield, PutSample, Integrate, IntRest, loopVars
<1>1. CASE GetImage
  <2>1. out' = out /\ int'.frame = Head(boxQ) /\ ~Holds /\ boxQ # <<>>
    BY <1>1 DEF GetImage, Holds
  <2>2. Head(boxQ) = boxQ[1] /\ 1 \in 1..Len(boxQ) /\ Head(boxQ) \in 1..MaxFrames
    <3>1. boxQ # <<>> /\ boxQ \in Seq(1..MaxFrames)
      BY <2>1
    <3>2. Head(boxQ) = boxQ[1] /\ Len(boxQ) \in Nat \ {0} /\ Head(boxQ) \in 1..MaxFrames
      BY ONLY <3>1, HeadTail
    <3> QED BY ONLY <3>2
  <2>3. int.frame < int'.frame /\ int'.frame \in Nat
    BY <2>1, <2>2, Sizes DEF FramesInOrder
  <2>4. \A x \in Sample : Done(x) => x[1] < int'.frame
    BY <2>3 DEF Done
  <2>5. \A x \in Sample : Done(x) => Done(x)'
    BY <2>3, <2>4 DEF Done
  <2> QED BY <1>0, <2>1, <2>5, SamplesKept
<1>2. CASE Copy \/ Copied \/ Yield \/ \E b \in Boxes : Integrate(b)
  <2>1. out' = out /\ int'.frame = int.frame /\ Holds
    BY <1>2 DEF Copy, Copied, Yield, Integrate, IntStates, Holds
  <2>2. \A x \in Sample : Done(x) => Done(x)'
    BY <2>1 DEF Done
  <2> QED BY <1>0, <2>1, <2>2, SamplesKept
<1>3. CASE PutSample
  <2> DEFINE y == <<int.frame>>
  <2>1. out' = Append(out, y) /\ int'.frame = int.frame /\ Holds /\ ~Holds'
    BY <1>3 DEF PutSample, IntStates, Holds
  <2>2. y \in Sample /\ y[1] = int.frame
    BY <2>1 DEF Sample, IntStates
  <2> HIDE DEF y
  <2>3. /\ Len(out) \in Nat /\ out'[Len(out) + 1] = y
        /\ \A n \in 1..Len(out') : n \in 1..Len(out) \/ n = Len(out) + 1
        /\ \A n \in 1..Len(out') : ~(Len(out) + 1 < n)
        /\ \A n \in 1..Len(out) : out'[n] = out[n] /\ out[n] \in Sample
    <3>1. /\ Len(Append(out, y)) = Len(out) + 1 /\ Len(out) \in Nat
          /\ Append(out, y)[Len(out) + 1] = y
          /\ \A n \in 1..Len(out) : Append(out, y)[n] = out[n]
      BY <2>2, AppendFacts
    <3>2. \A n \in 1..Len(out) : out[n] \in Sample
      OBVIOUS
    <3> QED BY ONLY <2>1, <3>1, <3>2
  <2>4. \A x \in Sample : Done(x) => x[1] < y[1] /\ Done(x)'
    BY <2>1, <2>2 DEF Done
  <2>5. y[1] <= int'.frame
    BY <2>1, <2>2
  <2>6. /\ \A n \in 1..Len(out') : Done(out[n])'
        /\ \A k, n \in 1..Len(out') : k < n => out'[k][1] < out'[n][1]
    <3>1. \A n \in 1..Len(out) : Done(out[n]) /\ out[n] \in Sample
      BY <2>3 DEF SamplesInOrder
    <3>2. \A n \in 1..Len(out) : out'[n][1] < y[1] /\ out'[n][1] <= int'.frame
      BY <2>3, <2>4, <3>1 DEF Done
    <3>3. \A n \in 1..Len(out') : Done(out[n])'
      BY <2>1, <2>3, <2>5, <3>2 DEF Done
    <3>4. \A k, n \in 1..Len(out) : k < n => out'[k][1] < out'[n][1]
      BY <2>3 DEF SamplesInOrder
    <3>5. \A k, n \in 1..Len(out') : k < n => out'[k][1] < out'[n][1]
      BY <2>3, <3>2, <3>4
    <3> QED BY <3>3, <3>5
  <2>7. ASSUME NEW x \in Sample, Done(x), \A n \in 1..Len(out) : x[1] < out[n][1]
        PROVE  Done(x)' /\ \A n \in 1..Len(out') : x[1] < out'[n][1]
    BY <2>3, <2>4, <2>7
  <2> QED BY <1>0, <2>6, <2>7 DEF SamplesInOrder, Done
<1> QED BY <1>1, <1>2, <1>3 DEF Integrator

\* The loop that takes from the queue and publishes keeps the order.
LEMMA SamplesTaken ==
    ASSUME Typed, SamplesInOrder,
           NextSample \/ \E s \in Streams : Start(s) \/ Stop(s) \/ Publish(s) \/ PublishFails(s)
    PROVE  SamplesInOrder'
<1> USE IntegratorKeeps, LoopKeeps, CarriedSamples
<1>1. Holds' = Holds /\ int' = int
  BY DEF NextSample, Start, Stop, Publish, PublishFails, Holds
<1>2. CASE NextSample
  <2>1. /\ out # <<>> /\ out' = Tail(out) /\ wire' = wire /\ item["integrator"] = None
        /\ item'["integrator"] = Head(out)
    BY <1>2 DEF NextSample, Streams
  <2>2. /\ Head(out) = out[1] /\ 1 \in 1..Len(out) /\ Head(out) \in Sample
        /\ \A n \in 1..Len(Tail(out)) : /\ Tail(out)[n] = out[n + 1] /\ n + 1 \in 1..Len(out)
                                        /\ 1 < n + 1
        /\ \A k, n \in 1..Len(Tail(out)) : k < n => k + 1 < n + 1
    BY <2>1, HeadTail
  <2> QED BY ONLY <1>1, <2>1, <2>2, SamplesInOrder DEF SamplesInOrder, Done
<1>3. ASSUME NEW s \in Streams, Start(s) \/ Stop(s) \/ Publish(s) \/ PublishFails(s)
      PROVE  SamplesInOrder'
  <2>1. out' = out
    BY <1>3 DEF Start, Stop, Publish, PublishFails
  <2>2. \/ /\ item'["integrator"] = item["integrator"]
           /\ wire'["integrator"] = wire["integrator"]
        \/ /\ item'["integrator"] = None
           /\ wire'["integrator"] \in {wire["integrator"], item["integrator"]}
    BY <1>3 DEF Start, Stop, Publish, PublishFails, Streams
  <2> QED BY ONLY <1>1, <2>1, <2>2, SamplesInOrder DEF SamplesInOrder, Done
<1> QED BY <1>2, <1>3

\* Every step keeps it.
LEMMA SamplesStep ==
    Typed /\ FramesInOrder /\ SamplesInOrder /\ [Next]_vars => SamplesInOrder'
<1> SUFFICES ASSUME Typed, FramesInOrder, SamplesInOrder, [Next]_vars PROVE SamplesInOrder'
  OBVIOUS
<1> USE IntegratorKeeps, LoopKeeps
<1>1. CASE Grab \/ Encoder \/ UNCHANGED vars \/ NextVideo \/ RegisterCache \/ RemoveCache
             \/ (\E b \in Boxes : Register(b) \/ Remove(b))
  <2>1. out' = out /\ wire' = wire /\ item'["integrator"] = item["integrator"]
    BY <1>1 DEF Grab, Encoder, Encode, Cut, Put, Evict, Break, BackOff, Clear, ClearGet, EncRest,
                NextVideo, RegisterCache, RemoveCache, Register, Remove, loopVars, vars, Streams
  <2>2. int' = int \/ Disturb
    BY <1>1 DEF Grab, Encoder, Encode, Cut, Put, Evict, Break, BackOff, Clear, ClearGet, EncRest,
                NextVideo, RegisterCache, RemoveCache, Register, Remove, vars
  <2>3. int'.frame = int.frame /\ int'.pc = int.pc
    BY <2>2 DEF Disturb, IntStates
  <2>4. \A x \in Sample : Done(x) => Done(x)'
    BY <2>3 DEF Done, Holds
  <2> QED BY <2>1, <2>4, SamplesKept
<1>2. CASE Integrator
  BY <1>2, IntegratorInOrder
<1>3. CASE NextSample \/ \E s \in Streams : Start(s) \/ Stop(s) \/ Publish(s) \/ PublishFails(s)
  BY <1>3, SamplesTaken
<1> QED BY <1>1, <1>2, <1>3 DEF Next, EventLoop

\* Whatever is dropped, evicted, rebuilt or not published, what a stream
\* publishes is later than what it published before.
THEOREM StreamsForwardCorrect == Spec => StreamsForward
<1>1. Init => FramesInOrder /\ SamplesInOrder
  BY Sizes, LimitFacts DEF Init, FramesInOrder, SamplesInOrder, Streams
<1>2. Spec => [](FramesInOrder /\ SamplesInOrder)
  BY <1>1, FramesStep, SamplesStep, AlwaysTyped, PTL DEF Spec
<1>3. Typed /\ VideoInOrder /\ SamplesInOrder
         => [\A s \in Streams : Publish(s) => Newer(item[s], wire[s])]_vars
  <2> SUFFICES ASSUME Typed, VideoInOrder, SamplesInOrder, NEW s \in Streams, Publish(s)
               PROVE  Newer(item[s], wire[s])
    OBVIOUS
  <2>1. item[s] # None
    BY DEF Publish
  <2>2. CASE s = "video"
    <3>1. CASE wire[s] = None
      BY <3>1 DEF Newer
    <3>2. CASE wire[s] # None
      <4>1. Older(wire[s], item[s]) /\ wire[s] \in Place /\ item[s] \in Place
        BY <2>1, <2>2, <3>2, CarriedPlaces DEF VideoInOrder
      <4>2. Len(item[s]) = 2
        BY <2>1, <2>2, Places DEF Typed, Carried
      <4>3. {wire[s][1], wire[s][2], item[s][1], item[s][2]} \subseteq Nat
        BY <4>1, Sizes DEF Place
      <4> QED BY ONLY <4>1, <4>2, <4>3 DEF Older, Newer
    <3> QED BY <3>1, <3>2
  <2>3. CASE s = "integrator"
    BY <2>1, <2>3, CarriedSamples DEF SamplesInOrder, Newer
  <2> QED BY <2>2, <2>3 DEF Streams
<1> QED BY <1>2, <1>3, AlwaysTyped, AlwaysInOrder, PTL DEF StreamsForward
=============================================================================
