--------------------------- MODULE RecorderPoolProofs ---------------------------
(***************************************************************************)
(* Theorems about RecorderPool: the frames of a recording, and its samples *)
(* as long as no thread overtakes another and none loses the indices it    *)
(* took, for any number of threads, frames, samples, boxes (none included) *)
(* and failures and any size of the buffer.                                *)
(***************************************************************************)
EXTENDS RecorderPool, TLAPS

\* What a thread may be at.
Places ==
    [pc : {"idle", "taken", "read", "counted", "stored", "indexed", "buffered"},
     item : Items \cup {NoItem}, row : Nat, rows : Seq(Nat)]

\* The part of the state that frames depend on.
PoolTyped ==
    /\ handler \in Stages
    /\ offered \subseteq Items
    /\ jobs \in Seq(Items)
    /\ at \in [Workers -> Places]
    /\ lock \in Workers \cup {NoWorker}
    /\ next \in [frame : Nat, root : Nat, box : Nat]
    /\ written \subseteq Nat \X Frames
    /\ size \in Nat
    /\ kept \in [saved : SUBSET Items, limited : SUBSET Frames]
    /\ failures \in Nat
    /\ timedOut \in BOOLEAN

\* Who holds _lock_write writes the row of a frame; samples are buffered.
Writing(w) == at[w].pc \in {"read", "counted", "stored"}
Counting(w) == at[w].pc \in {"counted", "stored"}

LockHeld ==
    \A w \in Workers : /\ Writing(w) <=> lock = w
                       /\ Writing(w) => at[w].item \in Frames
                       /\ at[w].pc \in {"indexed", "buffered"} => at[w].item \in Samples

\* The row at work is the last index that was given, and nobody else's.
RowsApart ==
    /\ \A w \in Workers : /\ at[w].pc = "read" => at[w].row = next.frame
                          /\ Counting(w) => next.frame = at[w].row + 1
                          /\ at[w].pc = "counted" => \A x \in written : x[1] < at[w].row
                          /\ at[w].pc = "stored" => <<at[w].row, at[w].item>> \in written
    /\ \A x \in written : x[1] < next.frame
    /\ \A x, y \in written : x[1] = y[1] => x = y
    /\ \A f \in kept.saved \cap Frames : \E x \in written : x[2] = f

\* Until the pool was given up on, an index was counted, failed or is at work.
IndicesCounted ==
    ~timedOut => /\ next.frame <= size + failures + 1
                 /\ next.frame <= size + failures \/ \E w \in Workers : Counting(w)

\* A join that ended in time found the pool at rest.
PoolAtRest ==
    handler \in {"joined", "flushed", "closed"} /\ ~timedOut =>
       jobs = <<>> /\ \A w \in Workers : at[w].pc = "idle"

\* Where a frame that was offered may be.
Waits(f) == \E n \in 1..Len(jobs) : jobs[n] = f
AtWork(f) == \E w \in Workers : at[w].item = f /\ (at[w].pc = "taken" \/ Writing(w))
Settled(f) == f \in kept.saved \cup kept.limited \/ failures > 0

FramesHeld == ~timedOut => \A f \in offered \cap Frames : Waits(f) \/ AtWork(f) \/ Settled(f)

IInv == PoolTyped /\ LockHeld /\ RowsApart /\ IndicesCounted /\ PoolAtRest /\ FramesHeld

\* What the assumptions on the constants say, for arithmetic.
LEMMA Bounds == MaxFailures \in Nat /\ \A s \in Samples : Boxes[s] \in Nat
BY ItemAssumption, BoundAssumption

\* The numbers.
LEMMA Numbers ==
    ASSUME PoolTyped
    PROVE  /\ next.frame \in Nat /\ size \in Nat /\ failures \in Nat /\ Len(jobs) \in Nat
           /\ \A w \in Workers : at[w].row \in Nat
           /\ \A x \in written : x \in Nat \X Frames
BY DEF PoolTyped, Places

\* What a thread does touches its own place only.
OtherThreads(w) == \A v \in Workers : v # w => at'[v] = at[v]

\* A thread's own place is one of the known places.
LEMMA OwnPlace ==
    ASSUME PoolTyped, NEW w \in Workers, NEW x \in Places, at' = [at EXCEPT ![w] = x]
    PROVE  OtherThreads(w) /\ at'[w] = x /\ at' \in [Workers -> Places]
BY DEF PoolTyped, OtherThreads

\* Moving one thread leaves the others where they are.
LEMMA SetPlace ==
    ASSUME PoolTyped, NEW w \in Workers, Set(w, "counted") \/ Set(w, "stored") \/ Set(w, "buffered")
    PROVE  /\ OtherThreads(w) /\ at' \in [Workers -> Places]
           /\ at'[w].item = at[w].item /\ at'[w].row = at[w].row
           /\ \A pc \in {"counted", "stored", "buffered"} : Set(w, pc) => at'[w].pc = pc
<1>1. ASSUME NEW pc \in {"counted", "stored", "buffered"}, Set(w, pc)
      PROVE  /\ OtherThreads(w) /\ at' \in [Workers -> Places]
             /\ at'[w].item = at[w].item /\ at'[w].row = at[w].row /\ at'[w].pc = pc
  <2>1. at[w] \in Places /\ at' = [at EXCEPT ![w] = [at[w] EXCEPT !.pc = pc]]
    BY <1>1 DEF PoolTyped, Set
  <2>2. [at[w] EXCEPT !.pc = pc] \in Places
    BY <2>1 DEF Places
  <2> QED BY <2>1, <2>2, OwnPlace DEF Places
<1> QED BY <1>1

\* A thread that is done with its job is idle.
LEMMA DonePlace ==
    ASSUME PoolTyped, NEW w \in Workers, Done(w)
    PROVE  OtherThreads(w) /\ at' \in [Workers -> Places] /\ at'[w].pc = "idle"
<1>1. <<>> \in Seq(Nat)
  OBVIOUS
<1>2. Idle \in Places /\ Idle.pc = "idle"
  BY <1>1 DEF Idle, Places
<1> QED BY <1>2 DEF PoolTyped, Done, OtherThreads

\* At the start nothing is indexed, written or buffered.
LEMMA InitHolds == Init => IInv
<1> SUFFICES ASSUME Init PROVE IInv
  OBVIOUS
<1>1. at \in [Workers -> Places]
      /\ \A w \in Workers : at[w].pc = "idle"
  BY DEF Init, Idle, Places
<1>2. PoolTyped
  <2>1. /\ handler \in Stages /\ offered \subseteq Items /\ lock \in Workers \cup {NoWorker}
        /\ written \subseteq Nat \X Frames /\ timedOut \in BOOLEAN
    BY DEF Init, Stages
  <2>2. next \in [frame : Nat, root : Nat, box : Nat] /\ size \in Nat /\ failures \in Nat
    BY DEF Init
  <2>3. jobs \in Seq(Items) /\ kept \in [saved : SUBSET Items, limited : SUBSET Frames]
    BY DEF Init
  <2> QED BY <1>1, <2>1, <2>2, <2>3 DEF PoolTyped
<1>3. LockHeld /\ RowsApart
  BY <1>1, PoolAssumption DEF Init, LockHeld, RowsApart, Writing, Counting
<1>4. IndicesCounted /\ PoolAtRest /\ FramesHeld
  BY <1>1 DEF Init, IndicesCounted, PoolAtRest, FramesHeld
<1> QED BY <1>2, <1>3, <1>4 DEF IInv

-----------------------------------------------------------------------------
(* The event loop.                                                         *)

\* A frame is delivered: it waits.
LEMMA OfferStep == ASSUME IInv, NEW i \in Items, Offer(i) PROVE IInv'
<1> USE DEF IInv
<1>1. /\ handler \in {"recording", "leaving"} /\ handler' = handler /\ at' = at /\ lock' = lock
      /\ next' = next /\ written' = written /\ size' = size /\ kept' = kept
      /\ failures' = failures /\ timedOut' = timedOut
      /\ offered' = offered \cup {i} /\ jobs' = Append(jobs, i)
  BY DEF Offer, fileVars, ghosts
<1>2. /\ jobs' \in Seq(Items) /\ Len(jobs') = Len(jobs) + 1 /\ Len(jobs) \in Nat
      /\ jobs'[Len(jobs) + 1] = i /\ \A n \in 1..Len(jobs) : jobs'[n] = jobs[n]
  BY <1>1 DEF PoolTyped
<1>3. PoolTyped'
  BY <1>1, <1>2 DEF PoolTyped
<1>4. LockHeld' /\ RowsApart' /\ IndicesCounted' /\ PoolAtRest'
  BY <1>1 DEF LockHeld, RowsApart, IndicesCounted, PoolAtRest, Writing, Counting
<1>5. FramesHeld'
  <2>1. \A f \in Frames : Waits(f) \/ f = i => Waits(f)'
    BY <1>2 DEF Waits
  <2>2. \A f \in Frames : (AtWork(f) => AtWork(f)') /\ (Settled(f) => Settled(f)')
    BY <1>1 DEF AtWork, Writing, Settled
  <2> QED BY <1>1, <2>1, <2>2 DEF FramesHeld
<1> QED BY <1>3, <1>4, <1>5

\* The handler goes on; only a join that gave up lets go of the pool.
LEMMA CloseStep == ASSUME IInv, Close PROVE IInv'
<1> USE DEF IInv
<1>1. /\ offered' = offered /\ jobs' = jobs /\ at' = at /\ lock' = lock /\ next' = next
      /\ written' = written /\ size' = size /\ kept' = kept /\ failures' = failures
  BY DEF Close, StopRecording, StopServer, Join, JoinTimeout, CloseFlush, CloseFile,
         saveVars, fileVars
<1>2. /\ handler' \in Stages /\ timedOut' \in BOOLEAN /\ (timedOut => timedOut')
      /\ handler' \in {"joined", "flushed", "closed"} /\ ~timedOut' =>
            \/ handler \in {"joined", "flushed", "closed"}
            \/ jobs = <<>> /\ \A w \in Workers : at[w].pc = "idle"
  BY DEF Close, StopRecording, StopServer, Join, JoinTimeout, CloseFlush, CloseFile, ghosts,
         Stages, PoolTyped
<1>3. PoolTyped'
  BY <1>1, <1>2 DEF PoolTyped
<1>4. LockHeld' /\ RowsApart'
  BY <1>1 DEF LockHeld, RowsApart, Writing, Counting
<1>5. IndicesCounted'
  BY <1>1, <1>2 DEF IndicesCounted, Counting
<1>6. PoolAtRest'
  BY <1>1, <1>2 DEF PoolAtRest
<1>7. FramesHeld'
  <2>1. \A f \in Frames : /\ Waits(f) => Waits(f)'
                          /\ AtWork(f) => AtWork(f)'
                          /\ Settled(f) => Settled(f)'
    BY <1>1 DEF Waits, AtWork, Writing, Settled
  <2> QED BY <1>1, <1>2, <2>1 DEF FramesHeld
<1> QED BY <1>3, <1>4, <1>5, <1>6, <1>7

-----------------------------------------------------------------------------
(* The threads of the pool.                                                *)

\* A thread takes what waited longest.
LEMMA TakeStep == ASSUME IInv, NEW w \in Workers, Take(w) PROVE IInv'
<1> USE DEF IInv
<1>1. /\ at[w].pc = "idle" /\ jobs # <<>> /\ jobs' = Tail(jobs)
      /\ handler' = handler /\ offered' = offered /\ lock' = lock /\ next' = next
      /\ written' = written /\ size' = size /\ kept' = kept /\ failures' = failures
      /\ timedOut' = timedOut
  BY DEF Take, fileVars, ghosts
<1>2. /\ Head(jobs) \in Items /\ Head(jobs) = jobs[1] /\ jobs' \in Seq(Items)
      /\ Len(jobs) \in Nat \ {0} /\ Len(jobs') = Len(jobs) - 1
      /\ \A n \in 1..Len(jobs') : jobs'[n] = jobs[n + 1]
  BY <1>1 DEF PoolTyped
<1>3. /\ OtherThreads(w) /\ at'[w].pc = "taken" /\ at'[w].item = Head(jobs)
      /\ at' \in [Workers -> Places]
  <2> DEFINE new == [Idle EXCEPT !.pc = "taken", !.item = Head(jobs)]
  <2>1. Idle \in Places
    <3>1. <<>> \in Seq(Nat)
      OBVIOUS
    <3> QED BY <3>1 DEF Idle, Places
  <2>2. new \in Places
    BY <1>2, <2>1 DEF Places
  <2>3. new.pc = "taken" /\ new.item = Head(jobs)
    BY <2>1 DEF Places
  <2>4. at' = [at EXCEPT ![w] = new]
    BY DEF Take
  <2> HIDE DEF new
  <2> QED BY <2>2, <2>3, <2>4 DEF PoolTyped, OtherThreads
<1>4. PoolTyped'
  BY <1>1, <1>2, <1>3 DEF PoolTyped
<1>5. LockHeld'
  BY <1>1, <1>3 DEF LockHeld, Writing, OtherThreads
<1>6. RowsApart'
  <2>1. /\ at'[w].pc \notin {"read", "counted", "stored"}
        /\ next' = next /\ written' = written /\ kept' = kept
    BY <1>1, <1>3
  <2>2. \A v \in Workers : v # w => at'[v] = at[v]
    BY <1>3 DEF OtherThreads
  <2> QED BY ONLY <2>1, <2>2, RowsApart DEF RowsApart, Counting
<1>7. IndicesCounted'
  BY <1>1, <1>3 DEF IndicesCounted, Counting, OtherThreads
<1>8. PoolAtRest'
  BY <1>1 DEF PoolAtRest
<1>9. FramesHeld'
  <2>1. ASSUME NEW f \in Frames, Waits(f) PROVE Waits(f)' \/ AtWork(f)'
    <3>1. PICK n \in 1..Len(jobs) : jobs[n] = f
      BY <2>1 DEF Waits
    <3>2. CASE n = 1
      BY <1>2, <1>3, <3>1, <3>2 DEF AtWork
    <3>3. CASE n # 1
      <4>1. n - 1 \in 1..Len(jobs') /\ jobs'[n - 1] = jobs[n]
        BY <1>2, <3>3
      <4> QED BY <3>1, <4>1 DEF Waits
    <3> QED BY <3>2, <3>3
  <2>2. \A f \in Frames : (AtWork(f) => AtWork(f)') /\ (Settled(f) => Settled(f)')
    BY <1>1, <1>3 DEF AtWork, Writing, Settled, OtherThreads
  <2> QED BY <1>1, <2>1, <2>2 DEF FramesHeld
<1> QED BY <1>4, <1>5, <1>6, <1>7, <1>8, <1>9

\* A frame stays where it is unless its thread is done with it.
LEMMA HeldStep ==
    ASSUME FramesHeld, NEW w \in Workers, OtherThreads(w),
           jobs' = jobs, offered' = offered, timedOut' = timedOut,
           \A f \in Frames : Settled(f) => Settled(f)',
           \A f \in Frames : at[w].item = f /\ (at[w].pc = "taken" \/ Writing(w)) =>
              \/ Settled(f)'
              \/ at'[w].item = f /\ at'[w].pc \in {"taken", "read", "counted", "stored"}
    PROVE  FramesHeld'
<1>1. \A f \in Frames : Waits(f) => Waits(f)'
  BY DEF Waits
<1>2. \A f \in Frames : AtWork(f) => AtWork(f)' \/ Settled(f)'
  BY DEF AtWork, Writing, OtherThreads
<1> QED BY <1>1, <1>2 DEF FramesHeld

\* A thread at work means a pool that is not at rest.
LEMMA BusyPool ==
    ASSUME PoolAtRest, NEW w \in Workers, at[w].pc # "idle", handler' = handler, timedOut' = timedOut
    PROVE  PoolAtRest'
BY DEF PoolAtRest

\* A step of a thread that does not write a row.
LEMMA AsideStep ==
    ASSUME IInv, NEW w \in Workers, OtherThreads(w), at' \in [Workers -> Places],
           at[w].pc \in {"taken", "indexed", "buffered"},
           at'[w].pc \in {"idle", "indexed", "buffered"},
           at'[w].pc \in {"indexed", "buffered"} => at'[w].item \in Samples,
           handler' = handler, offered' = offered, jobs' = jobs, lock' = lock,
           next' \in [frame : Nat, root : Nat, box : Nat], next'.frame = next.frame,
           written' = written, size' = size, failures' = failures, timedOut' = timedOut,
           kept' \in [saved : SUBSET Items, limited : SUBSET Frames],
           kept.saved \subseteq kept'.saved, kept.limited \subseteq kept'.limited,
           kept'.saved \cap Frames = kept.saved \cap Frames,
           at[w].pc = "taken" /\ at[w].item \in Frames => at[w].item \in kept'.limited
    PROVE  IInv'
<1> USE DEF IInv
<1>1. PoolTyped'
  BY DEF PoolTyped
<1>2. LockHeld'
  BY DEF LockHeld, Writing, OtherThreads
<1>3. RowsApart'
  BY DEF RowsApart, Counting, OtherThreads
<1>4. IndicesCounted'
  BY DEF IndicesCounted, Counting, OtherThreads
<1>5. PoolAtRest'
  BY BusyPool
<1>6. FramesHeld'
  <2>1. \A f \in Frames : Settled(f) => Settled(f)'
    BY DEF Settled
  <2>2. \A f \in Frames : at[w].item = f /\ (at[w].pc = "taken" \/ Writing(w)) => Settled(f)'
    BY DEF Settled, Writing
  <2> QED BY <2>1, <2>2, HeldStep
<1> QED BY <1>1, <1>2, <1>3, <1>4, <1>5, <1>6

\* A frame too soon after the last one is let go.
LEMMA LimitStep == ASSUME IInv, NEW w \in Workers, Limit(w) PROVE IInv'
<1>1. /\ at[w].pc = "taken" /\ at[w].item \in Frames /\ Done(w)
      /\ kept' = [kept EXCEPT !.limited = @ \cup {at[w].item}]
      /\ handler' = handler /\ offered' = offered /\ jobs' = jobs /\ lock' = lock /\ next' = next
      /\ written' = written /\ size' = size /\ failures' = failures /\ timedOut' = timedOut
  BY DEF Limit, fileVars, ghosts
<1>2. OtherThreads(w) /\ at' \in [Workers -> Places] /\ at'[w].pc = "idle"
  BY <1>1, DonePlace DEF IInv
<1>3. /\ kept' \in [saved : SUBSET Items, limited : SUBSET Frames]
      /\ kept'.saved = kept.saved /\ kept'.limited = kept.limited \cup {at[w].item}
      /\ next \in [frame : Nat, root : Nat, box : Nat]
  BY <1>1 DEF IInv, PoolTyped
<1> QED BY <1>1, <1>2, <1>3, AsideStep

\* A sample takes its indices.
LEMMA AllocateStep == ASSUME IInv, NEW w \in Workers, Allocate(w) PROVE IInv'
<1> DEFINE n == Boxes[at[w].item]
<1> DEFINE rows == [k \in 1..n |-> next.box + k - 1]
<1> DEFINE x == [at[w] EXCEPT !.pc = "indexed", !.row = next.root, !.rows = rows]
<1>1. /\ at[w].pc = "taken" /\ at[w].item \in Samples
      /\ next' = [next EXCEPT !.root = @ + 1, !.box = @ + n]
      /\ handler' = handler /\ offered' = offered /\ jobs' = jobs /\ lock' = lock /\ kept' = kept
      /\ written' = written /\ size' = size /\ failures' = failures /\ timedOut' = timedOut
  BY DEF Allocate, fileVars, ghosts
<1>2. n \in Nat /\ next.box \in Nat /\ next.root \in Nat /\ at[w] \in Places
  BY <1>1, Bounds DEF IInv, PoolTyped
<1>3. rows \in Seq(Nat)
  <2> HIDE DEF n
  <2>1. \A k \in 1..n : next.box + k - 1 \in Nat
    BY ONLY <1>2
  <2> QED BY <1>2, <2>1
<1>4. x \in Places /\ x.pc = "indexed" /\ x.item = at[w].item
  <2> HIDE DEF rows
  <2> QED BY <1>2, <1>3 DEF Places
<1>5. at' = [at EXCEPT ![w] = x]
  BY DEF Allocate, IInv, PoolTyped
<1>6. OtherThreads(w) /\ at'[w] = x /\ at' \in [Workers -> Places]
  <2> HIDE DEF x
  <2> QED BY <1>4, <1>5, OwnPlace DEF IInv
<1>7. next' \in [frame : Nat, root : Nat, box : Nat] /\ next'.frame = next.frame
  <2> HIDE DEF n
  <2>1. next \in [frame : Nat, root : Nat, box : Nat]
    BY DEF IInv, PoolTyped
  <2>2. n \in Nat /\ next.root + 1 \in Nat /\ next.box + n \in Nat
    BY ONLY <1>2
  <2>3. next' = [next EXCEPT !.root = next.root + 1, !.box = next.box + n]
    BY ONLY <1>1, <2>1
  <2> QED BY ONLY <2>1, <2>2, <2>3
<1>8. kept \in [saved : SUBSET Items, limited : SUBSET Frames] /\ at[w].item \notin Frames
  BY <1>1, ItemAssumption DEF IInv, PoolTyped
<1> HIDE DEF x, n, rows
<1> QED BY <1>1, <1>4, <1>6, <1>7, <1>8, AsideStep

\* The save of a sample raises: its thread is idle again, its indices are gone.
LEMMA FailSampleStep == ASSUME IInv, NEW w \in Workers, FailSample(w) PROVE IInv'
<1> DEFINE n == Boxes[at[w].item]
<1>1. /\ at[w].pc = "taken" /\ at[w].item \in Samples /\ Done(w)
      /\ next' = [next EXCEPT !.root = @ + 1, !.box = @ + n]
      /\ handler' = handler /\ offered' = offered /\ jobs' = jobs /\ lock' = lock /\ kept' = kept
      /\ written' = written /\ size' = size /\ failures' = failures /\ timedOut' = timedOut
  BY DEF FailSample, fileVars
<1>2. next \in [frame : Nat, root : Nat, box : Nat] /\ n \in Nat
  BY <1>1, Bounds DEF IInv, PoolTyped
<1>3. OtherThreads(w) /\ at' \in [Workers -> Places] /\ at'[w].pc = "idle"
  BY <1>1, DonePlace DEF IInv
<1> HIDE DEF n
<1>4. next' \in [frame : Nat, root : Nat, box : Nat] /\ next'.frame = next.frame
  <2>1. next' = [next EXCEPT !.root = next.root + 1, !.box = next.box + n]
    BY ONLY <1>1, <1>2
  <2>2. next.root + 1 \in Nat /\ next.box + n \in Nat
    BY ONLY <1>2
  <2> QED BY ONLY <1>2, <2>1, <2>2
<1>5. kept \in [saved : SUBSET Items, limited : SUBSET Frames] /\ at[w].item \notin Frames
  BY <1>1, ItemAssumption DEF IInv, PoolTyped
<1> QED BY <1>1, <1>3, <1>4, <1>5, AsideStep

\* A sample is buffered, and the buffer may be written.
LEMMA BufferStep == ASSUME IInv, NEW w \in Workers, Buffer(w) \/ Flush(w) PROVE IInv'
<1>1. /\ at[w].pc \in {"indexed", "buffered"} /\ handler' = handler /\ offered' = offered
      /\ jobs' = jobs /\ lock' = lock /\ next' = next
      /\ written' = written /\ size' = size /\ failures' = failures /\ timedOut' = timedOut
  BY DEF Buffer, Flush, fileVars, ghosts
<1>2. at[w].item \in Samples /\ at[w].item \in Items /\ at[w].item \notin Frames
  BY <1>1, ItemAssumption DEF IInv, LockHeld, Items
<1>3. /\ kept' \in [saved : SUBSET Items, limited : SUBSET Frames]
      /\ kept'.saved \in {kept.saved, kept.saved \cup {at[w].item}} /\ kept'.limited = kept.limited
      /\ next \in [frame : Nat, root : Nat, box : Nat]
  <2>1. kept' = kept \/ kept' = [kept EXCEPT !.saved = @ \cup {at[w].item}]
    BY DEF Buffer, Flush, Saved
  <2> QED BY <1>2, <2>1 DEF IInv, PoolTyped
<1>4. /\ OtherThreads(w) /\ at' \in [Workers -> Places]
      /\ at'[w].pc = "idle" \/ (at'[w].pc = "buffered" /\ at'[w].item = at[w].item)
  BY DonePlace, SetPlace DEF Buffer, Flush, IInv
<1> QED BY <1>1, <1>2, <1>3, <1>4, AsideStep

-----------------------------------------------------------------------------
(* The steps of save_frame. Whoever holds the lock is the only writer.     *)

\* Whoever holds the lock is the only one between an index and its count.
LEMMA OnlyWriter ==
    ASSUME LockHeld, NEW w \in Workers, lock \in {w, NoWorker}
    PROVE  \A v \in Workers : v # w => ~Writing(v) /\ ~Counting(v)
BY PoolAssumption DEF LockHeld, Writing, Counting

\* The lock is taken and the index read.
LEMMA ReadIndexStep == ASSUME IInv, NEW w \in Workers, ReadIndex(w) PROVE IInv'
<1> USE DEF IInv
<1>1. /\ at[w].pc = "taken" /\ at[w].item \in Frames /\ lock = NoWorker /\ lock' = w
      /\ handler' = handler /\ offered' = offered /\ jobs' = jobs /\ next' = next /\ kept' = kept
      /\ written' = written /\ size' = size /\ failures' = failures /\ timedOut' = timedOut
  BY DEF ReadIndex, Acquire, fileVars, ghosts
<1> DEFINE x == [at[w] EXCEPT !.pc = "read", !.row = next.frame]
<1>2. x \in Places /\ x.pc = "read" /\ x.row = next.frame /\ x.item = at[w].item
  <2>1. at[w] \in Places /\ next.frame \in Nat
    BY DEF PoolTyped
  <2> QED BY ONLY <2>1 DEF Places
<1>3. at' = [at EXCEPT ![w] = x]
  BY DEF ReadIndex, PoolTyped
<1> HIDE DEF x
<1>4. OtherThreads(w) /\ at'[w] = x /\ at' \in [Workers -> Places]
  BY <1>2, <1>3, OwnPlace
<1>5. \A v \in Workers : v # w => ~Writing(v)' /\ ~Counting(v)' /\ ~Counting(v)
  BY <1>1, <1>4, OnlyWriter DEF OtherThreads, Writing, Counting
<1>6. PoolTyped'
  BY <1>1, <1>4 DEF PoolTyped
<1>7. LockHeld'
  <2>1. \A v \in Workers : v # w => at'[v].pc = at[v].pc /\ at'[v].item = at[v].item
    BY <1>4 DEF OtherThreads
  <2> QED BY <1>1, <1>2, <1>4, <1>5, <2>1 DEF LockHeld, Writing
<1>8. RowsApart'
  <2>1. \A v \in Workers : v # w => at'[v].pc # "read" /\ ~Counting(v)'
    BY <1>5 DEF Writing
  <2>2. at'[w].pc = "read" /\ at'[w].row = next'.frame
    BY <1>1, <1>2, <1>4
  <2> QED BY <1>1, <2>1, <2>2 DEF RowsApart, Counting
<1>9. IndicesCounted'
  <2>1. ~Counting(w)
    BY <1>1 DEF Counting
  <2> QED BY <1>1, <1>5, <2>1 DEF IndicesCounted
<1>10. PoolAtRest'
  BY <1>1, BusyPool
<1>11. FramesHeld'
  <2>1. \A f \in Frames : Settled(f) => Settled(f)'
    BY <1>1 DEF Settled
  <2>2. at'[w].item = at[w].item /\ at'[w].pc = "read"
    BY <1>2, <1>4
  <2> QED BY <1>1, <1>4, <2>1, <2>2, HeldStep
<1> QED BY <1>6, <1>7, <1>8, <1>9, <1>10, <1>11

\* The index is counted on.
LEMMA CountIndexStep == ASSUME IInv, NEW w \in Workers, CountIndex(w) PROVE IInv'
<1> USE DEF IInv
<1>1. /\ at[w].pc = "read" /\ Set(w, "counted") /\ next' = [next EXCEPT !.frame = at[w].row + 1]
      /\ handler' = handler /\ offered' = offered /\ jobs' = jobs /\ lock' = lock /\ kept' = kept
      /\ written' = written /\ size' = size /\ failures' = failures /\ timedOut' = timedOut
  BY DEF CountIndex, fileVars, ghosts
<1>2. /\ OtherThreads(w) /\ at' \in [Workers -> Places] /\ at'[w].pc = "counted"
      /\ at'[w].item = at[w].item /\ at'[w].row = at[w].row
  BY <1>1, SetPlace
<1>3. lock = w /\ at[w].item \in Frames /\ at[w].row = next.frame /\ at[w].row \in Nat
  BY <1>1, Numbers DEF LockHeld, RowsApart, Writing
<1>4. \A v \in Workers : v # w => ~Writing(v) /\ ~Counting(v) /\ ~Writing(v)' /\ ~Counting(v)'
  BY <1>2, <1>3, OnlyWriter DEF OtherThreads, Writing, Counting
<1>5. next' \in [frame : Nat, root : Nat, box : Nat] /\ next'.frame = next.frame + 1
  <2>1. next \in [frame : Nat, root : Nat, box : Nat]
    BY DEF PoolTyped
  <2> QED BY ONLY <1>1, <1>3, <2>1
<1>6. PoolTyped'
  BY <1>1, <1>2, <1>5 DEF PoolTyped
<1>7. LockHeld'
  <2>1. \A v \in Workers : v # w => at'[v].pc = at[v].pc /\ at'[v].item = at[v].item
    BY <1>2 DEF OtherThreads
  <2> QED BY <1>1, <1>2, <1>3, <1>4, <2>1 DEF LockHeld, Writing
<1>8. RowsApart'
  <2>1. \A v \in Workers : v # w => at'[v].pc # "read" /\ ~Counting(v)'
    BY <1>4 DEF Writing
  <2>2. \A x \in written : x[1] \in Nat /\ x[1] < at[w].row /\ x[1] < next'.frame
    BY <1>3, <1>5, Numbers DEF RowsApart
  <2> QED BY <1>1, <1>2, <1>3, <1>5, <2>1, <2>2 DEF RowsApart, Counting
<1>9. IndicesCounted'
  <2>1. ~Counting(w) /\ Counting(w)'
    BY <1>1, <1>2 DEF Counting
  <2> QED BY <1>1, <1>4, <1>5, <2>1, Numbers DEF IndicesCounted
<1>10. PoolAtRest'
  BY <1>1, BusyPool
<1>11. FramesHeld'
  <2>1. \A f \in Frames : Settled(f) => Settled(f)'
    BY <1>1 DEF Settled
  <2> QED BY <1>1, <1>2, <2>1, HeldStep
<1> QED BY <1>6, <1>7, <1>8, <1>9, <1>10, <1>11

\* The row is written.
LEMMA WriteRowStep == ASSUME IInv, NEW w \in Workers, WriteRow(w) PROVE IInv'
<1> USE DEF IInv
<1>1. /\ at[w].pc = "counted" /\ Set(w, "stored")
      /\ written' = written \cup {<<at[w].row, at[w].item>>}
      /\ handler' = handler /\ offered' = offered /\ jobs' = jobs /\ lock' = lock /\ kept' = kept
      /\ next' = next /\ size' = size /\ failures' = failures /\ timedOut' = timedOut
  BY DEF WriteRow, ghosts
<1>2. /\ OtherThreads(w) /\ at' \in [Workers -> Places] /\ at'[w].pc = "stored"
      /\ at'[w].item = at[w].item /\ at'[w].row = at[w].row
  BY <1>1, SetPlace
<1>3. /\ lock = w /\ at[w].item \in Frames /\ next.frame = at[w].row + 1 /\ at[w].row \in Nat
      /\ \A x \in written : x[1] < at[w].row
  BY <1>1, Numbers DEF LockHeld, RowsApart, Writing, Counting
<1>4. \A v \in Workers : v # w => ~Writing(v) /\ ~Counting(v) /\ ~Writing(v)' /\ ~Counting(v)'
  BY <1>2, <1>3, OnlyWriter DEF OtherThreads, Writing, Counting
<1>5. PoolTyped'
  BY <1>1, <1>2, <1>3 DEF PoolTyped
<1>6. LockHeld'
  <2>1. \A v \in Workers : v # w => at'[v].pc = at[v].pc /\ at'[v].item = at[v].item
    BY <1>2 DEF OtherThreads
  <2> QED BY <1>1, <1>2, <1>3, <1>4, <2>1 DEF LockHeld, Writing
<1>7. RowsApart'
  <2>1. \A v \in Workers : v # w => at'[v].pc # "read" /\ ~Counting(v)'
    BY <1>4 DEF Writing
  <2> DEFINE y == <<at[w].row, at[w].item>>
  <2>2. y[1] = at[w].row /\ y[2] = at[w].item /\ <<at'[w].row, at'[w].item>> = y
    BY <1>2
  <2>3. written' = written \cup {y}
    BY <1>1
  <2> HIDE DEF y
  <2>4. \A x \in written' : x[1] < next'.frame
    BY <1>1, <1>3, <2>2, <2>3 DEF RowsApart
  <2>5. \A x, z \in written' : x[1] = z[1] => x = z
    <3>1. \A x \in written : x[1] # y[1]
      BY <1>3, <2>2, Numbers
    <3> QED BY <2>3, <3>1 DEF RowsApart
  <2>6. \A f \in kept'.saved \cap Frames : \E x \in written' : x[2] = f
    BY <1>1, <2>3 DEF RowsApart
  <2> QED BY <1>1, <1>2, <1>3, <2>1, <2>2, <2>3, <2>4, <2>5, <2>6 DEF RowsApart, Counting
<1>8. IndicesCounted'
  <2>1. Counting(w)'
    BY <1>2 DEF Counting
  <2> QED BY <1>1, <2>1 DEF IndicesCounted
<1>9. PoolAtRest'
  BY <1>1, BusyPool
<1>10. FramesHeld'
  <2>1. \A f \in Frames : Settled(f) => Settled(f)'
    BY <1>1 DEF Settled
  <2> QED BY <1>1, <1>2, <2>1, HeldStep
<1> QED BY <1>5, <1>6, <1>7, <1>8, <1>9, <1>10

\* The row is counted and the save returns, or it raised and its index is lost.
LEMMA EndStep == ASSUME IInv, NEW w \in Workers, CountRow(w) \/ Fail(w) PROVE IInv'
<1> USE DEF IInv
<1>1. /\ Counting(w) /\ Writing(w) /\ at[w].pc # "idle" /\ Done(w) /\ lock' = NoWorker
      /\ handler' = handler /\ offered' = offered /\ jobs' = jobs /\ next' = next
      /\ written' = written /\ timedOut' = timedOut
  BY DEF CountRow, Fail, Counting, Writing, fileVars, ghosts
<1>2. OtherThreads(w) /\ at' \in [Workers -> Places] /\ at'[w].pc = "idle"
  BY <1>1, DonePlace
<1>3. lock = w /\ at[w].item \in Frames
  BY <1>1 DEF LockHeld
<1>4. \A v \in Workers : v # w => ~Writing(v) /\ ~Counting(v)
  BY <1>3, OnlyWriter
<1>5. \A v \in Workers : ~Writing(v)' /\ ~Counting(v)'
  BY <1>2, <1>4 DEF OtherThreads, Writing, Counting
<1>6. \/ /\ at[w].pc = "stored" /\ size' = size + 1 /\ failures' = failures
         /\ kept' = [kept EXCEPT !.saved = @ \cup {at[w].item}]
      \/ /\ size' = size /\ kept' = kept
         /\ \/ handler = "closed" /\ failures' = failures
            \/ failures' = failures + 1
  BY DEF CountRow, Fail, Saved, Closed, fileVars
<1>7. /\ kept' \in [saved : SUBSET Items, limited : SUBSET Frames]
      /\ kept'.limited = kept.limited /\ kept.saved \subseteq kept'.saved
      /\ kept'.saved \subseteq kept.saved \cup {at[w].item}
      /\ at[w].item \in kept'.saved => at[w].pc = "stored" \/ at[w].item \in kept.saved
  BY <1>3, <1>6 DEF PoolTyped, Items
<1>8. size' \in Nat /\ failures' \in Nat
  BY <1>6, Numbers
<1>9. PoolTyped'
  BY <1>1, <1>2, <1>7, <1>8 DEF PoolTyped
<1>10. LockHeld'
  <2>1. \A v \in Workers : v # w => at'[v].pc = at[v].pc /\ at'[v].item = at[v].item
    BY <1>2 DEF OtherThreads
  <2> QED BY <1>1, <1>2, <1>5, <2>1, PoolAssumption DEF LockHeld, Writing
<1>11. RowsApart'
  <2>1. \A v \in Workers : at'[v].pc \notin {"read", "counted", "stored"}
    BY <1>5 DEF Writing
  <2>2. ASSUME NEW f \in kept'.saved \cap Frames PROVE \E x \in written : x[2] = f
    <3>1. CASE f \in kept.saved
      BY <3>1 DEF RowsApart
    <3>2. CASE f \notin kept.saved
      <4>1. f = at[w].item /\ <<at[w].row, at[w].item>> \in written
        BY <1>7, <3>2 DEF RowsApart
      <4> QED BY <4>1
    <3> QED BY <3>1, <3>2
  <2> QED BY <1>1, <2>1, <2>2 DEF RowsApart, Counting
<1>12. ~timedOut => handler # "closed"
  BY <1>1 DEF PoolAtRest
<1>13. IndicesCounted'
  BY <1>1, <1>6, <1>12, Numbers DEF IndicesCounted
<1>14. PoolAtRest'
  BY <1>1, BusyPool
<1>15. FramesHeld'
  <2>1. CASE timedOut
    BY <1>1, <2>1 DEF FramesHeld
  <2>2. CASE ~timedOut
    <3>1. \A f \in Frames : Settled(f) => Settled(f)'
      BY <1>6, <1>7, Numbers DEF Settled
    <3>2. \A f \in Frames : at[w].item = f => Settled(f)'
      <4>1. at[w].item \in kept'.saved \/ failures' > 0
        BY <1>6, <1>12, <2>2, Numbers DEF PoolTyped
      <4> QED BY <4>1 DEF Settled
    <3> QED BY <1>1, <1>2, <3>1, <3>2, HeldStep
  <2> QED BY <2>1, <2>2
<1> QED BY <1>9, <1>10, <1>11, <1>13, <1>14, <1>15

-----------------------------------------------------------------------------
\* Every step of the handler, the callbacks and the pool keeps the invariant.
LEMMA NextHolds == IInv /\ [Next]_vars => IInv'
<1> SUFFICES ASSUME IInv, [Next]_vars PROVE IInv'
  OBVIOUS
<1>1. ASSUME NEW i \in Items, Offer(i) PROVE IInv'
  BY <1>1, OfferStep
<1>2. CASE Close
  BY <1>2, CloseStep
<1>3. ASSUME NEW w \in Workers, Save(w) PROVE IInv'
  BY <1>3, TakeStep, LimitStep, ReadIndexStep, CountIndexStep, WriteRowStep, EndStep,
     AllocateStep, FailSampleStep, BufferStep DEF Save
<1>4. CASE UNCHANGED vars
  BY <1>4 DEF vars, saveVars, fileVars, ghosts, IInv, PoolTyped, LockHeld, RowsApart,
     IndicesCounted, PoolAtRest, FramesHeld, Writing, Counting, Waits, AtWork, Settled
<1> QED BY <1>1, <1>2, <1>3, <1>4 DEF Next

\* Once the recording is closed, and nobody gave up on the pool, each frame
\* that was let pass and met no error has a row of its own within the file.
THEOREM FramesKeptCorrect == Spec => []FramesKept
<1>1. IInv => FramesKept
  <2> SUFFICES ASSUME IInv, Closed, ~timedOut PROVE FramesKept
    BY DEF FramesKept
  <2> USE DEF IInv
  <2>1. jobs = <<>> /\ \A w \in Workers : at[w].pc = "idle"
    BY DEF PoolAtRest, Closed
  <2>2. \A f \in offered \cap Frames : f \in kept.saved \cup kept.limited \/ failures > 0
    <3>1. \A f \in Frames : ~Waits(f) /\ ~AtWork(f)
      BY <2>1 DEF Waits, AtWork, Writing
    <3> QED BY <3>1 DEF FramesHeld, Settled
  <2>3. next.frame <= size + failures
    BY <2>1 DEF IndicesCounted, Counting
  <2>4. ASSUME NEW f \in kept.saved \cap Frames
        PROVE  \E r \in 0..size + failures - 1 : written \cap ({r} \X Frames) = {<<r, f>>}
    <3>1. PICK x \in written : x[2] = f
      BY DEF RowsApart
    <3>2. x \in Nat \X Frames /\ x = <<x[1], f>> /\ x[1] \in Nat /\ x[1] < next.frame
      BY <3>1, Numbers DEF RowsApart
    <3>3. x[1] \in 0..size + failures - 1
      BY <2>3, <3>2, Numbers
    <3>4. written \cap ({x[1]} \X Frames) = {<<x[1], f>>}
      BY <3>1, <3>2 DEF RowsApart
    <3> QED BY <3>3, <3>4
  <2> QED BY <2>2, <2>4 DEF FramesKept
<1> QED BY <1>1, InitHolds, NextHolds, PTL DEF Spec

-----------------------------------------------------------------------------
(* The samples.                                                            *)
\* A thread that took its indices and has not buffered its sample yet: the row
\* in the root dataset, and a run of box rows.
Indexed(w) == at[w].pc = "indexed"
First(w) == at[w].rows[1]
End(w) == First(w) + Boxes[at[w].item]

SamplesTyped ==
    /\ buffer \in Seq(Entry) /\ content \in Seq(Samples)
    /\ boxRows \subseteq Nat \X Samples /\ root \subseteq Nat \X Nat \X Nat
    /\ overtaken \in BOOLEAN /\ broken \subseteq Samples

\* Every index that was taken is on its way to the file, and in order.
Whole == ~overtaken /\ broken = {}
USE DEF Whole

\* Runs are unbroken, one follows another in the order of the root rows, and
\* the last one ends where the next begins.
RunsApart ==
    \A w \in Workers : Indexed(w) =>
       /\ Len(at[w].rows) = Boxes[at[w].item] /\ Boxes[at[w].item] # 0
       /\ \A k \in 1..Len(at[w].rows) : at[w].rows[k] = First(w) + k - 1
       /\ at[w].row < next.root /\ End(w) <= next.box
       /\ at[w].row + 1 = next.root => End(w) = next.box
       /\ \A v \in Workers : Indexed(v) /\ at[v].row <= at[w].row =>
             /\ at[v].row = at[w].row => v = w
             /\ at[v].row < at[w].row => End(v) <= First(w)
             /\ at[v].row + 1 = at[w].row => End(v) = First(w)

\* All rows below f are buffered or written, those from f on are in the hands of
\* threads; g is where the box rows of f begin.
Frontier(f, g) ==
    /\ \A w \in Workers : Indexed(w) => /\ f <= at[w].row /\ g <= First(w)
                                        /\ f = at[w].row => g = First(w)
    /\ \A r \in f..next.root - 1 : \E w \in Workers : Indexed(w) /\ at[w].row = r
    /\ f = next.root => g = next.box
    /\ buffer # <<>> => /\ buffer[Len(buffer)].row + 1 = f
                        /\ buffer[Len(buffer)].last + 1 = g
    /\ \A x \in boxRows : x[1] < g
    /\ \A x \in root : x[1] < f

InOrder == Whole => \E f \in 0..next.root, g \in 0..next.box : Frontier(f, g)

\* The entries of the buffer are consecutive, and so are their runs; what is in
\* the file is below them.
BufferInOrder ==
    Whole =>
       /\ \A n \in 1..Len(buffer) : /\ buffer[n].row + 1 = buffer[1].row + n
                                    /\ buffer[1].first <= buffer[n].first
                                    /\ buffer[n].last <= buffer[Len(buffer)].last
       /\ buffer # <<>> => Len(content) + buffer[1].first = buffer[Len(buffer)].last + 1
       /\ buffer = <<>> => content = <<>>
       /\ buffer # <<>> => /\ \A x \in boxRows : x[1] < buffer[1].first
                           /\ \A x \in root : x[1] < buffer[1].row

\* Where a sample that was offered may be.
Waiting(s) == \E n \in 1..Len(jobs) : jobs[n] = s
InHands(s) == \E w \in Workers : at[w].item = s /\ at[w].pc \in {"taken", "indexed"}
Buffered(s) ==
    \E n \in 1..Len(buffer) :
       /\ buffer[n].last + 1 = buffer[n].first + Boxes[s]
       /\ \A m \in buffer[n].first..buffer[n].last : content[m - buffer[1].first + 1] = s

SamplesHeld ==
    ~timedOut /\ Whole =>
       \A s \in offered \cap Samples : Waiting(s) \/ InHands(s) \/ Buffered(s) \/ Stored(s)

FlushedAtEnd == handler \in {"flushed", "closed"} /\ ~timedOut => buffer = <<>>

SampleInv == SamplesTyped /\ RunsApart /\ InOrder /\ BufferInOrder /\ SamplesHeld /\ FlushedAtEnd

\* A run has a first and a last row.
LEMMA RunEnds ==
    ASSUME PoolTyped, LockHeld, RunsApart, NEW w \in Workers, Indexed(w)
    PROVE  /\ First(w) \in Nat /\ End(w) \in Nat /\ End(w) = First(w) + Boxes[at[w].item]
           /\ First(w) < End(w)
           /\ Len(at[w].rows) = Boxes[at[w].item] /\ Len(at[w].rows) \in Nat \ {0}
           /\ at[w].rows[Len(at[w].rows)] = End(w) - 1
           /\ at[w].row \in Nat /\ at[w].item \in Samples
           /\ next.root \in Nat /\ next.box \in Nat
<1>1. at[w] \in Places /\ at[w].item \in Samples
  BY DEF PoolTyped, LockHeld, Indexed
<1>2. at[w].rows \in Seq(Nat) /\ at[w].row \in Nat
  BY <1>1 DEF Places
<1>3. Len(at[w].rows) = Boxes[at[w].item] /\ Boxes[at[w].item] \in Nat \ {0}
  <2>1. Boxes[at[w].item] \in Nat
    BY <1>1, Bounds
  <2> QED BY <2>1 DEF RunsApart
<1>4. \A k \in 1..Len(at[w].rows) : at[w].rows[k] = First(w) + k - 1
  BY DEF RunsApart
<1>5. First(w) \in Nat
  BY <1>2, <1>3 DEF First
<1>6. at[w].rows[Len(at[w].rows)] = First(w) + Boxes[at[w].item] - 1
  BY <1>3, <1>4
<1>7. next.root \in Nat /\ next.box \in Nat
  BY DEF PoolTyped
<1>8. End(w) = First(w) + Boxes[at[w].item]
  BY DEF End
<1>9. End(w) \in Nat /\ First(w) < End(w) /\ at[w].rows[Len(at[w].rows)] = End(w) - 1
  BY ONLY <1>3, <1>5, <1>6, <1>8
<1> QED BY <1>1, <1>2, <1>3, <1>5, <1>7, <1>8, <1>9

\* At the start no sample was offered.
LEMMA SamplesInit == Init => SampleInv
<1> SUFFICES ASSUME Init PROVE SampleInv
  OBVIOUS
<1>1. \A w \in Workers : at[w].pc = "idle"
  BY DEF Init, Idle
<1>2. SamplesTyped
  <2>1. <<>> \in Seq(Entry) /\ <<>> \in Seq(Samples)
    OBVIOUS
  <2> QED BY <2>1 DEF Init, SamplesTyped
<1>3. RunsApart
  BY <1>1 DEF RunsApart, Indexed
<1>4. InOrder
  <2>1. Frontier(0, 0) /\ 0 \in 0..next.root /\ 0 \in 0..next.box
    BY <1>1 DEF Init, Frontier, Indexed
  <2> QED BY <2>1 DEF InOrder
<1>5. BufferInOrder /\ SamplesHeld /\ FlushedAtEnd
  BY DEF Init, BufferInOrder, SamplesHeld, FlushedAtEnd
<1> QED BY <1>2, <1>3, <1>4, <1>5 DEF SampleInv

\* The part of the invariant about runs and the buffer stays when no sample is
\* indexed or buffered.
LEMMA RunsStay ==
    ASSUME RunsApart, InOrder, BufferInOrder, SamplesTyped,
           \A w \in Workers : (Indexed(w) <=> Indexed(w)') /\ (Indexed(w) => at'[w] = at[w]),
           next'.root = next.root, next'.box = next.box,
           buffer' = buffer, content' = content, boxRows' = boxRows, root' = root,
           overtaken' = overtaken, broken' = broken
    PROVE  (RunsApart /\ InOrder /\ BufferInOrder /\ SamplesTyped)'
<1>1. \A w \in Workers : Indexed(w) => First(w)' = First(w) /\ End(w)' = End(w)
  BY DEF First, End
<1>2. RunsApart'
  BY <1>1 DEF RunsApart
<1>3. \A f, g : Frontier(f, g) => Frontier(f, g)'
  BY <1>1 DEF Frontier
<1>4. InOrder'
  BY <1>3 DEF InOrder
<1> QED BY <1>2, <1>4 DEF BufferInOrder, SamplesTyped

\* Samples stay where they are when only a thread with a frame moves.
LEMMA FrameStep ==
    ASSUME IInv, SampleInv, NEW w \in Workers, OtherThreads(w),
           at[w].pc # "indexed", at[w].pc = "taken" => at[w].item \in Frames,
           at'[w].pc # "indexed",
           next'.root = next.root, next'.box = next.box,
           UNCHANGED <<handler, offered, jobs, buffer, content, boxRows, root, overtaken, broken, timedOut>>
    PROVE  SampleInv'
<1> USE DEF SampleInv
<1>1. \A v \in Workers : (Indexed(v) <=> Indexed(v)') /\ (Indexed(v) => at'[v] = at[v])
  BY DEF Indexed, OtherThreads
<1>2. (RunsApart /\ InOrder /\ BufferInOrder /\ SamplesTyped)'
  BY <1>1, RunsStay
<1>3. SamplesHeld'
  <2>1. \A s \in Samples : InHands(s) => InHands(s)'
    BY ItemAssumption DEF InHands, OtherThreads
  <2>2. \A s \in Samples : /\ Waiting(s) => Waiting(s)'
                           /\ Buffered(s) => Buffered(s)'
                           /\ Stored(s) => Stored(s)'
    BY DEF Waiting, Buffered, Stored
  <2> QED BY <2>1, <2>2 DEF SamplesHeld
<1> QED BY <1>2, <1>3 DEF FlushedAtEnd

\* Delivering, and the handler's steps but the last flush, move no sample that
\* is indexed or buffered.
LEMMA LoopStep ==
    ASSUME IInv, SampleInv, at' = at, next' = next, timedOut => timedOut',
           UNCHANGED <<buffer, content, boxRows, root, overtaken, broken>>,
           handler' \in {"flushed", "closed"} =>
              handler \in {"flushed", "closed"} \/ buffer = <<>>,
           \A n \in 1..Len(jobs) : n \in 1..Len(jobs') /\ jobs'[n] = jobs[n],
           \A i \in offered' \ offered : \E n \in 1..Len(jobs') : jobs'[n] = i
    PROVE  SampleInv'
<1> USE DEF SampleInv
<1>1. (RunsApart /\ InOrder /\ BufferInOrder /\ SamplesTyped)'
  BY RunsStay DEF Indexed
<1>2. SamplesHeld'
  <2>1. \A s \in Samples : /\ Waiting(s) => Waiting(s)'
                           /\ InHands(s) => InHands(s)'
                           /\ Buffered(s) => Buffered(s)'
                           /\ Stored(s) => Stored(s)'
    BY DEF Waiting, InHands, Buffered, Stored
  <2>2. \A s \in offered' \ offered : Waiting(s)'
    BY DEF Waiting
  <2> QED BY <2>1, <2>2 DEF SamplesHeld
<1> QED BY <1>1, <1>2 DEF FlushedAtEnd

\* A sample is delivered: it waits.
LEMMA OfferSample == ASSUME IInv, SampleInv, NEW i \in Items, Offer(i) PROVE SampleInv'
<1>1. /\ handler' = handler /\ at' = at /\ next' = next /\ timedOut' = timedOut
      /\ UNCHANGED <<buffer, content, boxRows, root, overtaken, broken>>
      /\ offered' = offered \cup {i} /\ jobs' = Append(jobs, i)
  BY DEF Offer, fileVars, bufferVars, ghosts
<1>2. /\ Len(jobs') = Len(jobs) + 1 /\ Len(jobs) \in Nat
      /\ jobs'[Len(jobs) + 1] = i /\ \A n \in 1..Len(jobs) : jobs'[n] = jobs[n]
  BY <1>1 DEF IInv, PoolTyped
<1>3. \A n \in 1..Len(jobs) : n \in 1..Len(jobs')
  BY <1>2
<1>4. \A j \in offered' \ offered : \E n \in 1..Len(jobs') : jobs'[n] = j
  <2>1. Len(jobs) + 1 \in 1..Len(jobs')
    BY <1>2
  <2> QED BY <1>1, <1>2, <2>1
<1>5. handler' \in {"flushed", "closed"} => handler \in {"flushed", "closed"} \/ buffer = <<>>
  BY <1>1
<1> QED BY <1>1, <1>2, <1>3, <1>4, <1>5, LoopStep

\* A thread takes a sample that waited.
LEMMA TakeSample == ASSUME IInv, IInv', SampleInv, NEW w \in Workers, Take(w) PROVE SampleInv'
<1> USE DEF SampleInv
<1>1. /\ at[w].pc = "idle" /\ jobs # <<>> /\ jobs' = Tail(jobs)
      /\ UNCHANGED <<handler, offered, next, buffer, content, boxRows, root, overtaken, broken, timedOut>>
  BY DEF Take, fileVars, bufferVars, ghosts
<1>2. /\ Head(jobs) = jobs[1] /\ Len(jobs) \in Nat \ {0} /\ Len(jobs') = Len(jobs) - 1
      /\ \A n \in 1..Len(jobs') : jobs'[n] = jobs[n + 1]
  BY <1>1 DEF IInv, PoolTyped
<1>3. /\ \A v \in Workers : v # w => at'[v] = at[v]
      /\ at'[w].pc = "taken" /\ at'[w].item = Head(jobs)
  <2>1. at' = [at EXCEPT ![w] = [Idle EXCEPT !.pc = "taken", !.item = Head(jobs)]]
    BY DEF Take
  <2>2. at \in [Workers -> Places]
    BY DEF IInv, PoolTyped
  <2> QED BY <2>1, <2>2 DEF Idle
<1>4. (RunsApart /\ InOrder /\ BufferInOrder /\ SamplesTyped)'
  <2>1. \A v \in Workers : (Indexed(v) <=> Indexed(v)') /\ (Indexed(v) => at'[v] = at[v])
    BY <1>1, <1>3 DEF Indexed
  <2> QED BY <1>1, <2>1, RunsStay
<1>5. SamplesHeld'
  <2>1. ASSUME NEW s \in Samples, Waiting(s) PROVE Waiting(s)' \/ InHands(s)'
    <3>1. PICK n \in 1..Len(jobs) : jobs[n] = s
      BY <2>1 DEF Waiting
    <3>2. CASE n = 1
      BY <1>2, <1>3, <3>1, <3>2 DEF InHands
    <3>3. CASE n # 1
      <4>1. n - 1 \in 1..Len(jobs') /\ jobs'[n - 1] = jobs[n]
        BY <1>2, <3>3
      <4> QED BY <3>1, <4>1 DEF Waiting
    <3> QED BY <3>2, <3>3
  <2>2. \A s \in Samples : InHands(s) => InHands(s)'
    BY <1>1, <1>3 DEF InHands
  <2>3. \A s \in Samples : (Buffered(s) => Buffered(s)') /\ (Stored(s) => Stored(s)')
    BY <1>1 DEF Buffered, Stored
  <2> QED BY <1>1, <2>1, <2>2, <2>3 DEF SamplesHeld
<1> QED BY <1>1, <1>4, <1>5 DEF FlushedAtEnd

\* A frame is limited, written or lost: no sample moves.
LEMMA FrameSample ==
    ASSUME IInv, SampleInv, NEW w \in Workers,
           Limit(w) \/ ReadIndex(w) \/ CountIndex(w) \/ WriteRow(w) \/ CountRow(w) \/ Fail(w)
    PROVE  SampleInv'
<1>1. UNCHANGED <<handler, offered, jobs, buffer, content, boxRows, root, overtaken, broken, timedOut>>
  BY DEF Limit, ReadIndex, CountIndex, WriteRow, CountRow, Fail, fileVars, bufferVars, ghosts
<1>2. next'.root = next.root /\ next'.box = next.box
  <2>1. next \in [frame : Nat, root : Nat, box : Nat]
    BY DEF IInv, PoolTyped
  <2>2. next' = next \/ next' = [next EXCEPT !.frame = at[w].row + 1]
    BY DEF Limit, ReadIndex, CountIndex, WriteRow, CountRow, Fail
  <2> QED BY <2>1, <2>2
<1>3. at[w].pc # "indexed" /\ (at[w].pc = "taken" => at[w].item \in Frames)
  BY DEF Limit, ReadIndex, CountIndex, WriteRow, CountRow, Fail
<1>4. OtherThreads(w) /\ at'[w].pc # "indexed"
  <2>1. CASE ReadIndex(w)
    BY <2>1 DEF ReadIndex, OtherThreads, IInv, PoolTyped, Places
  <2>2. CASE CountIndex(w) \/ WriteRow(w)
    BY <2>2, SetPlace DEF CountIndex, WriteRow, IInv
  <2>3. CASE Limit(w) \/ CountRow(w) \/ Fail(w)
    BY <2>3, DonePlace DEF Limit, CountRow, Fail, IInv
  <2> QED BY <2>1, <2>2, <2>3
<1> QED BY <1>1, <1>2, <1>3, <1>4, FrameStep

\* What taking indices does.
LEMMA Allocated ==
    ASSUME IInv, NEW w \in Workers, Allocate(w)
    PROVE  LET n == Boxes[at[w].item]
           IN  /\ at[w].pc = "taken" /\ at[w].item \in Samples /\ n \in Nat \ {0}
               /\ OtherThreads(w) /\ at'[w].pc = "indexed" /\ at'[w].item = at[w].item
               /\ at'[w].row = next.root /\ at'[w].rows = [k \in 1..n |-> next.box + k - 1]
               /\ next'.root = next.root + 1 /\ next'.box = next.box + n
               /\ next.root \in Nat /\ next.box \in Nat
<1> DEFINE n == Boxes[at[w].item]
<1> DEFINE rows == [k \in 1..n |-> next.box + k - 1]
<1>1. /\ at[w].pc = "taken" /\ at[w].item \in Samples
      /\ next' = [next EXCEPT !.root = @ + 1, !.box = @ + n]
      /\ at' = [at EXCEPT ![w].pc = "indexed", ![w].row = next.root, ![w].rows = rows]
  BY DEF Allocate
<1>2. n \in Nat \ {0}
  <2>1. n # 0
    BY DEF Allocate
  <2> QED BY <1>1, <2>1, Bounds
<1>3. next \in [frame : Nat, root : Nat, box : Nat] /\ at[w] \in Places /\ at \in [Workers -> Places]
  BY DEF IInv, PoolTyped
<1> HIDE DEF n, rows
<1>4. next'.root = next.root + 1 /\ next'.box = next.box + n /\ next.root \in Nat /\ next.box \in Nat
  <2>1. next' = [next EXCEPT !.root = next.root + 1, !.box = next.box + n]
    BY ONLY <1>1, <1>3
  <2> QED BY ONLY <2>1, <1>3
<1>5. /\ OtherThreads(w) /\ at'[w].pc = "indexed" /\ at'[w].item = at[w].item
      /\ at'[w].row = next.root /\ at'[w].rows = rows
  BY ONLY <1>1, <1>3 DEF OtherThreads, Places
<1> QED BY <1>1, <1>2, <1>4, <1>5 DEF n, rows

\* A sample takes its indices: they follow those given before.
LEMMA AllocateSample ==
    ASSUME IInv, SampleInv, NEW w \in Workers, Allocate(w) PROVE SampleInv'
<1> USE DEF SampleInv
<1> DEFINE n == Boxes[at[w].item]
<1>1. /\ at[w].pc = "taken" /\ at[w].item \in Samples /\ n \in Nat \ {0}
      /\ OtherThreads(w) /\ at'[w].pc = "indexed" /\ at'[w].item = at[w].item
      /\ at'[w].row = next.root /\ at'[w].rows = [k \in 1..n |-> next.box + k - 1]
      /\ next'.root = next.root + 1 /\ next'.box = next.box + n
      /\ next.root \in Nat /\ next.box \in Nat
  BY Allocated
<1>2. UNCHANGED <<handler, offered, jobs, buffer, content, boxRows, root, overtaken, broken, timedOut>>
  BY DEF Allocate, fileVars, bufferVars, ghosts
<1>3. /\ Len(at'[w].rows) = n /\ First(w)' = next.box /\ End(w)' = next.box + n
      /\ \A k \in 1..n : at'[w].rows[k] = First(w)' + k - 1
  BY <1>1 DEF First, End
<1>4. /\ ~Indexed(w) /\ Indexed(w)'
      /\ \A v \in Workers : v # w => /\ (Indexed(v) <=> Indexed(v)') /\ at'[v] = at[v]
                                     /\ First(v)' = First(v) /\ End(v)' = End(v)
  BY <1>1 DEF Indexed, First, End, OtherThreads
<1>5. \A v \in Workers : Indexed(v) =>
         /\ at[v].row \in Nat /\ at[v].row < next.root
         /\ First(v) \in Nat /\ First(v) < End(v) /\ End(v) \in Nat /\ End(v) <= next.box
         /\ at[v].row + 1 = next.root => End(v) = next.box
  BY RunEnds DEF IInv, RunsApart
<1> HIDE DEF n
<1>6. RunsApart'
  <2> SUFFICES ASSUME NEW v \in Workers, Indexed(v)'
               PROVE  /\ Len(at'[v].rows) = Boxes[at'[v].item] /\ Boxes[at'[v].item] # 0
                      /\ \A k \in 1..Len(at'[v].rows) : at'[v].rows[k] = First(v)' + k - 1
                      /\ at'[v].row < next'.root /\ End(v)' <= next'.box
                      /\ at'[v].row + 1 = next'.root => End(v)' = next'.box
                      /\ \A u \in Workers : Indexed(u)' /\ at'[u].row <= at'[v].row =>
                            /\ at'[u].row = at'[v].row => u = v
                            /\ at'[u].row < at'[v].row => End(u)' <= First(v)'
                            /\ at'[u].row + 1 = at'[v].row => End(u)' = First(v)'
    BY DEF RunsApart
  <2>1. CASE v = w
    <3>1. /\ Len(at'[v].rows) = Boxes[at'[v].item] /\ Boxes[at'[v].item] # 0
          /\ \A k \in 1..Len(at'[v].rows) : at'[v].rows[k] = First(v)' + k - 1
      BY <1>1, <1>3, <2>1 DEF n
    <3>2. /\ at'[v].row < next'.root /\ End(v)' <= next'.box
          /\ at'[v].row + 1 = next'.root => End(v)' = next'.box
      BY <1>1, <1>3, <2>1
    <3>3. ASSUME NEW u \in Workers, Indexed(u)', at'[u].row <= at'[v].row
          PROVE  /\ at'[u].row = at'[v].row => u = v
                 /\ at'[u].row < at'[v].row => End(u)' <= First(v)'
                 /\ at'[u].row + 1 = at'[v].row => End(u)' = First(v)'
      <4>1. CASE u = w
        BY <1>1, <2>1, <4>1
      <4>2. CASE u # w
        <5>1. /\ at'[u].row \in Nat /\ at'[u].row < next.root
              /\ End(u)' \in Nat /\ End(u)' <= next.box
              /\ at'[u].row + 1 = next.root => End(u)' = next.box
          BY <1>4, <1>5, <3>3, <4>2
        <5>2. at'[v].row = next.root /\ First(v)' = next.box
          BY <1>1, <1>3, <2>1
        <5>3. at'[u].row # at'[v].row
          BY <1>1, <5>1, <5>2
        <5> QED BY <5>1, <5>2, <5>3
      <4> QED BY <4>1, <4>2
    <3> QED BY <3>1, <3>2, <3>3
  <2>2. CASE v # w
    <3>1. Indexed(v) /\ at'[v] = at[v] /\ First(v)' = First(v) /\ End(v)' = End(v)
      BY <1>4, <2>2
    <3>2. /\ Len(at'[v].rows) = Boxes[at'[v].item] /\ Boxes[at'[v].item] # 0
          /\ \A k \in 1..Len(at'[v].rows) : at'[v].rows[k] = First(v)' + k - 1
      BY <3>1 DEF RunsApart
    <3>3. at'[v].row < next.root /\ at'[v].row \in Nat /\ End(v)' <= next.box /\ End(v)' \in Nat
      BY <1>5, <3>1
    <3>4. ASSUME NEW u \in Workers, Indexed(u)', at'[u].row <= at'[v].row
          PROVE  /\ at'[u].row = at'[v].row => u = v
                 /\ at'[u].row < at'[v].row => End(u)' <= First(v)'
                 /\ at'[u].row + 1 = at'[v].row => End(u)' = First(v)'
      <4>1. u # w
        BY <1>1, <3>3, <3>4
      <4>2. Indexed(u) /\ at'[u] = at[u] /\ End(u)' = End(u)
        BY <1>4, <3>4, <4>1
      <4> QED BY <3>1, <3>4, <4>2 DEF RunsApart
    <3>5. at'[v].row < next'.root /\ End(v)' <= next'.box /\ at'[v].row + 1 # next'.root
      BY <1>1, <3>3
    <3> QED BY <3>2, <3>4, <3>5
  <2> QED BY <2>1, <2>2
<1>7. InOrder'
  <2> SUFFICES ASSUME Whole
               PROVE  \E f \in 0..next'.root, g \in 0..next'.box : Frontier(f, g)'
    BY <1>2 DEF InOrder
  <2>1. PICK f \in 0..next.root, g \in 0..next.box : Frontier(f, g)
    BY DEF InOrder
  <2>2. f \in 0..next'.root /\ g \in 0..next'.box
    BY <1>1
  <2>3. ASSUME NEW v \in Workers, Indexed(v)'
        PROVE  f <= at'[v].row /\ g <= First(v)' /\ (f = at'[v].row => g = First(v)')
    <3>1. CASE v = w
      <4>1. at'[v].row = next.root /\ First(v)' = next.box
        BY <1>1, <1>3, <3>1
      <4> QED BY <1>1, <2>1, <4>1 DEF Frontier
    <3>2. CASE v # w
      BY <1>4, <2>1, <2>3, <3>2 DEF Frontier
    <3> QED BY <3>1, <3>2
  <2>4. ASSUME NEW r \in f..next'.root - 1 PROVE \E v \in Workers : Indexed(v)' /\ at'[v].row = r
    <3>1. CASE r = next.root
      BY <1>1, <1>4, <3>1
    <3>2. CASE r # next.root
      <4>1. r \in f..next.root - 1
        BY <1>1, <3>2
      <4>2. PICK v \in Workers : Indexed(v) /\ at[v].row = r
        BY <2>1, <4>1 DEF Frontier
      <4> QED BY <1>4, <4>2
    <3> QED BY <3>1, <3>2
  <2>5. f # next'.root
    BY <1>1
  <2> QED BY <1>2, <2>1, <2>2, <2>3, <2>4, <2>5 DEF Frontier
<1>8. BufferInOrder' /\ SamplesTyped' /\ FlushedAtEnd'
  BY <1>2 DEF BufferInOrder, SamplesTyped, FlushedAtEnd
<1>9. SamplesHeld'
  <2>1. \A s \in Samples : InHands(s) => InHands(s)'
    BY <1>1 DEF InHands, OtherThreads
  <2>2. \A s \in Samples : /\ Waiting(s) => Waiting(s)'
                           /\ Buffered(s) => Buffered(s)'
                           /\ Stored(s) => Stored(s)'
    BY <1>2 DEF Waiting, Buffered, Stored
  <2> QED BY <1>2, <2>1, <2>2 DEF SamplesHeld
<1> QED BY <1>6, <1>7, <1>8, <1>9

\* A sample's save raises: its indices are gone, and what follows is no longer
\* whole.
LEMMA FailSampleSample ==
    ASSUME IInv, SampleInv, NEW w \in Workers, FailSample(w) PROVE SampleInv'
<1> USE DEF SampleInv
<1> DEFINE n == Boxes[at[w].item]
<1>1. /\ at[w].pc = "taken" /\ at[w].item \in Samples /\ Done(w)
      /\ next' = [next EXCEPT !.root = @ + 1, !.box = @ + n] /\ broken' = broken \cup {at[w].item}
      /\ UNCHANGED <<handler, offered, jobs, buffer, content, boxRows, root, overtaken, timedOut>>
  BY DEF FailSample, fileVars, bufferVars
<1>2. next \in [frame : Nat, root : Nat, box : Nat] /\ n \in Nat
  BY <1>1, Bounds DEF IInv, PoolTyped
<1>3. OtherThreads(w) /\ at'[w].pc = "idle"
  BY <1>1, DonePlace DEF IInv
<1> HIDE DEF n
<1>4. /\ next'.root = next.root + 1 /\ next'.box = next.box + n
      /\ next.root \in Nat /\ next.box \in Nat
  <2>1. next' = [next EXCEPT !.root = next.root + 1, !.box = next.box + n]
    BY ONLY <1>1, <1>2
  <2> QED BY ONLY <1>2, <2>1
<1>5. \A v \in Workers : Indexed(v)' =>
         Indexed(v) /\ at'[v] = at[v] /\ First(v)' = First(v) /\ End(v)' = End(v)
  BY <1>1, <1>3 DEF Indexed, First, End, OtherThreads
<1>6. \A v \in Workers : Indexed(v) =>
         at[v].row \in Nat /\ at[v].row < next.root /\ End(v) \in Nat /\ End(v) <= next.box
  BY RunEnds DEF IInv, RunsApart
<1>7. RunsApart'
  <2>1. \A v \in Workers : Indexed(v)' =>
           /\ at'[v].row < next'.root /\ End(v)' <= next'.box
           /\ at'[v].row + 1 # next'.root
    <3> SUFFICES ASSUME NEW v \in Workers, Indexed(v)'
                 PROVE  /\ at'[v].row < next'.root /\ End(v)' <= next'.box
                        /\ at'[v].row + 1 # next'.root
      OBVIOUS
    <3>1. at'[v].row \in Nat /\ at'[v].row < next.root /\ End(v)' \in Nat /\ End(v)' <= next.box
      BY <1>5, <1>6
    <3> QED BY ONLY <1>2, <1>4, <3>1
  <2> QED BY <1>5, <2>1 DEF RunsApart
<1>8. SamplesTyped' /\ FlushedAtEnd'
  BY <1>1 DEF SamplesTyped, FlushedAtEnd
<1>9. ~Whole'
  BY <1>1
<1> QED BY <1>7, <1>8, <1>9 DEF InOrder, BufferInOrder, SamplesHeld

-----------------------------------------------------------------------------
(* The buffer.                                                             *)

\* Entries are typed, and so are the rows that are buffered.
LEMMA Entries ==
    ASSUME SamplesTyped
    PROVE  /\ Len(buffer) \in Nat /\ Len(content) \in Nat
           /\ \A n \in 1..Len(buffer) :
                 /\ buffer[n] \in Entry
                 /\ buffer[n].row \in Nat /\ buffer[n].first \in Nat /\ buffer[n].last \in Nat
           /\ \A m \in 1..Len(content) : content[m] \in Samples
           /\ buffer # <<>> => /\ Len(buffer) \in 1..Len(buffer) /\ 1 \in 1..Len(buffer)
                               /\ Head(buffer) = buffer[1] /\ Last(buffer) = buffer[Len(buffer)]
           /\ buffer = <<>> => Len(buffer) = 0
           /\ \A x \in boxRows : x \in Nat \X Samples
           /\ \A x \in root : x \in Nat \X Nat \X Nat
<1>1. buffer \in Seq(Entry) /\ content \in Seq(Samples)
  BY DEF SamplesTyped
<1>2. Len(buffer) \in Nat /\ \A n \in 1..Len(buffer) : buffer[n] \in Entry
  BY <1>1
<1>3. Len(content) \in Nat /\ \A m \in 1..Len(content) : content[m] \in Samples
  BY <1>1
<1>4. buffer # <<>> => Len(buffer) # 0 /\ Head(buffer) = buffer[1]
  BY <1>1
<1>5. buffer # <<>> => Len(buffer) \in 1..Len(buffer) /\ 1 \in 1..Len(buffer)
  BY <1>2, <1>4
<1>6. \A n \in 1..Len(buffer) :
         buffer[n].row \in Nat /\ buffer[n].first \in Nat /\ buffer[n].last \in Nat
  BY <1>2 DEF Entry
<1> QED BY <1>2, <1>3, <1>4, <1>5, <1>6 DEF SamplesTyped, Last

\* What buffering does.
LEMMA BufferedThen ==
    ASSUME IInv, SampleInv, NEW w \in Workers, Buffer(w)
    PROVE  /\ Indexed(w) /\ OtherThreads(w) /\ at'[w].pc = "buffered" /\ at'[w].item = at[w].item
           /\ UNCHANGED <<handler, offered, jobs, next, boxRows, root, broken, timedOut>>
           /\ overtaken' = (overtaken \/ \E v \in Workers : Indexed(v) /\ at[v].row < at[w].row)
           /\ Len(buffer') = Len(buffer) + 1
           /\ \A n \in 1..Len(buffer) : buffer'[n] = buffer[n]
           /\ buffer'[Len(buffer')].row = at[w].row
           /\ buffer'[Len(buffer')].first = First(w)
           /\ buffer'[Len(buffer')].last + 1 = End(w)
           /\ buffer' \in Seq(Entry) /\ content' \in Seq(Samples)
           /\ Len(content') = Len(content) + Boxes[at[w].item]
           /\ \A m \in 1..Len(content) : content'[m] = content[m]
           /\ \A m \in Len(content) + 1..Len(content') : content'[m] = at[w].item
<1> DEFINE e == [row |-> at[w].row, first |-> at[w].rows[1], last |-> Last(at[w].rows)]
<1> DEFINE more == [k \in DOMAIN at[w].rows |-> at[w].item]
<1>1. /\ Indexed(w) /\ Set(w, "buffered") /\ buffer' = Append(buffer, e)
      /\ content' = content \o more
      /\ overtaken' = (overtaken \/ \E v \in Workers : Indexed(v) /\ at[v].row < at[w].row)
      /\ UNCHANGED <<handler, offered, jobs, next, boxRows, root, broken, timedOut>>
  BY DEF Buffer, Indexed, fileVars
<1>2. /\ First(w) \in Nat /\ End(w) \in Nat /\ First(w) < End(w)
      /\ Len(at[w].rows) = Boxes[at[w].item] /\ Len(at[w].rows) \in Nat \ {0}
      /\ at[w].rows[Len(at[w].rows)] = End(w) - 1
      /\ at[w].row \in Nat /\ at[w].item \in Samples
  BY <1>1, RunEnds DEF IInv, SampleInv
<1>3. e \in Entry /\ e.row = at[w].row /\ e.first = First(w) /\ e.last + 1 = End(w)
  <2>1. Last(at[w].rows) = End(w) - 1 /\ End(w) - 1 \in Nat
    BY <1>2 DEF Last
  <2> QED BY <1>2, <2>1 DEF Entry, First
<1>4. at[w].rows \in Seq(Nat)
  BY DEF IInv, PoolTyped, Places
<1>5. more \in Seq(Samples) /\ Len(more) = Boxes[at[w].item]
      /\ \A k \in 1..Len(more) : more[k] = at[w].item
  <2>1. DOMAIN at[w].rows = 1..Len(at[w].rows)
    BY <1>4
  <2> QED BY <1>2, <2>1
<1> HIDE DEF e, more
<1>6. buffer \in Seq(Entry) /\ content \in Seq(Samples)
  BY DEF SampleInv, SamplesTyped
<1>7. /\ buffer' \in Seq(Entry) /\ Len(buffer') = Len(buffer) + 1 /\ buffer'[Len(buffer')] = e
      /\ \A n \in 1..Len(buffer) : buffer'[n] = buffer[n]
  BY <1>1, <1>3, <1>6
<1>8. /\ content' \in Seq(Samples) /\ Len(content') = Len(content) + Boxes[at[w].item]
      /\ \A m \in 1..Len(content) : content'[m] = content[m]
      /\ \A m \in Len(content) + 1..Len(content') : content'[m] = at[w].item
  <2>1. Len(content') = Len(content) + Len(more) /\ content' \in Seq(Samples)
    BY <1>1, <1>5, <1>6
  <2>2. \A m \in 1..Len(content') :
           content'[m] = IF m <= Len(content) THEN content[m] ELSE more[m - Len(content)]
    BY <1>1, <1>5, <1>6
  <2>3. Len(content) \in Nat /\ Len(more) \in Nat
    BY <1>2, <1>5, <1>6
  <2>4. \A m \in Len(content) + 1..Len(content') : content'[m] = at[w].item
    <3> SUFFICES ASSUME NEW m \in Len(content) + 1..Len(content')
                 PROVE  content'[m] = at[w].item
      OBVIOUS
    <3>1. m \in 1..Len(content') /\ ~(m <= Len(content)) /\ m - Len(content) \in 1..Len(more)
      BY <2>1, <2>3
    <3> QED BY <1>5, <2>2, <3>1
  <2>5. \A m \in 1..Len(content) : content'[m] = content[m]
    BY <2>1, <2>2, <2>3
  <2> QED BY <1>5, <2>1, <2>4, <2>5
<1>9. OtherThreads(w) /\ at'[w].pc = "buffered" /\ at'[w].item = at[w].item
  BY <1>1, SetPlace DEF IInv
<1> QED BY <1>1, <1>3, <1>7, <1>8, <1>9

\* The place in the content of row m, if the content begins at row b and has c rows.
LEMMA RowPlace ==
    \A m, b, c, f, k, l \in Nat :
       /\ c + b = f /\ f <= m /\ m <= l /\ l + 1 = f + k => m - b + 1 \in c + 1..c + k
       /\ c + b = f /\ b <= m /\ m < f => m - b + 1 \in 1..c
OBVIOUS

\* A sample is buffered: in the order of its indices, or the flag goes up.
LEMMA BufferSample == ASSUME IInv, SampleInv, NEW w \in Workers, Buffer(w) PROVE SampleInv'
<1> USE DEF SampleInv
<1> DEFINE n == Boxes[at[w].item]
<1>1. /\ Indexed(w) /\ OtherThreads(w) /\ at'[w].pc = "buffered" /\ at'[w].item = at[w].item
      /\ UNCHANGED <<handler, offered, jobs, next, boxRows, root, broken, timedOut>>
      /\ overtaken' = (overtaken \/ \E v \in Workers : Indexed(v) /\ at[v].row < at[w].row)
  BY BufferedThen
<1>2. /\ Len(buffer') = Len(buffer) + 1
      /\ \A k \in 1..Len(buffer) : buffer'[k] = buffer[k]
      /\ buffer'[Len(buffer')].row = at[w].row
      /\ buffer'[Len(buffer')].first = First(w)
      /\ buffer'[Len(buffer')].last + 1 = End(w)
      /\ buffer' \in Seq(Entry) /\ content' \in Seq(Samples)
      /\ Len(content') = Len(content) + n
      /\ \A m \in 1..Len(content) : content'[m] = content[m]
      /\ \A m \in Len(content) + 1..Len(content') : content'[m] = at[w].item
  BY BufferedThen
<1>3. /\ First(w) \in Nat /\ End(w) \in Nat /\ End(w) = First(w) + n /\ First(w) < End(w)
      /\ n \in Nat /\ at[w].row \in Nat /\ at[w].item \in Samples
      /\ next.root \in Nat /\ next.box \in Nat
  BY <1>1, RunEnds, Bounds DEF IInv
<1> HIDE DEF n
<1>4. \A v \in Workers : /\ Indexed(v)' <=> Indexed(v) /\ v # w
                         /\ v # w => /\ at'[v] = at[v] /\ First(v)' = First(v)
                                     /\ End(v)' = End(v)
  BY <1>1 DEF Indexed, First, End, OtherThreads
<1>5. SamplesTyped'
  BY <1>1, <1>2 DEF SamplesTyped
<1>6. RunsApart'
  BY <1>1, <1>4 DEF RunsApart
<1>7. Len(buffer) \in Nat /\ Len(content) \in Nat /\ (buffer = <<>> => Len(buffer) = 0)
      /\ (buffer # <<>> => Len(buffer) # 0)
      /\ \A k \in 1..Len(buffer) :
            buffer[k].row \in Nat /\ buffer[k].first \in Nat /\ buffer[k].last \in Nat
  BY Entries
<1>8. buffer' # <<>> /\ Len(buffer') \in 1..Len(buffer') /\ 1 \in 1..Len(buffer')
      /\ buffer'[Len(buffer')].last \in Nat
  <2>1. Len(buffer') \in Nat \ {0}
    BY <1>2, <1>7
  <2>2. Len(buffer') \in 1..Len(buffer') /\ 1 \in 1..Len(buffer')
    BY <2>1
  <2>3. buffer'[Len(buffer')] \in Entry
    BY <1>2, <2>2
  <2> QED BY <2>1, <2>2, <2>3 DEF Entry
<1>9. ASSUME Whole'
      PROVE  \E f \in 0..next.root, g \in 0..next.box : /\ Frontier(f, g) /\ at[w].row = f
                                                        /\ First(w) = g
  <2>1. Whole /\ \A v \in Workers : Indexed(v) => ~(at[v].row < at[w].row)
    BY <1>1, <1>9 DEF SamplesTyped
  <2>2. PICK f \in 0..next.root, g \in 0..next.box : Frontier(f, g)
    BY <2>1 DEF InOrder
  <2>3. f <= at[w].row /\ at[w].row < next.root
    BY <1>1, <2>2 DEF Frontier, RunsApart
  <2>4. f \in f..next.root - 1
    BY <1>3, <2>3
  <2>5. PICK v \in Workers : Indexed(v) /\ at[v].row = f
    BY <2>2, <2>4 DEF Frontier
  <2>6. at[w].row = f
    BY <1>3, <2>1, <2>3, <2>5
  <2> QED BY <1>1, <2>2, <2>6 DEF Frontier
<1>10. InOrder'
  <2> SUFFICES ASSUME Whole'
               PROVE  \E f \in 0..next'.root, g \in 0..next'.box : Frontier(f, g)'
    BY DEF InOrder
  <2>1. PICK f \in 0..next.root, g \in 0..next.box :
              Frontier(f, g) /\ at[w].row = f /\ First(w) = g
    BY <1>9
  <2>2. /\ at[w].row < next.root /\ End(w) <= next.box
        /\ at[w].row + 1 = next.root => End(w) = next.box
    BY <1>1 DEF RunsApart
  <2>3. f + 1 \in 0..next'.root /\ End(w) \in 0..next'.box
    BY <1>1, <1>3, <2>1, <2>2
  <2>4. ASSUME NEW v \in Workers, Indexed(v)'
        PROVE  /\ f + 1 <= at'[v].row /\ End(w) <= First(v)'
               /\ f + 1 = at'[v].row => End(w) = First(v)'
    <3>1. Indexed(v) /\ v # w /\ at'[v] = at[v] /\ First(v)' = First(v) /\ at[v].row \in Nat
      BY <1>4, <2>4, RunEnds DEF IInv
    <3>2. f <= at[v].row
      BY <2>1, <3>1 DEF Frontier
    <3>3. at[w].row <= at[v].row
      BY <2>1, <3>2
    <3>4. /\ at[w].row = at[v].row => w = v
          /\ at[w].row < at[v].row => End(w) <= First(v)
          /\ at[w].row + 1 = at[v].row => End(w) = First(v)
      BY <1>1, <3>1, <3>3 DEF RunsApart
    <3> QED BY <1>3, <2>1, <3>1, <3>3, <3>4
  <2>5. ASSUME NEW r \in f + 1..next'.root - 1 PROVE \E v \in Workers : Indexed(v)' /\ at'[v].row = r
    <3>1. r \in f..next.root - 1 /\ r # f
      BY <1>1, <1>3
    <3>2. PICK v \in Workers : Indexed(v) /\ at[v].row = r
      BY <2>1, <3>1 DEF Frontier
    <3> QED BY <1>4, <2>1, <3>1, <3>2
  <2>6. f + 1 = next'.root => End(w) = next'.box
    BY <1>1, <2>1, <2>2
  <2>7. /\ buffer'[Len(buffer')].row + 1 = f + 1
        /\ buffer'[Len(buffer')].last + 1 = End(w)
    BY <1>2, <2>1
  <2>8. (\A x \in boxRows' : x[1] < End(w)) /\ (\A x \in root' : x[1] < f + 1)
    <3>1. (\A x \in boxRows : x[1] \in Nat) /\ (\A x \in root : x[1] \in Nat)
      BY Entries
    <3> QED BY <1>1, <1>3, <2>1, <3>1 DEF Frontier
  <2>9. PICK h \in 0..next'.box : h = End(w)
    BY <2>3
  <2>10. Frontier(f + 1, h)'
    BY <2>4, <2>5, <2>6, <2>7, <2>8, <2>9 DEF Frontier
  <2> QED BY <2>3, <2>10
<1>11. ASSUME Whole', buffer # <<>>
       PROVE  /\ buffer[Len(buffer)].row + 1 = at[w].row /\ buffer[Len(buffer)].last + 1 = First(w)
              /\ buffer'[1] = buffer[1] /\ 1 \in 1..Len(buffer) /\ Len(buffer) \in 1..Len(buffer)
              /\ Len(content) + buffer[1].first = First(w) /\ buffer[1].first \in Nat
              /\ buffer[1].first <= First(w)
  <2>1. Whole
    BY <1>1, <1>11 DEF SamplesTyped
  <2>2. buffer[Len(buffer)].row + 1 = at[w].row /\ buffer[Len(buffer)].last + 1 = First(w)
    BY <1>9, <1>11 DEF Frontier
  <2>3. 1 \in 1..Len(buffer) /\ Len(buffer) \in 1..Len(buffer)
    BY <1>7, <1>11
  <2>4. buffer[1].first \in Nat
    BY <1>7, <2>3
  <2>5. buffer[Len(buffer)].last \in Nat /\ Len(content) \in Nat
    BY <1>7, <2>3
  <2>6. Len(content) + buffer[1].first = buffer[Len(buffer)].last + 1
    BY <1>11, <2>1 DEF BufferInOrder
  <2>7. Len(content) + buffer[1].first = First(w)
    <3>1. First(w) \in Nat
      BY <1>3
    <3> QED BY ONLY <2>2, <2>4, <2>5, <2>6, <3>1
  <2>8. buffer'[1] = buffer[1] /\ buffer[1].first <= First(w)
    BY <1>2, <1>3, <2>3, <2>4, <2>5, <2>7
  <2> QED BY <2>2, <2>3, <2>4, <2>7, <2>8
<1>12. ASSUME Whole', buffer = <<>>
       PROVE  /\ Len(buffer') = 1 /\ Len(content) = 0 /\ buffer'[1].row = at[w].row
              /\ buffer'[1].first = First(w) /\ buffer'[1].last + 1 = End(w)
  <2>1. Len(buffer') = 1
    BY <1>2, <1>7, <1>12
  <2>2. content = <<>>
    BY <1>1, <1>12 DEF BufferInOrder, SamplesTyped
  <2> QED BY <1>2, <2>1, <2>2
<1>13. BufferInOrder'
  <2> SUFFICES ASSUME Whole' PROVE BufferInOrder'
    BY DEF BufferInOrder
  <2>1. PICK f \in 0..next.root, g \in 0..next.box :
              Frontier(f, g) /\ at[w].row = f /\ First(w) = g
    BY <1>9
  <2>2. /\ \A x \in boxRows' : x[1] < First(w) /\ x[1] \in Nat
        /\ \A x \in root' : x[1] < at[w].row /\ x[1] \in Nat
    BY <1>1, <2>1, Entries DEF Frontier
  <2>3. CASE buffer = <<>>
    <3>1. ASSUME NEW k \in 1..Len(buffer') PROVE k = 1
      <4>1. Len(buffer') = 1
        BY <1>12, <2>3
      <4> QED BY ONLY <3>1, <4>1
    <3>2. Len(content') + buffer'[1].first = buffer'[Len(buffer')].last + 1
      <4>1. /\ Len(buffer') = 1 /\ Len(content) = 0 /\ buffer'[1].first = First(w)
            /\ buffer'[1].last + 1 = First(w) + n
        BY <1>3, <1>12, <2>3
      <4>2. buffer'[1].last \in Nat /\ Len(content') = 0 + n
        BY <1>2, <1>8, <4>1
      <4> QED BY ONLY <1>3, <4>1, <4>2
    <3>3. ASSUME NEW k \in 1..Len(buffer')
          PROVE  /\ buffer'[k].row + 1 = buffer'[1].row + k
                 /\ buffer'[1].first <= buffer'[k].first
                 /\ buffer'[k].last <= buffer'[Len(buffer')].last
      <4>1. /\ k = 1 /\ Len(buffer') = 1 /\ buffer'[1].first \in Nat
            /\ buffer'[Len(buffer')].last \in Nat
        BY <1>3, <1>8, <1>12, <2>3, <3>1
      <4> QED BY <4>1
    <3>4. /\ \A x \in boxRows' : x[1] < buffer'[1].first
          /\ \A x \in root' : x[1] < buffer'[1].row
      BY <1>12, <2>2, <2>3
    <3> QED BY <1>8, <3>2, <3>3, <3>4 DEF BufferInOrder
  <2>4. CASE buffer # <<>>
    <3>1. /\ \A k \in 1..Len(buffer) : /\ buffer[k].row + 1 = buffer[1].row + k
                                       /\ buffer[1].first <= buffer[k].first
                                       /\ buffer[k].last <= buffer[Len(buffer)].last
          /\ \A x \in boxRows : x[1] < buffer[1].first
          /\ \A x \in root : x[1] < buffer[1].row
      BY <1>1, <2>4 DEF BufferInOrder, SamplesTyped
    <3>2. ASSUME NEW k \in 1..Len(buffer')
          PROVE  /\ buffer'[k].row + 1 = buffer'[1].row + k
                 /\ buffer'[1].first <= buffer'[k].first
                 /\ buffer'[k].last <= buffer'[Len(buffer')].last
      <4>1. CASE k = Len(buffer')
        <5>1. buffer'[1].row \in Nat /\ at[w].row = buffer'[1].row + Len(buffer)
          <6>1. buffer[Len(buffer)].row + 1 = buffer[1].row + Len(buffer)
            BY <1>11, <2>4, <3>1
          <6>2. buffer[1].row \in Nat
            BY <1>7, <1>11, <2>4
          <6> QED BY <1>11, <2>4, <6>1, <6>2
        <5>2. buffer'[1] = buffer[1] /\ buffer[1].first <= First(w)
          BY <1>11, <2>4
        <5>3. buffer'[Len(buffer')].last \in Nat
          BY <1>8
        <5>4. k = Len(buffer) + 1 /\ Len(buffer) \in Nat
          BY <1>2, <1>7, <4>1
        <5>5. buffer'[k].row + 1 = buffer'[1].row + k
          <6>1. buffer'[k].row = at[w].row /\ at[w].row \in Nat
            BY <1>2, <1>3, <4>1
          <6> QED BY ONLY <5>1, <5>4, <6>1
        <5> QED BY <1>2, <4>1, <5>2, <5>3, <5>5
      <4>2. CASE k # Len(buffer')
        <5>1. k \in 1..Len(buffer) /\ buffer'[k] = buffer[k]
          BY <1>2, <1>7, <4>2
        <5>2. buffer[k].last + 1 <= First(w)
          <6>1. buffer[Len(buffer)].last + 1 = First(w) /\ Len(buffer) \in 1..Len(buffer)
            BY <1>11, <2>4
          <6>2. buffer[k].last <= buffer[Len(buffer)].last
            BY <3>1, <5>1
          <6>3. buffer[k].last \in Nat /\ buffer[Len(buffer)].last \in Nat
            BY <1>7, <5>1, <6>1
          <6> QED BY ONLY <6>1, <6>2, <6>3
        <5>3. buffer'[Len(buffer')].last + 1 = End(w) /\ buffer'[Len(buffer')].last \in Nat
          BY <1>2, <1>8
        <5>4. buffer[k].last \in Nat /\ buffer'[1] = buffer[1]
          BY <1>7, <1>11, <2>4, <5>1
        <5>5. buffer'[k].last <= buffer'[Len(buffer')].last
          <6>1. First(w) \in Nat /\ First(w) < End(w) /\ End(w) \in Nat
            BY <1>3
          <6> DEFINE a == buffer[k].last
          <6> DEFINE c == buffer'[Len(buffer')].last
          <6> DEFINE b == First(w)
          <6> DEFINE e == End(w)
          <6>2. a + 1 <= b /\ c + 1 = e /\ b < e /\ a \in Nat /\ c \in Nat /\ b \in Nat /\ e \in Nat
            BY <5>2, <5>3, <5>4, <6>1
          <6> HIDE DEF a, c, b, e
          <6>3. a <= c
            BY ONLY <6>2
          <6> QED BY <5>1, <6>3 DEF a, c
        <5> QED BY <3>1, <5>1, <5>4, <5>5
      <4> QED BY <4>1, <4>2
    <3>3. Len(content') + buffer'[1].first = buffer'[Len(buffer')].last + 1
      BY <1>2, <1>3, <1>11, <2>4
    <3> QED BY <1>1, <1>8, <1>11, <2>4, <3>1, <3>2, <3>3 DEF BufferInOrder
  <2> QED BY <2>3, <2>4
<1>14. SamplesHeld'
  <2> SUFFICES ASSUME ~timedOut, Whole', NEW s \in offered \cap Samples
               PROVE  Waiting(s)' \/ InHands(s)' \/ Buffered(s)' \/ Stored(s)'
    BY <1>1 DEF SamplesHeld
  <2>1. Whole
    BY <1>1 DEF SamplesTyped
  <2>2. (Waiting(s) => Waiting(s)') /\ (Stored(s) => Stored(s)')
    BY <1>1 DEF Waiting, Stored
  <2>3. InHands(s) => InHands(s)' \/ at[w].item = s
    BY <1>1 DEF InHands, OtherThreads
  <2>4. ASSUME at[w].item = s PROVE Buffered(s)'
    <3>1. Len(buffer') \in 1..Len(buffer') /\ buffer'[Len(buffer')].last + 1 = First(w) + Boxes[s]
          /\ buffer'[Len(buffer')].first = First(w)
      BY <1>2, <1>3, <1>8, <2>4 DEF n
    <3>2. Len(content) + buffer'[1].first = First(w) /\ buffer'[1].first \in Nat
      BY <1>3, <1>11, <1>12
    <3>3. ASSUME NEW m \in First(w)..buffer'[Len(buffer')].last
          PROVE  content'[m - buffer'[1].first + 1] = s
      <4>1. m - buffer'[1].first + 1 \in Len(content) + 1..Len(content')
        <5>1. /\ Len(content') = Len(content) + n /\ Len(content) \in Nat
              /\ buffer'[Len(buffer')].last + 1 = First(w) + n
              /\ buffer'[Len(buffer')].last \in Nat
          BY <1>2, <1>3, <1>7, <1>8
        <5>2. First(w) \in Nat /\ n \in Nat /\ m \in Nat /\ First(w) <= m
              /\ m <= buffer'[Len(buffer')].last
          BY <1>3, <5>1
        <5>3. m - buffer'[1].first + 1 \in Len(content) + 1..Len(content) + n
          BY ONLY <3>2, <5>1, <5>2, RowPlace
        <5> QED BY <5>1, <5>3
      <4> QED BY <1>2, <2>4, <4>1
    <3> QED BY <3>1, <3>3 DEF Buffered
  <2>5. ASSUME Buffered(s) PROVE Buffered(s)'
    <3>1. PICK k \in 1..Len(buffer) :
                /\ buffer[k].last + 1 = buffer[k].first + Boxes[s]
                /\ \A m \in buffer[k].first..buffer[k].last : content[m - buffer[1].first + 1] = s
      BY <2>5 DEF Buffered
    <3>2. buffer # <<>>
      BY <1>7
    <3>3. k \in 1..Len(buffer') /\ buffer'[k] = buffer[k]
      BY <1>2, <1>7
    <3>4. buffer[1].first <= buffer[k].first /\ buffer[k].last <= buffer[Len(buffer)].last
      BY <2>1 DEF BufferInOrder
    <3>5. ASSUME NEW m \in buffer[k].first..buffer[k].last
          PROVE  content'[m - buffer[1].first + 1] = content[m - buffer[1].first + 1]
      <4>1. m - buffer[1].first + 1 \in 1..Len(content)
        <5>1. buffer[k].first \in Nat /\ buffer[k].last \in Nat /\ m \in Nat
              /\ buffer[k].first <= m /\ m <= buffer[k].last
          <6>1. buffer[k].first \in Nat /\ buffer[k].last \in Nat
            BY <1>7
          <6> QED BY ONLY <3>5, <6>1
        <5>2. /\ Len(content) + buffer[1].first = First(w) /\ buffer[1].first \in Nat
              /\ buffer[Len(buffer)].last + 1 = First(w) /\ buffer[Len(buffer)].last \in Nat
          BY <1>7, <1>11, <3>2
        <5>3. buffer[1].first <= m /\ m < First(w)
          <6>1. buffer[1].first <= buffer[k].first /\ buffer[k].last <= buffer[Len(buffer)].last
            BY <3>4
          <6>2. First(w) \in Nat
            BY <1>3
          <6>3. buffer[1].first <= m
            BY ONLY <5>1, <5>2, <6>1
          <6>4. buffer[Len(buffer)].last < First(w)
            BY ONLY <5>2, <6>2
          <6> QED BY ONLY <5>1, <5>2, <6>1, <6>2, <6>3, <6>4
        <5> QED BY <1>3, <1>7, <5>1, <5>2, <5>3, RowPlace
      <4> QED BY <1>2, <4>1
    <3> QED BY <1>11, <3>1, <3>2, <3>3, <3>5 DEF Buffered
  <2> QED BY <2>1, <2>2, <2>3, <2>4, <2>5 DEF SamplesHeld
<1>15. FlushedAtEnd'
  BY <1>1 DEF FlushedAtEnd, IInv, PoolAtRest, Indexed
<1> QED BY <1>5, <1>6, <1>10, <1>13, <1>14, <1>15

-----------------------------------------------------------------------------
(* flush_integrations.                                                     *)

\* The rows of the buffer in ds_integration, and in the root dataset.
Slice == buffer[1].first..buffer[Len(buffer)].last
Row(m) == <<m, content[m - buffer[1].first + 1]>>
RootSlice == buffer[1].row..buffer[Len(buffer)].row
Cell(r) == <<r, buffer[r - buffer[1].row + 1].first, buffer[r - buffer[1].row + 1].last>>

\* What a flush may do to the file; the buffer is empty after it.
LEMMA Flushed ==
    ASSUME SamplesTyped, FlushBuffer, buffer # <<>>
    PROVE  /\ buffer' = <<>> /\ content' = <<>>
           /\ \/ boxRows' = boxRows
              \/ /\ Len(content) + buffer[1].first = buffer[Len(buffer)].last + 1
                 /\ boxRows' = {x \in boxRows : x[1] \notin Slice} \cup {Row(m) : m \in Slice}
           /\ \/ root' = root
              \/ /\ Len(buffer) + buffer[1].row = buffer[Len(buffer)].row + 1
                 /\ root' = {x \in root : x[1] \notin RootSlice} \cup {Cell(r) : r \in RootSlice}
           /\ ~Closed /\ Len(content) + buffer[1].first = buffer[Len(buffer)].last + 1 =>
                 /\ boxRows' = {x \in boxRows : x[1] \notin Slice} \cup {Row(m) : m \in Slice}
                 /\ Len(buffer) + buffer[1].row = buffer[Len(buffer)].row + 1 =>
                       root' = {x \in root : x[1] \notin RootSlice} \cup {Cell(r) : r \in RootSlice}
<1>1. Head(buffer) = buffer[1] /\ Last(buffer) = buffer[Len(buffer)]
  BY Entries
<1>2. /\ buffer[1].first \in Nat /\ buffer[1].row \in Nat /\ Len(content) \in Nat /\ Len(buffer) \in Nat
      /\ buffer[Len(buffer)].last \in Nat /\ buffer[Len(buffer)].row \in Nat
  BY Entries
<1> DEFINE fits == Last(buffer).last + 1 = Head(buffer).first + Len(content)
<1> DEFINE entriesFit == Last(buffer).row + 1 = Head(buffer).row + Len(buffer)
<1>3. /\ fits <=> Len(content) + buffer[1].first = buffer[Len(buffer)].last + 1
      /\ entriesFit <=> Len(buffer) + buffer[1].row = buffer[Len(buffer)].row + 1
  BY <1>1, <1>2
<1>4. /\ buffer' = <<>> /\ content' = <<>>
      /\ boxRows' = IF ~fits \/ Closed THEN boxRows
                    ELSE {x \in boxRows : x[1] \notin Slice} \cup {Row(m) : m \in Slice}
      /\ root' = IF ~fits \/ ~entriesFit \/ Closed THEN root
                 ELSE {x \in root : x[1] \notin RootSlice} \cup {Cell(r) : r \in RootSlice}
  BY <1>1 DEF FlushBuffer, Slice, Row, RootSlice, Cell
<1> HIDE DEF fits, entriesFit
<1> QED BY <1>3, <1>4

\* Row and Cell are rows of the file.
LEMMA FlushedTyped ==
    ASSUME SamplesTyped, FlushBuffer
    PROVE  /\ buffer' \in Seq(Entry) /\ content' \in Seq(Samples)
           /\ boxRows' \subseteq Nat \X Samples /\ root' \subseteq Nat \X Nat \X Nat
           /\ buffer' = <<>> /\ (buffer = <<>> => UNCHANGED <<boxRows, root, content>>)
<1>1. CASE buffer = <<>>
  BY <1>1 DEF SamplesTyped, FlushBuffer, bufferVars
<1>2. CASE buffer # <<>>
  <2>1. <<>> \in Seq(Entry) /\ <<>> \in Seq(Samples)
    OBVIOUS
  <2>2. /\ buffer[1].first \in Nat /\ buffer[1].row \in Nat /\ Len(content) \in Nat
        /\ buffer[Len(buffer)].last \in Nat /\ buffer[Len(buffer)].row \in Nat
        /\ Len(buffer) \in Nat
    BY <1>2, Entries
  <2>3. ASSUME Len(content) + buffer[1].first = buffer[Len(buffer)].last + 1, NEW m \in Slice
        PROVE  Row(m) \in Nat \X Samples
    <3>1. m \in Nat /\ buffer[1].first <= m /\ m < buffer[Len(buffer)].last + 1
      BY <2>2 DEF Slice
    <3>2. buffer[Len(buffer)].last + 1 \in Nat
      BY <2>2
    <3>3. m - buffer[1].first + 1 \in 1..Len(content)
      BY <2>2, <2>3, <3>1, <3>2, RowPlace
    <3>4. content[m - buffer[1].first + 1] \in Samples
      BY <3>3, Entries
    <3> QED BY <3>1, <3>4 DEF Row
  <2>4. ASSUME Len(buffer) + buffer[1].row = buffer[Len(buffer)].row + 1, NEW r \in RootSlice
        PROVE  Cell(r) \in Nat \X Nat \X Nat
    <3>1. r \in Nat /\ buffer[1].row <= r /\ r < buffer[Len(buffer)].row + 1
      BY <2>2 DEF RootSlice
    <3>2. buffer[Len(buffer)].row + 1 \in Nat
      BY <2>2
    <3>3. r - buffer[1].row + 1 \in 1..Len(buffer)
      BY <2>2, <2>4, <3>1, <3>2, RowPlace
    <3>4. buffer[r - buffer[1].row + 1].first \in Nat /\ buffer[r - buffer[1].row + 1].last \in Nat
      BY <3>3, Entries
    <3> QED BY <3>1, <3>4 DEF Cell
  <2> QED BY <1>2, <2>1, <2>3, <2>4, Flushed DEF SamplesTyped
<1> QED BY <1>1, <1>2

\* The k-th of n consecutive rows from b to c.
LEMMA EntryPlace ==
    \A a, b, c, k, n \in Nat :
       a + 1 = b + k /\ n + b = c + 1 /\ k \in 1..n => a \in b..c /\ a - b + 1 = k
OBVIOUS

\* In order, a flush puts each sample of the buffer into the file, and leaves
\* those there where they are.
LEMMA FlushStores ==
    ASSUME SamplesTyped, BufferInOrder, Whole, ~Closed, FlushBuffer, NEW s \in Samples,
           Buffered(s) \/ Stored(s)
    PROVE  Stored(s)'
<1>1. CASE buffer = <<>>
  BY <1>1, Entries, FlushedTyped DEF Buffered, Stored
<1>2. CASE buffer # <<>>
  <2>1. /\ 1 \in 1..Len(buffer) /\ Len(buffer) \in 1..Len(buffer) /\ Len(buffer) \in Nat
        /\ buffer[1].first \in Nat /\ buffer[1].row \in Nat
        /\ buffer[Len(buffer)].last \in Nat /\ buffer[Len(buffer)].row \in Nat
    BY <1>2, Entries
  <2>2. /\ Len(content) + buffer[1].first = buffer[Len(buffer)].last + 1
        /\ Len(buffer) + buffer[1].row = buffer[Len(buffer)].row + 1
    BY <1>2, <2>1 DEF BufferInOrder
  <2>3. /\ boxRows' = {x \in boxRows : x[1] \notin Slice} \cup {Row(m) : m \in Slice}
        /\ root' = {x \in root : x[1] \notin RootSlice} \cup {Cell(r) : r \in RootSlice}
    BY <1>2, <2>2, Flushed
  <2>4. CASE Stored(s)
    <3>1. PICK x \in root : /\ x[3] + 1 = x[2] + Boxes[s]
                            /\ \A m \in x[2]..x[3] : boxRows \cap ({m} \X Samples) = {<<m, s>>}
      BY <2>4 DEF Stored
    <3>2. x \in root'
      <4>1. x[1] < buffer[1].row /\ x[1] \in Nat
        BY <1>2, Entries DEF BufferInOrder
      <4> QED BY <2>1, <2>3, <4>1 DEF RootSlice
    <3>3. ASSUME NEW m \in x[2]..x[3] PROVE boxRows' \cap ({m} \X Samples) = {<<m, s>>}
      <4>1. <<m, s>> \in boxRows
        BY <3>1
      <4>2. m < buffer[1].first /\ m \in Nat
        BY <1>2, <4>1, Entries DEF BufferInOrder
      <4>3. m \notin Slice
        BY <2>1, <4>2 DEF Slice
      <4> QED BY <2>3, <3>1, <4>3 DEF Row
    <3> QED BY <3>1, <3>2, <3>3 DEF Stored
  <2>5. CASE Buffered(s)
    <3>1. PICK k \in 1..Len(buffer) :
                /\ buffer[k].last + 1 = buffer[k].first + Boxes[s]
                /\ \A m \in buffer[k].first..buffer[k].last : content[m - buffer[1].first + 1] = s
      BY <2>5 DEF Buffered
    <3>2. /\ buffer[k].row + 1 = buffer[1].row + k
          /\ buffer[1].first <= buffer[k].first /\ buffer[k].last <= buffer[Len(buffer)].last
          /\ buffer[k].row \in Nat /\ buffer[k].first \in Nat /\ buffer[k].last \in Nat
      BY Entries DEF BufferInOrder
    <3>3. buffer[k].row \in RootSlice /\ buffer[k].row - buffer[1].row + 1 = k
      <4>1. buffer[k].row \in buffer[1].row..buffer[Len(buffer)].row
            /\ buffer[k].row - buffer[1].row + 1 = k
        <5>1. k \in Nat
          BY <2>1
        <5>2. k \in 1..Len(buffer)
          OBVIOUS
        <5> DEFINE a == buffer[k].row
        <5> DEFINE b == buffer[1].row
        <5> DEFINE c == buffer[Len(buffer)].row
        <5>3. /\ a \in Nat /\ b \in Nat /\ c \in Nat /\ Len(buffer) \in Nat
              /\ a + 1 = b + k /\ Len(buffer) + b = c + 1
          BY <2>1, <2>2, <3>2
        <5> HIDE DEF a, b, c
        <5>4. a \in b..c /\ a - b + 1 = k
          BY <5>1, <5>2, <5>3, EntryPlace
        <5> QED BY <5>4 DEF a, b, c
      <4> QED BY <4>1 DEF RootSlice
    <3>4. <<buffer[k].row, buffer[k].first, buffer[k].last>> \in root'
      BY <2>3, <3>3 DEF Cell
    <3>5. ASSUME NEW m \in buffer[k].first..buffer[k].last
          PROVE  boxRows' \cap ({m} \X Samples) = {<<m, s>>}
      <4>1. m \in Slice
        <5> DEFINE a == buffer[1].first
        <5> DEFINE b == buffer[Len(buffer)].last
        <5> DEFINE c == buffer[k].first
        <5> DEFINE d == buffer[k].last
        <5>1. a \in Nat /\ b \in Nat /\ c \in Nat /\ d \in Nat /\ a <= c /\ d <= b /\ m \in c..d
          BY <2>1, <3>2
        <5> HIDE DEF a, b, c, d
        <5>2. m \in a..b
          BY ONLY <5>1
        <5> QED BY <5>2 DEF Slice, a, b
      <4>2. Row(m) = <<m, s>>
        BY <3>1 DEF Row
      <4>3. \A l \in Slice : l # m => Row(l)[1] # m
        BY DEF Row
      <4>4. <<m, s>> \in boxRows'
        BY <2>3, <4>1, <4>2
      <4>5. ASSUME NEW x \in boxRows', x \in {m} \X Samples PROVE x = <<m, s>>
        <5>1. x[1] = m
          BY <4>5
        <5>2. PICK l \in Slice : x = Row(l)
          BY <2>3, <4>1, <5>1
        <5> QED BY <4>2, <4>3, <5>1, <5>2
      <4>6. <<m, s>> \in {m} \X Samples
        OBVIOUS
      <4> QED BY <4>4, <4>5, <4>6
    <3> DEFINE x == <<buffer[k].row, buffer[k].first, buffer[k].last>>
    <3>6. x[2] = buffer[k].first /\ x[3] = buffer[k].last
      OBVIOUS
    <3> HIDE DEF x
    <3> QED BY <3>1, <3>4, <3>5, <3>6 DEF Stored, x
  <2> QED BY <2>4, <2>5
<1> QED BY <1>1, <1>2

\* The buffer is flushed, by a thread that is through or by the handler.
LEMMA FlushStep ==
    ASSUME IInv, SampleInv, FlushBuffer, ~timedOut => ~Closed,
           \A w \in Workers : (Indexed(w) <=> Indexed(w)') /\ (Indexed(w) => at'[w] = at[w]),
           \A s \in Samples : InHands(s) => InHands(s)',
           UNCHANGED <<offered, jobs, next, overtaken, broken, timedOut>>
    PROVE  SampleInv'
<1> USE DEF SampleInv
<1>1. /\ buffer' \in Seq(Entry) /\ content' \in Seq(Samples)
      /\ boxRows' \subseteq Nat \X Samples /\ root' \subseteq Nat \X Nat \X Nat
      /\ buffer' = <<>> /\ (buffer = <<>> => UNCHANGED <<boxRows, root, content>>)
  BY FlushedTyped
<1>2. SamplesTyped'
  BY <1>1 DEF SamplesTyped
<1>3. \A w \in Workers : Indexed(w) => First(w)' = First(w) /\ End(w)' = End(w)
  BY DEF First, End
<1>4. RunsApart'
  BY <1>3 DEF RunsApart
<1>5. InOrder'
  <2> SUFFICES ASSUME Whole
               PROVE  \E f \in 0..next'.root, g \in 0..next'.box : Frontier(f, g)'
    BY DEF InOrder
  <2>1. PICK f \in 0..next.root, g \in 0..next.box : Frontier(f, g)
    BY DEF InOrder
  <2>2. f \in Nat /\ g \in Nat
    BY <2>1
  <2>3. (\A x \in boxRows' : x[1] < g) /\ (\A x \in root' : x[1] < f)
    <3>1. CASE buffer = <<>>
      BY <1>1, <2>1, <3>1 DEF Frontier
    <3>2. CASE buffer # <<>>
      <4>1. /\ buffer[Len(buffer)].row + 1 = f /\ buffer[Len(buffer)].last + 1 = g
            /\ buffer[1].first \in Nat /\ buffer[1].row \in Nat
            /\ buffer[Len(buffer)].last \in Nat /\ buffer[Len(buffer)].row \in Nat
        BY <2>1, <3>2, Entries DEF Frontier
      <4>2. (\A m \in Slice : m < g) /\ (\A r \in RootSlice : r < f)
        BY <2>2, <4>1 DEF Slice, RootSlice
      <4>3. /\ boxRows' \subseteq boxRows \cup {Row(m) : m \in Slice}
            /\ root' \subseteq root \cup {Cell(r) : r \in RootSlice}
        BY <3>2, Flushed
      <4>4. (\A m \in Slice : Row(m)[1] = m) /\ (\A r \in RootSlice : Cell(r)[1] = r)
        BY DEF Row, Cell
      <4> QED BY <2>1, <4>2, <4>3, <4>4 DEF Frontier
    <3> QED BY <3>1, <3>2
  <2>4. Frontier(f, g)'
    BY <1>1, <1>3, <2>1, <2>3 DEF Frontier
  <2> QED BY <2>1, <2>4
<1>6. BufferInOrder'
  <2>1. Whole => content' = <<>>
    <3>1. CASE buffer = <<>>
      BY <1>1, <3>1 DEF BufferInOrder
    <3>2. CASE buffer # <<>>
      BY <3>2, Flushed
    <3> QED BY <3>1, <3>2
  <2>2. 1..Len(buffer') = {}
    BY <1>1
  <2> QED BY <1>1, <2>1, <2>2 DEF BufferInOrder
<1>7. SamplesHeld'
  <2>1. \A s \in Samples : Waiting(s) => Waiting(s)'
    BY DEF Waiting
  <2>2. ~timedOut /\ Whole => \A s \in Samples : Buffered(s) \/ Stored(s) => Stored(s)'
    BY FlushStores
  <2> QED BY <2>1, <2>2 DEF SamplesHeld
<1>8. FlushedAtEnd'
  BY <1>1 DEF FlushedAtEnd
<1> QED BY <1>2, <1>4, <1>5, <1>6, <1>7, <1>8

\* A thread is through with its sample; the buffer is flushed if it is full.
LEMMA FlushSample == ASSUME IInv, SampleInv, NEW w \in Workers, Flush(w) PROVE SampleInv'
<1>1. /\ at[w].pc = "buffered" /\ Done(w)
      /\ UNCHANGED <<handler, offered, jobs, next, overtaken, broken, timedOut>>
      /\ FlushBuffer \/ UNCHANGED <<boxRows, root, buffer, content>>
  BY DEF Flush, bufferVars, ghosts
<1>2. OtherThreads(w) /\ at'[w].pc = "idle"
  BY <1>1, DonePlace DEF IInv
<1>3. CASE FlushBuffer
  <2>1. ~timedOut => ~Closed
    BY <1>1 DEF IInv, PoolAtRest, Closed
  <2>2. \A v \in Workers : (Indexed(v) <=> Indexed(v)') /\ (Indexed(v) => at'[v] = at[v])
    BY <1>1, <1>2 DEF Indexed, OtherThreads
  <2>3. \A s \in Samples : InHands(s) => InHands(s)'
    BY <1>1, <1>2 DEF InHands, OtherThreads
  <2> QED BY <1>1, <1>3, <2>1, <2>2, <2>3, FlushStep
<1>4. CASE UNCHANGED <<boxRows, root, buffer, content>>
  <2>1. at[w].pc # "indexed" /\ (at[w].pc = "taken" => at[w].item \in Frames) /\ at'[w].pc # "indexed"
    BY <1>1, <1>2
  <2> QED BY <1>1, <1>2, <1>4, <2>1, FrameStep
<1> QED BY <1>1, <1>3, <1>4

\* The handler goes on, and flushes what is left before it closes the file.
LEMMA CloseSample == ASSUME IInv, SampleInv, Close PROVE SampleInv'
<1>1. at' = at /\ next' = next /\ UNCHANGED <<offered, jobs, overtaken, broken>>
  BY DEF Close, StopRecording, StopServer, Join, JoinTimeout, CloseFlush, CloseFile, saveVars, ghosts
<1>2. CASE CloseFlush
  <2>1. FlushBuffer /\ ~Closed /\ timedOut' = timedOut
    BY <1>2 DEF CloseFlush, Closed, ghosts
  <2>2. \A w \in Workers : Indexed(w) <=> Indexed(w)'
    BY <1>1 DEF Indexed
  <2>3. \A s \in Samples : InHands(s) => InHands(s)'
    BY <1>1 DEF InHands
  <2> QED BY <1>1, <2>1, <2>2, <2>3, FlushStep
<1>3. CASE ~CloseFlush
  <2>1. /\ UNCHANGED <<buffer, content, boxRows, root>>
        /\ (timedOut => timedOut') 
    BY <1>3 DEF Close, StopRecording, StopServer, Join, JoinTimeout, CloseFile, fileVars, bufferVars,
                ghosts
  <2>2. handler' \in {"flushed", "closed"} => handler \in {"flushed", "closed"} \/ buffer = <<>>
    BY <1>3 DEF Close, StopRecording, StopServer, Join, JoinTimeout, CloseFile
  <2> QED BY <1>1, <2>1, <2>2, LoopStep
<1> QED BY <1>2, <1>3

\* Every step keeps the samples.
LEMMA SamplesNext == IInv /\ SampleInv /\ [Next]_vars => SampleInv'
<1> SUFFICES ASSUME IInv, SampleInv, [Next]_vars PROVE SampleInv'
  OBVIOUS
<1>1. IInv'
  BY NextHolds
<1>2. ASSUME NEW i \in Items, Offer(i) PROVE SampleInv'
  BY <1>2, OfferSample
<1>3. CASE Close
  BY <1>3, CloseSample
<1>4. ASSUME NEW w \in Workers, Save(w) PROVE SampleInv'
  BY <1>1, <1>4, TakeSample, FrameSample, AllocateSample, FailSampleSample,
     BufferSample, FlushSample DEF Save
<1>5. CASE UNCHANGED vars
  <2>1. /\ at' = at /\ next' = next /\ timedOut' = timedOut /\ handler' = handler
        /\ offered' = offered /\ jobs' = jobs
        /\ UNCHANGED <<buffer, content, boxRows, root, overtaken, broken>>
    BY <1>5 DEF vars, saveVars, fileVars, bufferVars, ghosts
  <2>2. handler' \in {"flushed", "closed"} => handler \in {"flushed", "closed"} \/ buffer = <<>>
    BY <2>1
  <2> QED BY <2>1, <2>2, LoopStep DEF SampleInv, FlushedAtEnd
<1> QED BY <1>2, <1>3, <1>4, <1>5 DEF Next

\* Once the recording is closed, nobody gave up on the pool, no thread overtook
\* another and no save raised between its indices and the buffer, every sample
\* offered is found through the root dataset in rows that are all its own.
THEOREM SamplesKeptCorrect == Spec => []SamplesKept
<1>1. IInv /\ SampleInv => SamplesKept
  <2> SUFFICES ASSUME IInv, SampleInv, Closed, ~timedOut, Whole, NEW s \in offered \cap Samples
               PROVE  Stored(s)
    BY DEF SamplesKept
  <2>1. jobs = <<>> /\ (\A w \in Workers : at[w].pc = "idle") /\ buffer = <<>>
    BY DEF IInv, PoolAtRest, SampleInv, FlushedAtEnd, Closed
  <2>2. ~Waiting(s) /\ ~InHands(s) /\ ~Buffered(s)
    BY <2>1 DEF Waiting, InHands, Buffered
  <2> QED BY <2>2 DEF SampleInv, SamplesHeld
<1> QED BY <1>1, InitHolds, NextHolds, SamplesInit, SamplesNext, PTL DEF Spec
\* One thread cannot overtake itself: with one worker in the pool the samples
\* are kept without the condition that recorder_overtaken shows to be needed. What
\* one thread does not mend is a save that raises with its indices taken.
THEOREM OneThreadKeepsOrder ==
    ASSUME \A v, w \in Workers : v = w
    PROVE  Spec => []BufferedSamplesKept
<1>1. Init => ~overtaken
  BY DEF Init
<1>2. IInv /\ ~overtaken /\ [Next]_vars => ~overtaken'
  <2> SUFFICES ASSUME IInv, ~overtaken, [Next]_vars PROVE ~overtaken'
    OBVIOUS
  <2>1. ASSUME NEW w \in Workers, Buffer(w) PROVE ~overtaken'
    <3>1. at[w].row \in Nat
      BY DEF IInv, PoolTyped, Places
    <3>2. overtaken' = (overtaken \/ \E v \in Workers : at[v].pc = "indexed" /\ at[v].row < at[w].row)
      BY <2>1 DEF Buffer
    <3>3. \A v \in Workers : ~(at[v].row < at[w].row)
      BY <3>1
    <3> QED BY <3>2, <3>3
  <2>2. ASSUME NEW w \in Workers, Save(w), ~Buffer(w) PROVE ~overtaken'
    BY <2>2 DEF Save, Take, Limit, ReadIndex, CountIndex, WriteRow, CountRow, Fail, Allocate,
                FailSample, Flush, ghosts
  <2>3. CASE Close
    BY <2>3 DEF Close, StopRecording, StopServer, Join, JoinTimeout, CloseFlush, CloseFile, ghosts
  <2>4. CASE \E i \in Items : Offer(i)
    BY <2>4 DEF Offer, ghosts
  <2>5. CASE UNCHANGED vars
    BY <2>5 DEF vars, ghosts
  <2> QED BY <2>1, <2>2, <2>3, <2>4, <2>5 DEF Next
<1>3. SamplesKept /\ ~overtaken => BufferedSamplesKept
  BY DEF SamplesKept, BufferedSamplesKept
<1> QED BY <1>1, <1>2, <1>3, InitHolds, NextHolds, SamplesKeptCorrect, PTL DEF Spec

\* No more saves of frames raise than the bound of the model lets.
FailuresBound == failures <= MaxFailures

\* The state is what its type says: datasets, buffer and what the threads are at.
THEOREM RecorderTypeCorrect == Spec => []TypeOK
<1>1. Init => FailuresBound
  BY BoundAssumption DEF Init, FailuresBound
<1>2. IInv /\ FailuresBound /\ [Next]_vars => FailuresBound'
  <2> SUFFICES ASSUME IInv, failures <= MaxFailures, [Next]_vars PROVE failures' <= MaxFailures
    BY DEF FailuresBound
  <2>1. failures \in Nat /\ MaxFailures \in Nat
    BY BoundAssumption DEF IInv, PoolTyped
  <2>2. ASSUME NEW w \in Workers, Fail(w) PROVE failures' <= MaxFailures
    BY <2>1, <2>2 DEF Fail
  <2>3. failures' = failures \/ \E w \in Workers : Fail(w)
    BY DEF Next, vars, saveVars, Offer, Save, Take, Limit, ReadIndex, CountIndex, WriteRow, CountRow,
           Allocate, FailSample, Buffer, Flush, Close, StopRecording, StopServer, Join, JoinTimeout, CloseFlush,
           CloseFile
  <2> QED BY <2>2, <2>3
<1>3. IInv /\ SampleInv /\ FailuresBound => TypeOK
  <2> SUFFICES ASSUME IInv, SampleInv, FailuresBound PROVE TypeOK
    OBVIOUS
  <2>1. failures \in 0..MaxFailures
    BY BoundAssumption DEF FailuresBound, IInv, PoolTyped
  <2> QED BY <2>1 DEF IInv, SampleInv, PoolTyped, SamplesTyped, Places, TypeOK
<1> QED BY <1>1, <1>2, <1>3, InitHolds, NextHolds, SamplesInit, SamplesNext, PTL DEF Spec
=================================================================================
