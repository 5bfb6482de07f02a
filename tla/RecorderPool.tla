----------------------------- MODULE RecorderPool -----------------------------
(***************************************************************************)
(* One recording of the storage node: the stream callbacks that submit     *)
(* saves, the pool threads that run them on the shared recorder            *)
(* (storage/record.py, Recorder and RecorderServer) and stop_recording     *)
(* (storage/handlers.py), which ends the pool and closes the file.         *)
(*                                                                         *)
(* A frame stands for every stream saved row by row (frames, logs,         *)
(* predictions); samples are the integrations, which are buffered and      *)
(* written together. A thread that waits for a lock is one whose next      *)
(* action is not enabled; what is done under one lock and touches nothing  *)
(* another thread reads without it is one action.                          *)
(***************************************************************************)
EXTENDS Naturals, Sequences, SequencesExt

CONSTANTS
    Workers,     \* threads of the pool
    Frames,      \* frames the camera may deliver
    Samples,     \* integration samples the integrator may deliver
    Boxes,       \* the number of boxes of a sample; the last one may go while it is made
    BufferSize,  \* intergration_buffer_size
    MaxFailures, \* bound: saves of frames that raise
    NoItem, NoWorker

ASSUME ItemAssumption ==
    /\ Frames \cap Samples = {} /\ NoItem \notin Frames \cup Samples
    /\ Boxes \in [Samples -> Nat]
ASSUME PoolAssumption == NoWorker \notin Workers
ASSUME BoundAssumption == BufferSize \in Nat \ {0} /\ MaxFailures \in Nat

VARIABLES
    handler,  \* where the handler of the recording is
    offered,  \* what the streams have delivered so far
    jobs,     \* the queue of the pool
    at,       \* what each thread does
    lock,     \* the thread that holds _lock_write
    next,     \* _idx_frame, _idx_integration, _idx_integration_bbox
    written,  \* the frames written and their rows
    size,     \* the size attribute of the frame dataset
    buffer,   \* _buffer_integrations: the indices of each sample in it
    content,  \* its content: the sample each row belongs to, end to end
    boxRows,  \* the rows written of ds_integration and their samples
    root,     \* ds_integration_root: a row, and the first and last box row in it
    kept,     \* the items whose save has returned, and those rate limited
    failures, \* saves of frames that raised
    overtaken,\* a sample was buffered ahead of one with a lower index
    broken,   \* samples whose save raised after it had taken their indices
    timedOut  \* join gave up on the pool

fileVars == <<written, size, boxRows, root>>
bufferVars == <<buffer, content>>
saveVars == <<jobs, at, lock, next, kept, failures>>
ghosts == <<overtaken, broken, timedOut>>
vars == <<handler, offered, saveVars, fileVars, bufferVars, ghosts>>

Items == Frames \cup Samples
Stages == {"recording", "leaving", "joining", "joined", "flushed", "closed"}
Idle == [pc |-> "idle", item |-> NoItem, row |-> 0, rows |-> <<>>]
Entry == [row : Nat, first : Nat, last : Nat]

TypeOK ==
    /\ handler \in Stages
    /\ offered \subseteq Items
    /\ jobs \in Seq(Items)
    /\ at \in [Workers -> [pc : {"idle", "taken", "read", "counted", "stored", "indexed", "buffered"},
                           item : Items \cup {NoItem}, row : Nat, rows : Seq(Nat)]]
    /\ lock \in Workers \cup {NoWorker}
    /\ next \in [frame : Nat, root : Nat, box : Nat]
    /\ written \subseteq Nat \X Frames
    /\ size \in Nat
    /\ buffer \in Seq(Entry) /\ content \in Seq(Samples)
    /\ boxRows \subseteq Nat \X Samples
    /\ root \subseteq Nat \X Nat \X Nat
    /\ kept \in [saved : SUBSET Items, limited : SUBSET Frames]
    /\ failures \in 0..MaxFailures
    /\ overtaken \in BOOLEAN /\ broken \subseteq Samples /\ timedOut \in BOOLEAN

Init ==
    /\ handler = "recording" /\ offered = {}
    /\ jobs = <<>> /\ at = [w \in Workers |-> Idle] /\ lock = NoWorker
    /\ next = [frame |-> 0, root |-> 0, box |-> 0]
    /\ written = {} /\ size = 0 /\ boxRows = {} /\ root = {}
    /\ buffer = <<>> /\ content = <<>>
    /\ kept = [saved |-> {}, limited |-> {}] /\ failures = 0
    /\ overtaken = FALSE /\ broken = {} /\ timedOut = FALSE

-----------------------------------------------------------------------------
(* The event loop of the node.                                             *)

\* on_frame and on_integration, also while the handler unsubscribes.
Offer(i) ==
    /\ handler \in {"recording", "leaving"} /\ i \notin offered
    /\ offered' = offered \cup {i} /\ jobs' = Append(jobs, i)
    /\ UNCHANGED <<handler, at, lock, next, kept, failures, fileVars, bufferVars, ghosts>>

StopRecording ==
    /\ handler = "recording" /\ handler' = "leaving"
    /\ UNCHANGED <<offered, saveVars, fileVars, bufferVars, ghosts>>

\* Unsubscribed. From here to the end the handler does not let go of the loop.
StopServer ==
    /\ handler = "leaving" /\ handler' = "joining"
    /\ UNCHANGED <<offered, saveVars, fileVars, bufferVars, ghosts>>

\* The server's thread ends when the pool has run everything.
Join ==
    /\ handler = "joining" /\ jobs = <<>> /\ \A w \in Workers : at[w].pc = "idle"
    /\ handler' = "joined"
    /\ UNCHANGED <<offered, saveVars, fileVars, bufferVars, ghosts>>

JoinTimeout ==
    /\ handler = "joining" /\ handler' = "joined"
    /\ timedOut' = TRUE
    /\ UNCHANGED <<offered, saveVars, fileVars, bufferVars, overtaken, broken>>

-----------------------------------------------------------------------------
(* The threads of the pool.                                                *)

Closed == handler = "closed"
Set(w, pc) == at' = [at EXCEPT ![w].pc = pc]
Done(w) == at' = [at EXCEPT ![w] = Idle]
Saved(w) == kept' = [kept EXCEPT !.saved = @ \cup {at[w].item}]

Take(w) ==
    /\ at[w].pc = "idle" /\ jobs # <<>>
    /\ at' = [at EXCEPT ![w] = [Idle EXCEPT !.pc = "taken", !.item = Head(jobs)]]
    /\ jobs' = Tail(jobs)
    /\ UNCHANGED <<handler, offered, lock, next, kept, failures, fileVars, bufferVars, ghosts>>

\* The speed limiter returns before an index is consumed.
Limit(w) ==
    /\ at[w].pc = "taken" /\ at[w].item \in Frames
    /\ kept' = [kept EXCEPT !.limited = @ \cup {at[w].item}] /\ Done(w)
    /\ UNCHANGED <<handler, offered, jobs, lock, next, failures, fileVars, bufferVars, ghosts>>

AcquireAnyway(w) == lock' = w   \* mutant: without _lock_write

Acquire(w) == lock = NoWorker /\ lock' = w

\* save_frame: take the index, write the row, count it, under the lock.
ReadIndex(w) ==
    /\ at[w].pc = "taken" /\ at[w].item \in Frames /\ Acquire(w)
    /\ at' = [at EXCEPT ![w].pc = "read", ![w].row = next.frame]
    /\ UNCHANGED <<handler, offered, jobs, next, kept, failures, fileVars, bufferVars, ghosts>>

CountIndex(w) ==
    /\ at[w].pc = "read" /\ Set(w, "counted")
    /\ next' = [next EXCEPT !.frame = at[w].row + 1]
    /\ UNCHANGED <<handler, offered, jobs, lock, kept, failures, fileVars, bufferVars, ghosts>>

WriteRow(w) ==
    /\ at[w].pc = "counted" /\ ~Closed /\ Set(w, "stored")
    /\ written' = written \cup {<<at[w].row, at[w].item>>}
    /\ UNCHANGED <<handler, offered, jobs, lock, next, kept, failures, size, boxRows, root,
                   bufferVars, ghosts>>

CountRow(w) ==
    /\ at[w].pc = "stored" /\ ~Closed /\ Done(w) /\ lock' = NoWorker
    /\ size' = size + 1 /\ Saved(w)
    /\ UNCHANGED <<handler, offered, jobs, next, failures, written, boxRows, root,
                   bufferVars, ghosts>>

\* The save raises: a value is missing or does not fit, or the file is closed.
\* The index stays consumed.
Fail(w) ==
    /\ at[w].pc \in {"counted", "stored"}
    /\ Closed \/ failures < MaxFailures
    /\ Done(w) /\ lock' = NoWorker
    /\ failures' = IF Closed THEN failures ELSE failures + 1
    /\ UNCHANGED <<handler, offered, jobs, next, kept, fileVars, bufferVars, ghosts>>

AllocateOneByOne(w) ==   \* mutant: another thread may allocate in between
    LET rows == Append(at[w].rows, next.box)
    IN  /\ at[w].pc = "taken" /\ at[w].item \in Samples /\ Boxes[at[w].item] # 0
        /\ lock = NoWorker
        /\ at' = [at EXCEPT ![w].rows = rows,
                            ![w].row = IF Len(rows) = 1 THEN next.root ELSE @,
                            ![w].pc = IF Len(rows) = Boxes[at[w].item] THEN "indexed" ELSE @]
        /\ next' = [next EXCEPT !.root = IF Len(rows) = 1 THEN @ + 1 ELSE @, !.box = @ + 1]
        /\ UNCHANGED <<handler, offered, jobs, lock, kept, failures, fileVars, bufferVars, ghosts>>

\* save_integrations_buffered: the root index and an unbroken run of rows.
Allocate(w) ==
    /\ at[w].pc = "taken" /\ at[w].item \in Samples /\ Boxes[at[w].item] # 0
    /\ lock = NoWorker
    /\ LET n == Boxes[at[w].item]
       IN  /\ at' = [at EXCEPT ![w].pc = "indexed", ![w].row = next.root,
                               ![w].rows = [k \in 1..n |-> next.box + k - 1]]
           /\ next' = [next EXCEPT !.root = @ + 1, !.box = @ + n]
    /\ UNCHANGED <<handler, offered, jobs, lock, kept, failures, fileVars, bufferVars, ghosts>>

\* The same, and then the save raises before it comes to the buffer: a value is
\* missing, or there is no box and so no first row. The indices stay consumed.
FailSample(w) ==
    /\ at[w].pc = "taken" /\ at[w].item \in Samples /\ lock = NoWorker
    /\ next' = [next EXCEPT !.root = @ + 1, !.box = @ + Boxes[at[w].item]]
    /\ broken' = broken \cup {at[w].item} /\ Done(w)
    /\ UNCHANGED <<handler, offered, jobs, lock, kept, failures, fileVars, bufferVars, overtaken,
                   timedOut>>

\* Under the other lock, after the indices were taken.
Buffer(w) ==
    /\ at[w].pc = "indexed" /\ Set(w, "buffered")
    /\ buffer' = Append(buffer, [row |-> at[w].row, first |-> at[w].rows[1],
                                last |-> Last(at[w].rows)])
    /\ content' = content \o [k \in DOMAIN at[w].rows |-> at[w].item]
    /\ overtaken' = (overtaken \/ \E v \in Workers : at[v].pc = "indexed" /\ at[v].row < at[w].row)
    /\ UNCHANGED <<handler, offered, jobs, lock, next, kept, failures, fileVars, broken,
                   timedOut>>

\* flush_integrations. One slice from the first row of the first entry to the
\* last row of the last one takes the content, another the root entries; a slice
\* of another length raises, and the buffer is emptied all the same.
FlushBuffer ==
    IF buffer = <<>> THEN UNCHANGED <<boxRows, root, bufferVars>>
    ELSE LET slice == Head(buffer).first..Last(buffer).last
             places == Head(buffer).row..Last(buffer).row
             fits == Last(buffer).last + 1 = Head(buffer).first + Len(content)
             entriesFit == Last(buffer).row + 1 = Head(buffer).row + Len(buffer)
             entry(r) == buffer[r - Head(buffer).row + 1]
         IN  /\ boxRows' = IF ~fits \/ Closed THEN boxRows
                           ELSE {x \in boxRows : x[1] \notin slice} \cup
                                {<<n, content[n - Head(buffer).first + 1]>> : n \in slice}
             /\ root' = IF ~fits \/ ~entriesFit \/ Closed THEN root
                        ELSE {x \in root : x[1] \notin places} \cup
                             {<<r, entry(r).first, entry(r).last>> : r \in places}
             /\ buffer' = <<>> /\ content' = <<>>

\* The length is read without the lock; who comes second finds it empty.
Flush(w) ==
    /\ at[w].pc = "buffered" /\ Saved(w) /\ Done(w)
    /\ IF Len(buffer) >= BufferSize THEN lock = NoWorker /\ FlushBuffer
                                    ELSE UNCHANGED <<boxRows, root, bufferVars>>
    /\ UNCHANGED <<handler, offered, jobs, lock, next, failures, written, size, ghosts>>

-----------------------------------------------------------------------------
(* close_h5.                                                               *)

CloseFlush ==
    /\ handler = "joined" /\ lock = NoWorker /\ handler' = "flushed"
    /\ FlushBuffer
    /\ UNCHANGED <<offered, saveVars, written, size, ghosts>>

CloseFile ==
    /\ handler = "flushed" /\ handler' = "closed"
    /\ UNCHANGED <<offered, saveVars, fileVars, bufferVars, ghosts>>

-----------------------------------------------------------------------------
Save(w) ==
    \/ Take(w) \/ Limit(w)
    \/ ReadIndex(w) \/ CountIndex(w) \/ WriteRow(w) \/ CountRow(w) \/ Fail(w)
    \/ Allocate(w) \/ FailSample(w) \/ Buffer(w) \/ Flush(w)

Close == StopRecording \/ StopServer \/ Join \/ JoinTimeout \/ CloseFlush \/ CloseFile

Next == (\E i \in Items : Offer(i)) \/ (\E w \in Workers : Save(w)) \/ Close

Spec == Init /\ [][Next]_vars

-----------------------------------------------------------------------------
(* Properties.                                                             *)

\* record.py:213, "two threads could take the same index and silently overwrite
\* each other's frame": once stop_recording is through, and it did not give up
\* on the pool, every frame the limiter let pass and no error stopped is in a
\* row of its own, at most as many rows past the size as saves failed.
FramesKept ==
    Closed /\ ~timedOut =>
       /\ \A f \in offered \cap Frames :
             f \in kept.saved \cup kept.limited \/ failures > 0
       /\ \A f \in kept.saved \cap Frames : \E r \in 0..size + failures - 1 :
             written \cap ({r} \X Frames) = {<<r, f>>}

Stored(s) ==
    \E x \in root :
       /\ x[3] + 1 = x[2] + Boxes[s]
       /\ \A n \in x[2]..x[3] : boxRows \cap ({n} \X Samples) = {<<n, s>>}

\* record.py:748, without the flush at the end "the last partial buffer of
\* every recording was dropped on close", and record.py:705, "this run has to
\* be unbroken": every sample is found through the root dataset, in rows that
\* are all its own, if no thread overtook another and no sample's save raised
\* with its indices taken, which leaves a hole in the run it was to be part of.
SamplesKept ==
    Closed /\ ~timedOut /\ ~overtaken /\ broken = {} => \A s \in offered \cap Samples : Stored(s)

\* record.py:756, flush_integrations writes "whatever integrations are
\* buffered": the same whichever thread came first, if no sample's save raised.
BufferedSamplesKept ==
    Closed /\ ~timedOut /\ broken = {} => \A s \in offered \cap Samples : Stored(s)
=============================================================================
