--------------------------- MODULE SubstrateBook ----------------------------
(***************************************************************************)
(* Which positions of a substrate are spent: the manager's copies in       *)
(* memory (experiment/manager.py), the experiment and sample rows of the   *)
(* growth database (experiment/db.py), and the recipe that grows on one    *)
(* position after another (experiment/recipes.py, perform_pixel_deposition)*)
(* while operators correct the record and the node crashes.                *)
(*                                                                         *)
(* There is one substrate. A position is known by its index, counted from  *)
(* 0, in the list of places its geometry gives; rows store the index only, *)
(* and carry the place they were grown at here so that the two can be      *)
(* compared. Dry runs, projects and recordings are left out.               *)
(***************************************************************************)
EXTENDS Naturals, Sequences, FiniteSets, FiniteSetsExt

CONSTANTS
    Places,    \* places on a substrate
    Layouts,   \* the lists of places a geometry can give
    Longest,   \* bound: places in a list
    MaxRows,   \* bound: experiment rows
    MaxCopies  \* bound: copies the manager has loaded

\* _compute_positions gives the middle at least, and no place twice.
ASSUME LayoutAssumption ==
    /\ Longest \in Nat \ {0}
    /\ \A l \in Layouts : /\ l \in Seq(Places) /\ Len(l) \in 1..Longest
                          /\ \A i, j \in 1..Len(l) : l[i] = l[j] => i = j
ASSUME BoundAssumption == MaxRows \in Nat /\ MaxCopies \in Nat

VARIABLES
    plan,    \* substrate.positions in the database, <<>> before registration
    rows,    \* the experiment rows, in the order they were added
    sample,  \* the state of the sample row of each position
    root,    \* whether the substrate's own sample row exists
    stack,   \* manager.substrates: the loaded copies, the current one last
    recipe,  \* how far the recipe is and the pixel_index it read
    mask,    \* where the mask lets the plume through
    spoilt,  \* whether anything was grown on a place already grown on
    slips    \* what happened that the book does not survive

dbVars == <<plan, rows, sample, root>>
growVars == <<recipe, mask, spoilt>>
vars == <<dbVars, stack, growVars, slips>>

Indices == 0..Longest - 1
Cursors == 0..Longest + 1   \* bound: finishes past the last position

Row == [index : Indices, place : Places, active : BOOLEAN]
Copy == [positions : UNION {[1..n -> Places] : n \in 0..Longest},
         cur : Cursors, accessed : SUBSET Cursors]

\* What the book does not survive: a growth without its record or a record
\* without its finish; an operator's call during a recipe; a substrate loaded
\* twice; a position dropped; a growth reopened by force; a crash halfway
\* through creating the sample rows; a cursor below a finished position; a row
\* made active again whose sample was reopened meanwhile; a copy loaded as it was
\* before a correction.
Slips == {"unrecorded", "unfinished", "meddled", "copies", "dropped", "forced", "torn", "gap",
          "reinstated", "stale"}

\* Slips after which copy, recipe and rows may speak of different places, and
\* after which a growth's position may not be taken as finished.
Misplacing == {"meddled", "copies", "dropped", "stale"}
Mistaking == Misplacing \cup {"unfinished", "forced"}

\* None of these has happened yet.
Spared(some) == slips \cap some = {}

TypeOK ==
    /\ plan \in Layouts \cup {<<>>}
    /\ rows \in Seq(Row) /\ Len(rows) <= MaxRows
    /\ sample \in [Indices -> {"none", "planned", "grown"}]
    /\ root \in BOOLEAN
    /\ stack \in Seq(Copy) /\ Len(stack) <= MaxCopies
    /\ recipe \in [at : {"idle", "read", "placed", "deposited", "recorded"}, index : Indices]
    /\ mask \in Places
    /\ spoilt \in BOOLEAN
    /\ slips \subseteq Slips

NoRecipe == [at |-> "idle", index |-> 0]

Init ==
    /\ plan = <<>> /\ rows = <<>> /\ sample = [i \in Indices |-> "none"]
    /\ root = FALSE /\ stack = <<>>
    /\ recipe = NoRecipe /\ mask \in Places
    /\ spoilt = FALSE /\ slips = {}

-----------------------------------------------------------------------------
(* A copy's progress.                                                      *)

Loaded == stack # <<>>
Top == stack[Len(stack)]
SetTop(s) == [stack EXCEPT ![Len(stack)] = s]
Available(s) == s.cur < Len(s.positions)
Place(s, i) == s.positions[i + 1]

Fresh(positions) == [positions |-> positions, cur |-> 0, accessed |-> {}]

\* get_used_pixel_indices: a retired experiment does not count.
Used(rs) == {rs[n].index : n \in {k \in DOMAIN rs : rs[k].active}}

RestoredFresh(s, rs) == Fresh(s.positions)   \* mutant: the history is not read back

\* restore_progress: the cursor is put on the first index without a growth.
Restored(s, rs) ==
    LET all == 0..Len(s.positions) - 1
    IN  [s EXCEPT !.accessed = Used(rs) \cap all,
                  !.cur = Min((all \ Used(rs)) \cup {Len(s.positions)})]

\* finish_current_position counts on by one, whatever comes next.
Finished(s) == [s EXCEPT !.accessed = @ \cup {s.cur}, !.cur = @ + 1]

Reopened(s, i) == [s EXCEPT !.accessed = @ \ {i}, !.cur = IF i < @ THEN i ELSE @]

\* The cursor is below a position that is finished: counting on reaches it.
Gap(s) == \E i \in s.accessed : i > s.cur

\* An operator's call that leaves copy s on top.
SlipsBy(s) == (IF recipe.at # "idle" THEN {"meddled"} ELSE {})
              \cup (IF Gap(s) THEN {"gap"} ELSE {})

-----------------------------------------------------------------------------
(* The recipe. Each call is a request of its own; whatever else is served  *)
(* in between.                                                             *)

Read ==
    /\ recipe.at = "idle" /\ Loaded /\ Available(Top)
    /\ recipe' = [at |-> "read", index |-> Top.cur]
    /\ UNCHANGED <<dbVars, stack, mask, spoilt, slips>>

\* to_current_pixel looks at the cursor again; with nothing left it raises.
\* The recipe calls it before the anneal and again before the growth.
ToCurrentPixel ==
    /\ recipe.at \in {"read", "placed"} /\ Loaded /\ Available(Top)
    /\ mask' = Place(Top, Top.cur)
    /\ recipe' = [recipe EXCEPT !.at = "placed"]
    /\ UNCHANGED <<dbVars, stack, spoilt, slips>>

\* The plume is on: a node that dies from here on leaves a growth behind.
Deposit ==
    /\ recipe.at = "placed"
    /\ spoilt' = (spoilt \/ \E n \in DOMAIN rows : rows[n].active /\ rows[n].place = mask)
    /\ recipe' = [recipe EXCEPT !.at = "deposited"]
    /\ UNCHANGED <<dbVars, stack, mask, slips>>

\* finish_experiment_record stores the index read at the start.
Record ==
    /\ recipe.at = "deposited" /\ Len(rows) < MaxRows
    /\ rows' = Append(rows, [index |-> recipe.index, place |-> mask, active |-> TRUE])
    /\ recipe' = [recipe EXCEPT !.at = "recorded"]
    /\ UNCHANGED <<plan, sample, root, stack, mask, spoilt, slips>>

\* Writes the sample row of an index, if there is one.
Mark(i, state) == sample' = [sample EXCEPT ![i] = IF @ = "none" THEN @ ELSE state]

\* _finish_position. A crash between the copy and its sample row undoes the
\* first, so that the two are one step.
FinishTop ==
    /\ Top.cur < Longest + 1
    /\ stack' = SetTop(Finished(Top))
    /\ IF Top.cur \in Indices THEN Mark(Top.cur, "grown") ELSE UNCHANGED sample

\* finish_current_pixel; nothing is done with no substrate loaded.
FinishCurrentPixel ==
    /\ recipe.at = "recorded" /\ recipe' = NoRecipe
    /\ IF Loaded THEN FinishTop ELSE UNCHANGED <<stack, sample>>
    /\ UNCHANGED <<plan, rows, root, mask, spoilt, slips>>

\* The recipe's own process stops, a call of it raises, storage does not end,
\* or the caller wants another layer here: the rest is not done.
Stop ==
    /\ recipe.at # "idle" /\ recipe' = NoRecipe
    /\ slips' = slips \cup (IF recipe.at = "deposited" THEN {"unrecorded"} ELSE {})
                     \cup (IF recipe.at = "recorded" /\ Loaded THEN {"unfinished"} ELSE {})
    /\ UNCHANGED <<dbVars, stack, mask, spoilt>>

-----------------------------------------------------------------------------
(* The operators' calls.                                                   *)

\* The first k sample rows of a geometry, as _materialise_samples adds them.
Planned(positions, k) ==
    [i \in Indices |-> IF i < Len(positions) /\ i < k THEN "planned" ELSE "none"]

Register(positions) ==
    /\ plan = <<>> /\ Len(stack) < MaxCopies
    /\ plan' = positions /\ root' = TRUE /\ sample' = Planned(positions, Longest)
    /\ stack' = Append(stack, Fresh(positions))
    /\ UNCHANGED <<rows, growVars, slips>>

\* The node dies after some of the rows were added.
RegisterTorn(positions, k) ==
    /\ plan = <<>> /\ k < Len(positions)
    /\ plan' = positions /\ root' \in BOOLEAN
    /\ sample' = Planned(positions, IF root' THEN k ELSE 0)
    /\ stack' = <<>>
    /\ slips' = slips \cup (IF root' THEN {"torn"} ELSE {})
    /\ UNCHANGED <<rows, growVars>>

ResumeUnmarked ==   \* mutant: without _mark_grown_samples
    /\ plan # <<>> /\ Len(stack) < MaxCopies
    /\ stack' = Append(stack, Restored(Fresh(plan), rows))
    /\ root' = TRUE /\ sample' = IF root THEN sample ELSE Planned(plan, Longest)
    /\ slips' = slips \cup SlipsBy(Restored(Fresh(plan), rows))
                     \cup (IF Loaded THEN {"copies"} ELSE {})
    /\ UNCHANGED <<plan, rows, growVars>>

\* _mark_grown_samples. The sample rows are made before if there is none at
\* all, the substrate's own included.
MarkGrown(s) ==
    LET existing == IF root THEN sample ELSE Planned(plan, Longest)
    IN  sample' = [i \in Indices |-> IF i \in s.accessed /\ existing[i] # "none"
                                     THEN "grown" ELSE existing[i]]

\* resume_substrate.
Resume ==
    /\ plan # <<>> /\ Len(stack) < MaxCopies
    /\ LET s == Restored(Fresh(plan), rows)
       IN  /\ stack' = Append(stack, s)
           /\ root' = TRUE /\ MarkGrown(s)
           /\ slips' = slips \cup SlipsBy(s) \cup (IF Loaded THEN {"copies"} ELSE {})
    /\ UNCHANGED <<plan, rows, growVars>>

\* The copy is made of what was read first and loaded last: retire_experiment is
\* served while resume_substrate awaits the database, and corrects the copy that
\* was current before.
ResumeBehindRetire(n) ==
    /\ plan # <<>> /\ Len(stack) < MaxCopies
    /\ rows' = [rows EXCEPT ![n].active = ~@]
    /\ LET s == Restored(Fresh(plan), rows)
           corrected == Restored(Top, rows')
       IN  /\ stack' = Append(IF Loaded THEN SetTop(corrected) ELSE stack, s)
           /\ root' = TRUE /\ MarkGrown(s)
           /\ slips' = slips \cup {"stale"} \cup SlipsBy(s)
                            \cup (IF Loaded THEN SlipsBy(corrected) ELSE {})
    /\ UNCHANGED <<plan, growVars>>

\* The same with update_substrate: the copy has the old geometry.
ResumeBehindUpdate(positions) ==
    /\ plan # <<>> /\ rows = <<>> /\ Len(stack) < MaxCopies
    /\ plan' = positions /\ root' = TRUE /\ sample' = Planned(positions, Longest)
    /\ stack' = Append(IF Loaded THEN [stack EXCEPT ![1] = Fresh(positions)] ELSE stack,
                       Fresh(plan))
    /\ slips' = slips \cup {"stale"}
    /\ UNCHANGED <<rows, growVars>>

\* unload_substrate, and what is current afterwards.
Unload ==
    /\ Loaded
    /\ stack' = SubSeq(stack, 1, Len(stack) - 1)
    /\ slips' = slips \cup (IF recipe.at # "idle" THEN {"meddled"} ELSE {})
    /\ UNCHANGED <<dbVars, growVars>>

\* A finish op by hand: the position is given up, nothing was grown.
Skip ==
    /\ Loaded /\ FinishTop
    /\ slips' = slips \cup SlipsBy(Finished(Top))
    /\ UNCHANGED <<plan, rows, root, growVars>>

\* reopen_position refuses an index with a growth unless forced.
ReopenPosition(i, force) ==
    /\ Loaded /\ i < Len(Top.positions)
    /\ force \/ i \notin Used(rows)
    /\ stack' = SetTop(Reopened(Top, i)) /\ Mark(i, "planned")
    /\ slips' = slips \cup SlipsBy(Reopened(Top, i))
                     \cup (IF i \in Used(rows) THEN {"forced"} ELSE {})
    /\ UNCHANGED <<plan, rows, root, growVars>>

RetireUnseen(n) ==   \* mutant: the loaded copy keeps its progress
    /\ rows' = [rows EXCEPT ![n].active = ~@]
    /\ UNCHANGED <<plan, sample, root, stack, growVars, slips>>

\* retire_experiment, either way; the current copy's progress is read back,
\* the sample row is left as it is.
RetireExperiment(n) ==
    /\ rows' = [rows EXCEPT ![n].active = ~@]
    /\ stack' = IF Loaded THEN SetTop(Restored(Top, rows')) ELSE stack
    /\ slips' = slips \cup SlipsBy(IF Loaded THEN Restored(Top, rows') ELSE Fresh(<<>>))
                     \cup (IF ~rows[n].active /\ sample[rows[n].index] = "planned"
                           THEN {"reinstated"} ELSE {})
    /\ UNCHANGED <<plan, sample, root, growVars>>

UpdateUnchecked(positions) ==   \* mutant: whatever was grown
    /\ plan # <<>>
    /\ plan' = positions /\ root' = TRUE /\ sample' = Planned(positions, Longest)
    /\ stack' = IF Loaded THEN [stack EXCEPT ![1] = Fresh(positions)] ELSE stack
    /\ slips' = slips \cup (IF recipe.at # "idle" THEN {"meddled"} ELSE {})
    /\ UNCHANGED <<rows, growVars>>

\* update_substrate of the geometry: refused once there is any row, retired
\* or not. The copy it edits is the first one loaded.
UpdateGeometry(positions) ==
    /\ plan # <<>> /\ rows = <<>>
    /\ plan' = positions /\ root' = TRUE /\ sample' = Planned(positions, Longest)
    /\ stack' = IF Loaded THEN [stack EXCEPT ![1] = Fresh(positions)] ELSE stack
    /\ slips' = slips \cup (IF recipe.at # "idle" THEN {"meddled"} ELSE {})
    /\ UNCHANGED <<rows, growVars>>

\* The node dies between the old sample rows and the new geometry.
UpdateTorn(positions, k) ==
    /\ plan # <<>> /\ rows = <<>> /\ k <= Len(positions)
    /\ root' = TRUE /\ sample' = Planned(positions, k)
    /\ stack' = <<>> /\ slips' = slips \cup {"torn"}
    /\ UNCHANGED <<plan, rows, growVars>>

\* The last answer of resolve_pixel_check takes positions out of the loaded
\* copy, and of it only.
DropPositions(dropped) ==
    /\ Loaded
    /\ stack' = SetTop([Top EXCEPT !.positions = SelectSeq(@, LAMBDA p : p \notin dropped)])
    /\ slips' = slips \cup {"dropped"}
    /\ UNCHANGED <<dbVars, growVars>>

\* The experiment node dies; the recipe is another process and may go on.
Crash ==
    /\ Loaded /\ stack' = <<>>
    /\ UNCHANGED <<dbVars, growVars, slips>>

-----------------------------------------------------------------------------
Grow == Read \/ ToCurrentPixel \/ Deposit \/ Record \/ FinishCurrentPixel \/ Stop

Correct ==
    \/ Resume \/ Unload \/ Skip \/ Crash
    \/ \E i \in Indices, force \in BOOLEAN : ReopenPosition(i, force)
    \/ \E n \in DOMAIN rows : RetireExperiment(n) \/ ResumeBehindRetire(n)
    \/ \E positions \in Layouts : Register(positions) \/ UpdateGeometry(positions)
                                \/ ResumeBehindUpdate(positions)
    \/ \E positions \in Layouts, k \in Indices : RegisterTorn(positions, k) \/ UpdateTorn(positions, k)
    \/ \E dropped \in (SUBSET Places) \ {{}} : DropPositions(dropped)

Next == Grow \/ Correct

Spec == Init /\ [][Next]_vars

-----------------------------------------------------------------------------
(* Properties.                                                             *)

\* db.py:724, the history is read back so that resuming does not hand "back
\* a spent pixel and deposit on top of it": whatever crashes, is resumed,
\* corrected, given up and retired, growth goes on fresh places only.
NoSpentPixel == Spared(Mistaking \cup {"unrecorded", "gap"}) => ~spoilt

\* manager.py:225, the cursor and the accessible positions "agree with each
\* other and with the history": with each other in every copy, with the rows
\* but for the one whose position is about to be finished.
CursorAgrees ==
    Loaded =>
       /\ Spared({"dropped", "gap"}) => Top.accessed = 0..Top.cur - 1
       /\ Spared(Mistaking) =>
             Used(rows) \subseteq Top.accessed
                        \cup (IF recipe.at = "recorded" THEN {recipe.index} ELSE {})

\* db.py:658, an index that has a row "cannot be renumbered without lying
\* about where that growth happened".
RowsTellTruth ==
    Spared(Misplacing) =>
       \A n \in DOMAIN rows : /\ rows[n].index < Len(plan)
                              /\ plan[rows[n].index + 1] = rows[n].place

\* manager.py:403, _finish_position: the sample of a position that is taken
\* as finished is marked grown, on every path that leads there.
SamplesAgree ==
    Spared(Mistaking \cup {"torn", "reinstated"}) /\ Loaded =>
       \A i \in Top.accessed : i < Len(plan) => sample[i] = "grown"

\* manager.py:529, reopening refuses what "would hand back a spent pixel", and
\* retiring "is the one way to hand its position back" (db.py:737): a position
\* below one that is finished may be opened again.
NoSpentPixelReopened == Spared(Mistaking \cup {"unrecorded"}) => ~spoilt
=============================================================================
