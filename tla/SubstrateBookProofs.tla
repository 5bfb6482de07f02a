--------------------------- MODULE SubstrateBookProofs ---------------------------
(***************************************************************************)
(* Theorems about SubstrateBook, for any places, geometries and numbers of *)
(* rows, each under the slips its property names: types; the one copy, its *)
(* rows and the recipe speak of the same places; rows that are active are  *)
(* taken; growth goes on fresh places; the sample rows agree. The layers   *)
(* of the invariant follow that order, each with slips of its own.         *)
(***************************************************************************)
EXTENDS SubstrateBook, WellFoundedInduction, TLAPS

SampleStates == {"none", "planned", "grown"}
RecipeStates == [at : {"idle", "read", "placed", "deposited", "recorded"}, index : Indices]
Lists == UNION {[1..n -> Places] : n \in 0..Longest}

\* A copy takes exactly what is below its cursor.
Whole(s) == s.accessed = 0..s.cur - 1

\* Types hold as long as no position was dropped.
TypeInv == "dropped" \notin slips => TypeOK

\* Without a finished position above a cursor, every loaded copy is whole.
WholeInv == Spared({"dropped", "gap"}) => \A n \in 1..Len(stack) : Whole(stack[n])

\* The rows name places of the geometry they were grown at.
RowsHold ==
    /\ plan = <<>> => rows = <<>> /\ recipe.at = "idle"
    /\ \A n \in 1..Len(rows) : /\ rows[n].index < Len(plan)
                               /\ plan[rows[n].index + 1] = rows[n].place

\* One copy at most is loaded, of that geometry.
CopyHolds == Loaded => plan # <<>> /\ Len(stack) = 1 /\ Top.positions = plan

\* The recipe works at the cursor, and the mask is where it works.
RecipeHolds ==
    /\ recipe.at # "idle" => recipe.index < Len(plan) /\ (Loaded => Top.cur = recipe.index)
    /\ recipe.at \in {"placed", "deposited"} => mask = plan[recipe.index + 1]

PlacedInv == Spared(Misplacing) => RowsHold /\ CopyHolds /\ RecipeHolds

\* The row whose position is about to be finished.
Pending == IF recipe.at = "recorded" THEN {recipe.index} ELSE {}

\* What is active is taken.
TakenInv == Spared(Mistaking) /\ Loaded => Used(rows) \subseteq Top.accessed \cup Pending

\* What the recipe works on is free, and everything grown was.
FreshInv ==
    Spared(Mistaking \cup {"gap"}) =>
       /\ recipe.at \in {"read", "placed", "deposited"} => recipe.index \notin Used(rows)
       /\ ~spoilt

\* Every position has a sample row once there is any, and the row of one that is
\* taken says grown.
AllHaveRows == plan # <<>> /\ root => \A i \in Indices : i < Len(plan) => sample[i] # "none"
TakenAreGrown == Loaded => root /\ \A i \in Top.accessed : i < Len(plan) => sample[i] = "grown"

SampleInv == Spared(Mistaking \cup {"torn", "reinstated"}) => AllHaveRows /\ TakenAreGrown

-----------------------------------------------------------------------------
(* Facts about lists of places, rows and the first free position.          *)

\* Indices and cursors are naturals.
LEMMA Bounds ==
    /\ Longest \in Nat \ {0} /\ MaxRows \in Nat /\ MaxCopies \in Nat
    /\ Indices \subseteq Nat /\ Cursors \subseteq Nat /\ Indices \subseteq Cursors
    /\ 0 \in Indices
    /\ \A i \in Nat : i < Longest => i \in Indices
    /\ \A i \in Indices : i < Longest
    /\ \A c \in Nat : c <= Longest + 1 => c \in Cursors
    /\ \A c \in Cursors : c <= Longest + 1
BY LayoutAssumption, BoundAssumption DEF Indices, Cursors

\* A list of places has at most Longest.
LEMMA ListFacts ==
    ASSUME NEW p \in Lists
    PROVE  /\ p \in Seq(Places) /\ Len(p) \in Nat /\ Len(p) <= Longest
           /\ \A i \in Nat : i < Len(p) => i \in Indices /\ p[i + 1] \in Places
<1>1. PICK n \in 0..Longest : p \in [1..n -> Places]
  BY DEF Lists
<1>2. p \in Seq(Places) /\ Len(p) = n /\ n \in Nat /\ n <= Longest
  BY <1>1, Bounds
<1>3. \A i \in Nat : i < n => i + 1 \in 1..n /\ i < Longest
  BY <1>2, Bounds
<1> QED BY <1>1, <1>2, <1>3, Bounds

\* A geometry gives such a list, and no place twice.
LEMMA LayoutFacts ==
    ASSUME NEW l \in Layouts
    PROVE  /\ l \in Lists /\ l # <<>> /\ Len(l) \in Nat
           /\ \A i, j \in Nat : i < Len(l) /\ j < Len(l) /\ l[i + 1] = l[j + 1] => i = j
<1>1. /\ l \in Seq(Places) /\ Len(l) \in 1..Longest
      /\ \A i, j \in 1..Len(l) : l[i] = l[j] => i = j
  BY LayoutAssumption
<1>2. l \in [1..Len(l) -> Places] /\ Len(l) \in 0..Longest
  BY <1>1, Bounds
<1>3. l \in Lists
  BY <1>2 DEF Lists
<1>4. \A i \in Nat : i < Len(l) => i + 1 \in 1..Len(l)
  BY <1>1
<1>5. \A i, j \in Nat : i < Len(l) /\ j < Len(l) /\ l[i + 1] = l[j + 1] => i + 1 = j + 1
  BY <1>1, <1>4
<1> QED BY <1>1, <1>3, <1>5

\* What the rows say is used.
LEMMA UsedRows ==
    ASSUME NEW rs \in Seq(Row)
    PROVE  /\ Used(rs) \subseteq Indices /\ Used(rs) \subseteq Nat
           /\ \A i : i \in Used(rs) <=> \E n \in 1..Len(rs) : rs[n].active /\ rs[n].index = i
<1>1. DOMAIN rs = 1..Len(rs) /\ \A n \in 1..Len(rs) : rs[n] \in Row
  OBVIOUS
<1>2. \A i : i \in Used(rs) <=> \E n \in 1..Len(rs) : rs[n].active /\ rs[n].index = i
  BY <1>1 DEF Used
<1>3. Used(rs) \subseteq Indices /\ Indices \subseteq Nat
  BY <1>1, <1>2, LayoutAssumption DEF Row, Indices
<1> QED BY <1>2, <1>3

\* The least of some naturals.
LEMMA MinFacts ==
    ASSUME NEW S \in SUBSET Nat, S # {}
    PROVE  Min(S) \in S /\ \A y \in S : Min(S) <= y
<1>1. \E x \in S : \A y \in S : ~(<<y, x>> \in OpToRel(<, Nat))
  BY NatLessThanWellFounded, WFMin
<1>2. PICK x \in S : \A y \in S : ~(<<y, x>> \in OpToRel(<, Nat))
  BY <1>1
<1>3. ASSUME NEW y \in S PROVE x <= y
  <2>1. x \in Nat /\ y \in Nat
    OBVIOUS
  <2>2. ~(y < x)
    BY <1>2, <2>1, Zenon DEF OpToRel
  <2> QED BY ONLY <2>1, <2>2
<1> QED BY <1>3 DEF Min


\* What a row more says.
LEMMA RowMore ==
    ASSUME NEW rs \in Seq(Row), NEW row \in Row, row.active
    PROVE  /\ Append(rs, row) \in Seq(Row) /\ Len(Append(rs, row)) = Len(rs) + 1
           /\ \A n \in 1..Len(rs) : Append(rs, row)[n] = rs[n]
           /\ Append(rs, row)[Len(rs) + 1] = row
           /\ Used(Append(rs, row)) = Used(rs) \cup {row.index}
<1> DEFINE rt == Append(rs, row)
<1>1. /\ rt \in Seq(Row) /\ Len(rt) = Len(rs) + 1 /\ Len(rs) \in Nat
      /\ \A n \in 1..Len(rs) : rt[n] = rs[n]
      /\ rt[Len(rs) + 1] = row
  OBVIOUS
<1> HIDE DEF rt
<1>2. \A n : n \in 1..Len(rt) <=> n \in 1..Len(rs) \/ n = Len(rs) + 1
  BY <1>1
<1>3. \A i : i \in Used(rt) <=> i \in Used(rs) \/ i = row.index
  <2>1. \A i : i \in Used(rt) <=> \E n \in 1..Len(rt) : rt[n].active /\ rt[n].index = i
    BY <1>1, UsedRows
  <2>2. \A i : i \in Used(rs) <=> \E n \in 1..Len(rs) : rs[n].active /\ rs[n].index = i
    BY UsedRows
  <2>3. ASSUME NEW i, i \in Used(rt) PROVE i \in Used(rs) \/ i = row.index
    BY <1>1, <1>2, <2>1, <2>2, <2>3
  <2>4. ASSUME NEW i, i \in Used(rs) PROVE i \in Used(rt)
    BY <1>1, <1>2, <2>1, <2>2, <2>4
  <2>5. row.index \in Used(rt)
    BY <1>1, <1>2, <2>1
  <2> QED BY <2>3, <2>4, <2>5
<1> QED BY <1>1, <1>3 DEF rt


-----------------------------------------------------------------------------
(* Facts about copies.                                                     *)

\* What a copy is made of.
LEMMA CopyFacts ==
    ASSUME NEW s \in Copy
    PROVE  /\ s.positions \in Lists /\ s.cur \in Cursors /\ s.cur \in Nat
           /\ s.accessed \subseteq Cursors /\ s.accessed \subseteq Nat
           /\ s = [positions |-> s.positions, cur |-> s.cur, accessed |-> s.accessed]
BY Bounds DEF Copy, Lists

\* What makes a copy.
LEMMA CopyMade ==
    ASSUME NEW p \in Lists, NEW c \in Cursors, NEW A \in SUBSET Cursors
    PROVE  [positions |-> p, cur |-> c, accessed |-> A] \in Copy
BY DEF Copy, Lists

\* A copy of no progress.
LEMMA FreshCopy ==
    ASSUME NEW p \in Lists
    PROVE  /\ Fresh(p) \in Copy /\ Whole(Fresh(p))
           /\ Fresh(p).positions = p /\ Fresh(p).cur = 0 /\ Fresh(p).accessed = {}
<1>1. 0 \in Cursors
  BY Bounds
<1>2. Fresh(p) \in Copy
  BY <1>1, CopyMade DEF Fresh
<1>3. 0..0 - 1 = {}
  OBVIOUS
<1> QED BY <1>2, <1>3 DEF Fresh, Whole

\* A copy that is counted on.
LEMMA FinishedCopy ==
    ASSUME NEW s \in Copy, s.cur < Longest + 1
    PROVE  /\ Finished(s) \in Copy /\ (Whole(s) => Whole(Finished(s)))
           /\ Finished(s).positions = s.positions /\ Finished(s).cur = s.cur + 1
           /\ Finished(s).accessed = s.accessed \cup {s.cur}
<1> DEFINE r == [positions |-> s.positions, cur |-> s.cur + 1, accessed |-> s.accessed \cup {s.cur}]
<1>1. Finished(s) = r
  <2>1. s = [positions |-> s.positions, cur |-> s.cur, accessed |-> s.accessed]
    BY CopyFacts
  <2>2. Finished(s) = [s EXCEPT !.accessed = s.accessed \cup {s.cur}, !.cur = s.cur + 1]
    BY DEF Finished
  <2> DEFINE c == s.cur + 1
  <2>3. Finished(s) = [s EXCEPT !.accessed = s.accessed \cup {s.cur}, !.cur = c]
    BY <2>2
  <2> HIDE DEF c
  <2>4. Finished(s) = [positions |-> s.positions, cur |-> c, accessed |-> s.accessed \cup {s.cur}]
    BY <2>1, <2>3
  <2> QED BY <2>4 DEF c
<1>2. s.cur + 1 \in Cursors /\ s.accessed \cup {s.cur} \in SUBSET Cursors
  BY CopyFacts, Bounds
<1>3. r \in Copy
  BY <1>2, CopyFacts, CopyMade
<1>4. ASSUME Whole(s) PROVE Whole(r)
  <2>1. s.cur \in Nat
    BY CopyFacts
  <2>2. (0..s.cur - 1) \cup {s.cur} = 0..(s.cur + 1) - 1
    BY <2>1
  <2> QED BY <1>4, <2>2 DEF Whole
<1> QED BY <1>1, <1>3, <1>4

\* A copy of which a position is opened again is whole, unless that leaves a
\* finished position above the cursor.
LEMMA ReopenedCopy ==
    ASSUME NEW s \in Copy, NEW i \in Indices
    PROVE  /\ Reopened(s, i) \in Copy
           /\ Whole(s) /\ ~Gap(Reopened(s, i)) => Whole(Reopened(s, i))
           /\ Reopened(s, i).positions = s.positions
           /\ Reopened(s, i).accessed = s.accessed \ {i}
<1> DEFINE d == IF i < s.cur THEN i ELSE s.cur
<1> DEFINE r == [positions |-> s.positions, cur |-> d, accessed |-> s.accessed \ {i}]
<1>1. Reopened(s, i) = r
  <2>1. s = [positions |-> s.positions, cur |-> s.cur, accessed |-> s.accessed]
    BY CopyFacts
  <2>2. Reopened(s, i) = [s EXCEPT !.accessed = s.accessed \ {i}, !.cur = d]
    BY DEF Reopened
  <2> HIDE DEF d
  <2> QED BY <2>1, <2>2
<1>2. /\ d \in Cursors /\ d \in Nat /\ d <= i /\ d <= s.cur /\ (d = i \/ d = s.cur)
      /\ i \in Nat /\ s.cur \in Nat
  BY CopyFacts, Bounds
<1> HIDE DEF d
<1>3. r \in Copy
  BY <1>2, CopyFacts, CopyMade
<1>4. ASSUME Whole(s), ~Gap(r) PROVE Whole(r)
  <2>1. s.accessed = 0..s.cur - 1
    BY <1>4 DEF Whole
  <2>2. \A j \in (0..s.cur - 1) \ {i} : ~(j > d)
    BY <1>4, <2>1 DEF Gap
  <2>3. ASSUME NEW j \in Nat, j < d PROVE j \in (0..s.cur - 1) \ {i}
    BY <1>2, <2>3
  <2>4. ASSUME NEW j \in (0..s.cur - 1) \ {i} PROVE j \in 0..d - 1
    <3>1. ~(j > d) /\ j \in Nat /\ j # i /\ j < s.cur
      BY <1>2, <2>2, <2>4
    <3> QED BY <1>2, <3>1
  <2>5. (0..s.cur - 1) \ {i} = 0..d - 1
    <3>1. \A j \in 0..d - 1 : j \in Nat /\ j < d
      BY <1>2
    <3> QED BY <2>3, <2>4, <3>1
  <2> QED BY <2>1, <2>5 DEF Whole
<1> QED BY <1>1, <1>3, <1>4

\* A copy whose history was read back takes what is active among its positions,
\* and is whole unless that leaves a finished position above the cursor.
LEMMA RestoredCopy ==
    ASSUME NEW s \in Copy, NEW rs \in Seq(Row)
    PROVE  /\ Restored(s, rs) \in Copy
           /\ ~Gap(Restored(s, rs)) => Whole(Restored(s, rs))
           /\ Restored(s, rs).positions = s.positions
           /\ Restored(s, rs).accessed = Used(rs) \cap (0..Len(s.positions) - 1)
<1> DEFINE n == Len(s.positions)
<1> DEFINE free == ((0..n - 1) \ Used(rs)) \cup {n}
<1> DEFINE m == Min(free)
<1> DEFINE r == [positions |-> s.positions, cur |-> m, accessed |-> Used(rs) \cap (0..n - 1)]
<1>1. Restored(s, rs) = r
  <2>1. Restored(s, rs) = [s EXCEPT !.accessed = Used(rs) \cap (0..n - 1), !.cur = m]
    BY DEF Restored
  <2>2. s = [positions |-> s.positions, cur |-> s.cur, accessed |-> s.accessed]
    BY CopyFacts
  <2> HIDE DEF m, n
  <2> QED BY <2>1, <2>2
<1>2. n \in Nat /\ n <= Longest /\ Longest \in Nat
  BY CopyFacts, ListFacts, Bounds
<1>3. m \in free /\ \A y \in free : m <= y
  <2>1. free \in SUBSET Nat /\ free # {}
    BY <1>2
  <2> HIDE DEF free
  <2> QED BY ONLY <2>1, MinFacts
<1>4. m \in Nat /\ m <= n /\ m \notin Used(rs) \cap (0..n - 1)
  BY <1>2, <1>3
<1>5. \A i \in 0..n - 1 : i < m => i \in Used(rs)
  <2>1. ASSUME NEW i \in 0..n - 1, i < m PROVE i \in Used(rs)
    <3>1. ~(m <= i)
      BY <1>2, <1>4, <2>1
    <3> QED BY <1>3, <3>1
  <2> QED BY <2>1
<1> HIDE DEF m
<1>6. r \in Copy
  <2>1. m \in Cursors
    BY <1>2, <1>4, Bounds
  <2>2. Used(rs) \cap (0..n - 1) \in SUBSET Cursors
    BY UsedRows, Bounds
  <2> HIDE DEF n
  <2> QED BY <2>1, <2>2, CopyFacts, CopyMade
<1>7. ASSUME ~Gap(r) PROVE Whole(r)
  <2>1. \A i \in Used(rs) \cap (0..n - 1) : ~(i > m)
    BY <1>7 DEF Gap
  <2>2. \A i \in Used(rs) \cap (0..n - 1) : i \in 0..m - 1
    <3>1. \A i \in Used(rs) \cap (0..n - 1) : i \in Nat /\ i # m /\ ~(i > m)
      BY <1>4, <2>1
    <3> QED BY ONLY <1>4, <3>1
  <2>3. \A i \in 0..m - 1 : i \in 0..n - 1 /\ i < m
    BY ONLY <1>2, <1>4
  <2>4. Used(rs) \cap (0..n - 1) = 0..m - 1
    BY <1>5, <2>2, <2>3
  <2> HIDE DEF n
  <2> QED BY <2>4 DEF Whole
<1> HIDE DEF r
<1> QED BY <1>1, <1>6, <1>7 DEF r

\* The copy on top, and the stack with another in its place.
LEMMA TopCopy ==
    ASSUME stack \in Seq(Copy), Loaded
    PROVE  /\ Len(stack) \in Nat \ {0} /\ Top \in Copy
           /\ \A s \in Copy : /\ SetTop(s) \in Seq(Copy) /\ Len(SetTop(s)) = Len(stack)
                              /\ SetTop(s)[Len(stack)] = s /\ SetTop(s) # <<>>
                              /\ \A n \in 1..Len(stack) : n # Len(stack) => SetTop(s)[n] = stack[n]
BY DEF Loaded, Top, SetTop

-----------------------------------------------------------------------------
(* Types.                                                                  *)

\* No step takes a slip back.
LEMMA SlipsStay ==
    ASSUME [Next]_vars
    PROVE  slips \subseteq slips'
BY DEF Next, Grow, Correct, Read, ToCurrentPixel, Deposit, Record, FinishCurrentPixel, Stop, Register,
       RegisterTorn, Resume, ResumeBehindRetire, ResumeBehindUpdate, Unload, Skip, ReopenPosition,
       RetireExperiment, UpdateGeometry, UpdateTorn, DropPositions, Crash, vars

\* What is written to one sample row.
LEMMA MarkedRow ==
    ASSUME sample \in [Indices -> SampleStates], NEW i \in Indices, NEW state \in SampleStates,
           Mark(i, state)
    PROVE  /\ sample' \in [Indices -> SampleStates]
           /\ sample'[i] = IF sample[i] = "none" THEN "none" ELSE state
           /\ \A j \in Indices : j # i => sample'[j] = sample[j]
BY DEF Mark, SampleStates

\* The rows of a new geometry.
LEMMA PlannedRows ==
    ASSUME NEW p \in Layouts
    PROVE  /\ \A k : Planned(p, k) \in [Indices -> SampleStates]
           /\ \A i \in Indices : i < Len(p) => Planned(p, Longest)[i] = "planned"
<1>1. \A i \in Indices : i < Longest
  BY LayoutAssumption DEF Indices
<1> QED BY <1>1 DEF Planned, SampleStates

\* Retiring changes neither what a row is of nor how many there are.
LEMMA RetiredRows ==
    ASSUME rows \in Seq(Row), NEW n \in DOMAIN rows
    PROVE  LET rs == [rows EXCEPT ![n].active = ~@]
           IN  /\ rs \in Seq(Row) /\ Len(rs) = Len(rows)
               /\ \A k \in 1..Len(rows) : rs[k].index = rows[k].index /\ rs[k].place = rows[k].place
               /\ \A k \in 1..Len(rows) : k # n => rs[k] = rows[k]
               /\ rs[n].active = ~rows[n].active
<1> DEFINE row == [rows[n] EXCEPT !.active = ~@]
<1>1. rows \in Seq(Row) /\ n \in 1..Len(rows) /\ rows[n] \in Row
  OBVIOUS
<1>2. /\ row \in Row /\ row.index = rows[n].index /\ row.place = rows[n].place
      /\ row.active = ~rows[n].active
  BY <1>1 DEF Row
<1>3. [rows EXCEPT ![n].active = ~@] = [rows EXCEPT ![n] = row]
  BY Zenon
<1> HIDE DEF row
<1>4. /\ [rows EXCEPT ![n] = row] \in Seq(Row) /\ Len([rows EXCEPT ![n] = row]) = Len(rows)
      /\ [rows EXCEPT ![n] = row][n] = row
      /\ \A k \in 1..Len(rows) : k # n => [rows EXCEPT ![n] = row][k] = rows[k]
  BY <1>1, <1>2
<1> QED BY <1>2, <1>3, <1>4


\* What a typed state has, in the words of the lemmas above.
LEMMA Parts ==
    TypeOK <=> /\ plan \in Layouts \cup {<<>>}
               /\ rows \in Seq(Row) /\ Len(rows) <= MaxRows
               /\ sample \in [Indices -> SampleStates]
               /\ root \in BOOLEAN
               /\ stack \in Seq(Copy) /\ Len(stack) <= MaxCopies
               /\ recipe \in RecipeStates /\ mask \in Places
               /\ spoilt \in BOOLEAN /\ slips \subseteq Slips
BY DEF TypeOK, SampleStates, RecipeStates

\* The plan of a typed state.
LEMMA PlanFacts ==
    ASSUME TypeOK
    PROVE  /\ plan \in Lists /\ Len(plan) \in Nat
           /\ plan # <<>> => plan \in Layouts
           /\ \A i, j \in Nat : i < Len(plan) /\ j < Len(plan) /\ plan[i + 1] = plan[j + 1] => i = j
<1>1. <<>> \in Lists /\ Len(<<>>) = 0
  <2>1. <<>> \in [1..0 -> Places] /\ 0 \in 0..Longest
    BY Bounds
  <2> QED BY <2>1 DEF Lists
<1>2. CASE plan = <<>>
  BY <1>1, <1>2
<1>3. CASE plan \in Layouts
  BY <1>3, LayoutFacts
<1> QED BY <1>2, <1>3 DEF TypeOK

\* The rows of a typed state.
LEMMA RowFacts ==
    ASSUME TypeOK
    PROVE  /\ DOMAIN rows = 1..Len(rows) /\ Len(rows) \in Nat
           /\ \A n \in 1..Len(rows) : rows[n].index \in Indices /\ rows[n].index \in Nat
<1>1. rows \in Seq(Row) /\ Indices \subseteq Nat
  BY Bounds DEF TypeOK
<1>2. \A r \in Row : r.index \in Indices
  BY DEF Row
<1> HIDE DEF Row
<1>3. DOMAIN rows = 1..Len(rows) /\ Len(rows) \in Nat /\ \A n \in 1..Len(rows) : rows[n] \in Row
  BY <1>1
<1> QED BY <1>1, <1>2, <1>3

\* The copy on top is counted on, and its sample row written.
LEMMA FinishTopTyped ==
    ASSUME TypeOK, Loaded, FinishTop
    PROVE  /\ Top \in Copy /\ Top.cur < Longest + 1 /\ Finished(Top) \in Copy
           /\ stack' = SetTop(Finished(Top)) /\ stack' \in Seq(Copy) /\ Len(stack') = Len(stack)
           /\ sample' \in [Indices -> SampleStates]
           /\ \A i \in Indices : i # Top.cur => sample'[i] = sample[i]
           /\ \A i \in Indices :
                 i = Top.cur => sample'[i] = IF sample[i] = "none" THEN "none" ELSE "grown"
<1>1. Top \in Copy /\ Top.cur < Longest + 1 /\ stack' = SetTop(Finished(Top))
  BY TopCopy, Parts DEF FinishTop
<1>2. Finished(Top) \in Copy
  BY <1>1, FinishedCopy
<1>3. stack' \in Seq(Copy) /\ Len(stack') = Len(stack)
  BY <1>1, <1>2, TopCopy, Parts
<1>4. CASE Top.cur \in Indices
  <2>1. /\ sample' \in [Indices -> SampleStates]
        /\ sample'[Top.cur] = IF sample[Top.cur] = "none" THEN "none" ELSE "grown"
        /\ \A j \in Indices : j # Top.cur => sample'[j] = sample[j]
    BY <1>4, Parts, MarkedRow DEF FinishTop, SampleStates
  <2> QED BY <1>1, <1>2, <1>3, <2>1
<1>5. CASE Top.cur \notin Indices
  <2>1. sample' = sample
    BY <1>5 DEF FinishTop
  <2> QED BY <1>1, <1>2, <1>3, <1>5, <2>1, Parts
<1> QED BY <1>4, <1>5

\* What is left when the copy on top is unloaded.
LEMMA Unloaded ==
    ASSUME stack \in Seq(Copy), Loaded
    PROVE  LET rest == SubSeq(stack, 1, Len(stack) - 1)
           IN  /\ rest \in Seq(Copy) /\ Len(rest) = Len(stack) - 1
               /\ \A n \in 1..Len(rest) : n \in 1..Len(stack) /\ rest[n] = stack[n]
<1> DEFINE m == Len(stack) - 1
<1>1. Len(stack) \in Nat /\ m \in Nat /\ m <= Len(stack)
  BY DEF Loaded
<1>2. \A n \in 1..m : n \in 1..Len(stack) /\ stack[n] \in Copy
  BY <1>1
<1>3. SubSeq(stack, 1, m) = [n \in 1..m |-> stack[n]]
  <2> HIDE DEF m
  <2> QED BY <1>1
<1> HIDE DEF m
<1>4. /\ SubSeq(stack, 1, m) \in Seq(Copy) /\ Len(SubSeq(stack, 1, m)) = m
      /\ \A n \in 1..m : SubSeq(stack, 1, m)[n] = stack[n]
  BY <1>1, <1>2, <1>3
<1> QED BY <1>2, <1>4 DEF m

\* The growth steps.
LEMMA GrowTyped ==
    ASSUME TypeOK, slips' \subseteq Slips, Grow
    PROVE  TypeOK'
<1> USE DEF dbVars
<1>1. CASE Read
  <2>1. Top \in Copy /\ Top.cur < Len(Top.positions) /\ recipe' = [at |-> "read", index |-> Top.cur]
    BY <1>1, TopCopy DEF Read, Available, TypeOK
  <2>2. Top.cur \in Indices
    BY <2>1, CopyFacts, ListFacts
  <2>3. recipe' \in RecipeStates
    BY <2>1, <2>2 DEF RecipeStates
  <2> QED BY <1>1, <2>3, Parts DEF Read, TypeOK, SampleStates, RecipeStates
<1>2. CASE ToCurrentPixel
  <2>1. Top \in Copy /\ Top.cur < Len(Top.positions)
    BY <1>2, TopCopy DEF ToCurrentPixel, Available, TypeOK
  <2>2. Place(Top, Top.cur) \in Places
    BY <2>1, CopyFacts, ListFacts DEF Place
  <2>3. recipe' \in RecipeStates
    BY <1>2, Parts DEF ToCurrentPixel, RecipeStates
  <2> QED BY <1>2, <2>2, <2>3, Parts DEF ToCurrentPixel, TypeOK, SampleStates, RecipeStates
<1>3. CASE Deposit
  <2>1. recipe' \in RecipeStates
    BY <1>3, Parts DEF Deposit, RecipeStates
  <2>2. spoilt' \in BOOLEAN
    BY <1>3, Parts, Zenon DEF Deposit
  <2> QED BY <1>3, <2>1, <2>2, Parts DEF Deposit, TypeOK, SampleStates, RecipeStates
<1>4. CASE Record
  <2> DEFINE row == [index |-> recipe.index, place |-> mask, active |-> TRUE]
  <2>1. recipe' \in RecipeStates
    BY <1>4, Parts DEF Record, RecipeStates
  <2>2. row \in Row /\ row.active
    BY Parts DEF Row, RecipeStates
  <2>3. Append(rows, row) \in Seq(Row) /\ Len(Append(rows, row)) = Len(rows) + 1
    <3> HIDE DEF row
    <3> QED BY <2>2, Parts, RowMore
  <2>4. rows' \in Seq(Row) /\ Len(rows') <= MaxRows
    BY <1>4, <2>3, RowFacts, Bounds DEF Record
  <2> QED BY <1>4, <2>1, <2>4, Parts DEF Record, TypeOK, SampleStates, RecipeStates
<1>5. CASE FinishCurrentPixel
  <2>1. recipe' \in RecipeStates
    BY <1>5, Bounds DEF FinishCurrentPixel, NoRecipe, RecipeStates
  <2>2. Loaded => stack' \in Seq(Copy) /\ Len(stack') = Len(stack) /\ sample' \in [Indices -> SampleStates]
    BY <1>5, FinishTopTyped, Parts DEF FinishCurrentPixel
  <2> QED BY <1>5, <2>1, <2>2, Parts DEF FinishCurrentPixel, TypeOK, SampleStates, RecipeStates
<1>6. CASE Stop
  <2>1. recipe' \in RecipeStates
    BY <1>6, Bounds DEF Stop, NoRecipe, RecipeStates
  <2> QED BY <1>6, <2>1, Parts DEF Stop, TypeOK, SampleStates, RecipeStates
<1> QED BY <1>1, <1>2, <1>3, <1>4, <1>5, <1>6 DEF Grow

\* The sample rows after marking.
LEMMA GrownMarked ==
    ASSUME sample \in [Indices -> SampleStates], NEW s, MarkGrown(s)
    PROVE  sample' \in [Indices -> SampleStates]
<1> DEFINE existing == IF root THEN sample ELSE Planned(plan, Longest)
<1>1. existing \in [Indices -> SampleStates]
  BY DEF Planned, SampleStates
<1>2. sample' = [i \in Indices |-> IF i \in s.accessed /\ existing[i] # "none"
                                  THEN "grown" ELSE existing[i]]
  BY DEF MarkGrown
<1> HIDE DEF existing
<1> QED BY <1>1, <1>2 DEF SampleStates

\* The operators' calls.
LEMMA CorrectTyped ==
    ASSUME TypeOK, slips' \subseteq Slips, "dropped" \notin slips', Correct
    PROVE  TypeOK'
<1> USE DEF dbVars, growVars
<1>1. CASE Resume
  <2> DEFINE s == Restored(Fresh(plan), rows)
  <2>1. s \in Copy
    BY PlanFacts, FreshCopy, RestoredCopy, Parts
  <2>3. /\ stack' = Append(stack, s) /\ Len(stack) < MaxCopies /\ root' = TRUE /\ MarkGrown(s)
        /\ plan' = plan /\ rows' = rows /\ recipe' = recipe /\ mask' = mask /\ spoilt' = spoilt
    BY <1>1 DEF Resume
  <2> HIDE DEF s
  <2>4. sample' \in [Indices -> SampleStates]
    BY <2>3, Parts, GrownMarked
  <2>5. stack' \in Seq(Copy) /\ Len(stack') <= MaxCopies
    BY <2>1, <2>3, Parts, Bounds
  <2> QED BY <2>3, <2>4, <2>5, Parts DEF TypeOK, SampleStates, RecipeStates
<1>2. CASE Unload
  <2>1. stack' \in Seq(Copy) /\ Len(stack') <= MaxCopies
    BY <1>2, Unloaded, Parts, Bounds DEF Unload
  <2> QED BY <1>2, <2>1, Parts DEF Unload, TypeOK, SampleStates, RecipeStates
<1>3. CASE Skip
  <2>1. stack' \in Seq(Copy) /\ Len(stack') = Len(stack) /\ sample' \in [Indices -> SampleStates]
    BY <1>3, FinishTopTyped, Parts DEF Skip
  <2> QED BY <1>3, <2>1, Parts DEF Skip, TypeOK, SampleStates, RecipeStates
<1>4. CASE Crash
  <2>1. stack' \in Seq(Copy) /\ Len(stack') <= MaxCopies
    BY <1>4, Bounds DEF Crash
  <2> QED BY <1>4, <2>1, Parts DEF Crash, TypeOK, SampleStates, RecipeStates
<1>5. ASSUME NEW i \in Indices, NEW force \in BOOLEAN, ReopenPosition(i, force)
      PROVE  TypeOK'
  <2>1. sample' \in [Indices -> SampleStates]
    BY <1>5, Parts, MarkedRow DEF ReopenPosition, SampleStates
  <2>2. Top \in Copy /\ Reopened(Top, i) \in Copy /\ stack' = SetTop(Reopened(Top, i))
    BY <1>5, TopCopy, ReopenedCopy, Parts DEF ReopenPosition
  <2>3. stack' \in Seq(Copy) /\ Len(stack') = Len(stack)
    BY <1>5, <2>2, TopCopy, Parts DEF ReopenPosition
  <2> QED BY <1>5, <2>1, <2>3, Parts DEF ReopenPosition, TypeOK, SampleStates, RecipeStates
<1>6. ASSUME NEW n \in DOMAIN rows, RetireExperiment(n)
      PROVE  TypeOK'
  <2>1. rows' \in Seq(Row) /\ Len(rows') = Len(rows)
    BY <1>6, RetiredRows, Parts DEF RetireExperiment
  <2>2. stack' \in Seq(Copy) /\ Len(stack') = Len(stack)
    <3>1. CASE Loaded
      <4>1. Top \in Copy /\ Restored(Top, rows') \in Copy /\ stack' = SetTop(Restored(Top, rows'))
        BY <1>6, <2>1, <3>1, TopCopy, RestoredCopy, Parts DEF RetireExperiment
      <4> QED BY <3>1, <4>1, TopCopy, Parts
    <3>2. CASE ~Loaded
      BY <1>6, <3>2, Parts DEF RetireExperiment
    <3> QED BY <3>1, <3>2
  <2> QED BY <1>6, <2>1, <2>2, Parts DEF RetireExperiment, TypeOK, SampleStates, RecipeStates
<1>7. ASSUME NEW p \in Layouts, Register(p)
      PROVE  TypeOK'
  <2>1. Fresh(p) \in Copy
    BY LayoutFacts, FreshCopy
  <2>2. stack' \in Seq(Copy) /\ Len(stack') <= MaxCopies
    BY <1>7, <2>1, Parts, Bounds DEF Register
  <2>3. sample' \in [Indices -> SampleStates]
    BY <1>7, PlannedRows DEF Register
  <2> QED BY <1>7, <2>2, <2>3, Parts DEF Register, TypeOK, SampleStates, RecipeStates
<1>8. ASSUME NEW p \in Layouts, UpdateGeometry(p)
      PROVE  TypeOK'
  <2>1. Fresh(p) \in Copy
    BY LayoutFacts, FreshCopy
  <2>2. stack' \in Seq(Copy) /\ Len(stack') = Len(stack)
    <3>1. stack' = IF Loaded THEN [stack EXCEPT ![1] = Fresh(p)] ELSE stack
      BY <1>8 DEF UpdateGeometry
    <3> QED BY <2>1, <3>1, Parts DEF Loaded
  <2>3. sample' \in [Indices -> SampleStates]
    BY <1>8, PlannedRows DEF UpdateGeometry
  <2> QED BY <1>8, <2>2, <2>3, Parts DEF UpdateGeometry, TypeOK, SampleStates, RecipeStates
<1>9. ASSUME NEW p \in Layouts, NEW k \in Indices, RegisterTorn(p, k)
      PROVE  TypeOK'
  <2>1. sample' \in [Indices -> SampleStates]
    BY <1>9, PlannedRows DEF RegisterTorn
  <2>2. stack' \in Seq(Copy) /\ Len(stack') <= MaxCopies
    BY <1>9, Bounds DEF RegisterTorn
  <2> QED BY <1>9, <2>1, <2>2, Parts DEF RegisterTorn, TypeOK, SampleStates, RecipeStates
<1>10. ASSUME NEW p \in Layouts, NEW k \in Indices, UpdateTorn(p, k)
       PROVE  TypeOK'
  <2>1. sample' \in [Indices -> SampleStates]
    BY <1>10, PlannedRows DEF UpdateTorn
  <2>2. stack' \in Seq(Copy) /\ Len(stack') <= MaxCopies
    BY <1>10, Bounds DEF UpdateTorn
  <2> QED BY <1>10, <2>1, <2>2, Parts DEF UpdateTorn, TypeOK, SampleStates, RecipeStates
<1>11. ASSUME NEW dropped \in (SUBSET Places) \ {{}}, DropPositions(dropped)
       PROVE  FALSE
  BY <1>11 DEF DropPositions
<1>12. ASSUME NEW n \in DOMAIN rows, ResumeBehindRetire(n)
       PROVE  TypeOK'
  <2> DEFINE s == Restored(Fresh(plan), rows)
  <2> DEFINE kept == IF Loaded THEN SetTop(Restored(Top, rows')) ELSE stack
  <2>1. rows' \in Seq(Row) /\ Len(rows') = Len(rows)
    BY <1>12, RetiredRows, Parts DEF ResumeBehindRetire
  <2>2. kept \in Seq(Copy) /\ Len(kept) = Len(stack)
    <3>1. CASE Loaded
      <4>1. Top \in Copy /\ Restored(Top, rows') \in Copy
        BY <2>1, <3>1, TopCopy, RestoredCopy, Parts
      <4> QED BY <3>1, <4>1, TopCopy, Parts
    <3> QED BY <3>1, Parts
  <2>3. s \in Copy
    BY PlanFacts, FreshCopy, RestoredCopy, Parts
  <2>4. /\ stack' = Append(kept, s) /\ Len(stack) < MaxCopies /\ root' = TRUE /\ MarkGrown(s)
        /\ plan' = plan /\ recipe' = recipe /\ mask' = mask /\ spoilt' = spoilt
    BY <1>12 DEF ResumeBehindRetire
  <2> HIDE DEF s, kept
  <2>5. sample' \in [Indices -> SampleStates]
    BY <2>4, Parts, GrownMarked
  <2>6. stack' \in Seq(Copy) /\ Len(stack') <= MaxCopies
    BY <2>2, <2>3, <2>4, Parts, Bounds
  <2> QED BY <2>1, <2>4, <2>5, <2>6, Parts DEF TypeOK, SampleStates, RecipeStates
<1>13. ASSUME NEW p \in Layouts, ResumeBehindUpdate(p)
       PROVE  TypeOK'
  <2> DEFINE kept == IF Loaded THEN [stack EXCEPT ![1] = Fresh(p)] ELSE stack
  <2>1. Fresh(p) \in Copy /\ Fresh(plan) \in Copy
    BY LayoutFacts, FreshCopy, PlanFacts
  <2>2. kept \in Seq(Copy) /\ Len(kept) = Len(stack)
    BY <2>1, Parts DEF Loaded
  <2>3. stack' = Append(kept, Fresh(plan)) /\ Len(stack) < MaxCopies
    BY <1>13 DEF ResumeBehindUpdate
  <2> HIDE DEF kept
  <2>4. stack' \in Seq(Copy) /\ Len(stack') <= MaxCopies
    BY <2>1, <2>2, <2>3, Parts, Bounds
  <2>5. sample' \in [Indices -> SampleStates]
    BY <1>13, PlannedRows DEF ResumeBehindUpdate
  <2> QED BY <1>13, <2>4, <2>5, Parts DEF ResumeBehindUpdate, TypeOK, SampleStates, RecipeStates
<1> QED BY <1>1, <1>2, <1>3, <1>4, <1>5, <1>6, <1>7, <1>8, <1>9, <1>10, <1>11, <1>12, <1>13 DEF Correct

\* Types, until a position is dropped.
LEMMA TypeStep ==
    ASSUME TypeInv, [Next]_vars
    PROVE  TypeInv'
<1> SUFFICES ASSUME "dropped" \notin slips'
             PROVE  TypeOK'
  BY DEF TypeInv
<1>1. TypeOK
  BY SlipsStay DEF TypeInv
<1>2. slips' \subseteq Slips
  <2>1. slips \subseteq Slips
    BY <1>1 DEF TypeOK
  <2>2. \A s : SlipsBy(s) \subseteq Slips
    BY DEF SlipsBy, Slips
  <2> HIDE DEF SlipsBy
  <2>3. CASE Grow
    BY <2>1, <2>3 DEF Grow, Read, ToCurrentPixel, Deposit, Record, FinishCurrentPixel, Stop, Slips
  <2>4. CASE Correct
    BY <2>1, <2>2, <2>4 DEF Correct, Resume, ResumeBehindRetire, ResumeBehindUpdate, Unload, Skip,
       Crash, ReopenPosition, RetireExperiment,
       Register, UpdateGeometry, RegisterTorn, UpdateTorn, DropPositions, Slips
  <2>5. CASE UNCHANGED vars
    BY <2>1, <2>5 DEF vars
  <2> QED BY <2>3, <2>4, <2>5 DEF Next
<1>3. CASE Grow
  BY <1>1, <1>2, <1>3, GrowTyped
<1>4. CASE Correct
  BY <1>1, <1>2, <1>4, CorrectTyped
<1>5. CASE UNCHANGED vars
  BY <1>1, <1>5 DEF TypeOK, vars, dbVars, growVars
<1> QED BY <1>3, <1>4, <1>5 DEF Next

-----------------------------------------------------------------------------
(* What an operator's call that is no slip leaves.                         *)

\* What has been spared so far was spared before.
LEMMA SparedBefore ==
    ASSUME slips \subseteq slips', NEW some, NEW fewer, fewer \subseteq some, Spared(some)'
    PROVE  Spared(fewer) /\ Spared(fewer)'
BY DEF Spared

\* A call that comes during the recipe is a slip, and so is one that leaves a
\* finished position above the cursor.
LEMMA NotMeddled ==
    ASSUME NEW some, Spared(some)', NEW s, slips \cup SlipsBy(s) \subseteq slips'
    PROVE  /\ "meddled" \in some => recipe.at = "idle"
           /\ "gap" \in some => ~Gap(s)
BY DEF Spared, SlipsBy

\* Another copy on top.
LEMMA SetTopFacts ==
    ASSUME TypeOK, Loaded, NEW s \in Copy, stack' = SetTop(s)
    PROVE  /\ Loaded' /\ Top' = s /\ Len(stack') = Len(stack)
           /\ \A n \in 1..Len(stack') : n \in 1..Len(stack) /\ (stack'[n] = s \/ stack'[n] = stack[n])
<1>1. stack \in Seq(Copy)
  BY Parts
<1>2. /\ Len(stack) \in Nat \ {0} /\ Len(SetTop(s)) = Len(stack)
      /\ SetTop(s)[Len(stack)] = s /\ SetTop(s) # <<>>
      /\ \A n \in 1..Len(stack) : n # Len(stack) => SetTop(s)[n] = stack[n]
  BY <1>1, TopCopy
<1>3. Loaded' /\ Len(stack') = Len(stack)
  BY <1>2 DEF Loaded
<1>4. Top' = s
  BY <1>2 DEF Top
<1> QED BY <1>2, <1>3, <1>4

\* One more copy.
LEMMA PushFacts ==
    ASSUME TypeOK, NEW s \in Copy, stack' = Append(stack, s)
    PROVE  /\ Loaded' /\ Top' = s /\ (~Loaded => Len(stack') = 1)
           /\ \A n \in 1..Len(stack') : stack'[n] = s \/ (n \in 1..Len(stack) /\ stack'[n] = stack[n])
<1>1. stack \in Seq(Copy) /\ Len(stack) \in Nat
  BY Parts
<1>2. /\ Len(stack') = Len(stack) + 1 /\ stack'[Len(stack) + 1] = s
      /\ \A n \in 1..Len(stack) : stack'[n] = stack[n]
  BY <1>1
<1>3. Loaded'
  BY <1>1, <1>2 DEF Loaded
<1>4. Top' = s
  BY <1>2 DEF Top
<1>5. ~Loaded => Len(stack') = 1
  BY <1>2 DEF Loaded
<1> QED BY <1>1, <1>2, <1>3, <1>4, <1>5

\* A geometry, and the history of the rows read back.
LEMMA ResumedCopy ==
    ASSUME TypeOK
    PROVE  LET s == Restored(Fresh(plan), rows)
           IN  /\ s \in Copy /\ (~Gap(s) => Whole(s)) /\ s.positions = plan
               /\ s.accessed = Used(rows) \cap (0..Len(plan) - 1)
BY PlanFacts, FreshCopy, RestoredCopy, Parts

-----------------------------------------------------------------------------
(* Copies are whole.                                                       *)

\* Every step leaves whole copies, unless it leaves a gap, which is a slip.
LEMMA WholeStep ==
    ASSUME TypeInv, WholeInv, [Next]_vars
    PROVE  WholeInv'
<1> SUFFICES ASSUME Spared({"dropped", "gap"})'
             PROVE  \A n \in 1..Len(stack') : Whole(stack'[n])
  BY DEF WholeInv
<1>1. slips \subseteq slips'
  BY SlipsStay
<1>2. Spared({"dropped", "gap"})
  BY <1>1, SparedBefore
<1>3. TypeOK /\ \A n \in 1..Len(stack) : Whole(stack[n])
  BY <1>2 DEF TypeInv, WholeInv, Spared
<1> USE DEF dbVars
<1>4. ASSUME stack' = stack \/ stack' = <<>>
      PROVE  \A n \in 1..Len(stack') : Whole(stack'[n])
  BY <1>3, <1>4
<1>5. ASSUME Loaded, NEW s \in Copy, Whole(s), stack' = SetTop(s)
      PROVE  \A n \in 1..Len(stack') : Whole(stack'[n])
  BY <1>3, <1>5, SetTopFacts
<1>6. ASSUME NEW s \in Copy, Whole(s), stack' = Append(stack, s)
      PROVE  \A n \in 1..Len(stack') : Whole(stack'[n])
  BY <1>3, <1>6, PushFacts
<1>7. Loaded => Top \in Copy /\ Whole(Top)
  <2>1. ASSUME Loaded PROVE Top \in Copy /\ Len(stack) \in 1..Len(stack)
    BY <1>3, <2>1, TopCopy, Parts
  <2> QED BY <1>3, <2>1 DEF Top
<1>8. ASSUME Loaded, FinishTop
      PROVE  \A n \in 1..Len(stack') : Whole(stack'[n])
  <2>1. Finished(Top) \in Copy /\ Whole(Finished(Top)) /\ stack' = SetTop(Finished(Top))
    BY <1>3, <1>7, <1>8, FinishTopTyped, FinishedCopy
  <2> QED BY <1>5, <1>8, <2>1
<1>9. CASE Grow
  <2>1. CASE Read \/ ToCurrentPixel \/ Deposit \/ Record \/ Stop
    <3>1. stack' = stack
      BY <2>1 DEF Read, ToCurrentPixel, Deposit, Record, Stop
    <3> QED BY <1>4, <3>1
  <2>2. CASE FinishCurrentPixel
    BY <1>4, <1>8, <2>2 DEF FinishCurrentPixel
  <2> QED BY <1>9, <2>1, <2>2 DEF Grow
<1>10. CASE Resume
  <2> DEFINE s == Restored(Fresh(plan), rows)
  <2>1. stack' = Append(stack, s) /\ slips \cup SlipsBy(s) \subseteq slips'
    BY <1>10 DEF Resume
  <2>2. s \in Copy /\ (~Gap(s) => Whole(s))
    BY <1>3, ResumedCopy
  <2> HIDE DEF s
  <2>3. ~Gap(s)
    BY <2>1, NotMeddled
  <2> QED BY <1>6, <2>1, <2>2, <2>3
<1>11. CASE Unload
  BY <1>3, <1>11, Unloaded, Parts DEF Unload
<1>12. CASE Skip
  BY <1>8, <1>12 DEF Skip
<1>13. CASE Crash
  BY <1>4, <1>13 DEF Crash
<1>14. ASSUME NEW i \in Indices, NEW force \in BOOLEAN, ReopenPosition(i, force)
       PROVE  \A n \in 1..Len(stack') : Whole(stack'[n])
  <2>1. /\ Loaded /\ stack' = SetTop(Reopened(Top, i))
        /\ slips \cup SlipsBy(Reopened(Top, i)) \subseteq slips'
    BY <1>14 DEF ReopenPosition
  <2>2. ~Gap(Reopened(Top, i))
    BY <2>1, NotMeddled
  <2>3. Reopened(Top, i) \in Copy /\ Whole(Reopened(Top, i))
    BY <1>7, <2>1, <2>2, ReopenedCopy
  <2> QED BY <1>5, <2>1, <2>3
<1>15. ASSUME NEW k \in DOMAIN rows, RetireExperiment(k)
       PROVE  \A n \in 1..Len(stack') : Whole(stack'[n])
  <2>1. CASE ~Loaded
    BY <1>4, <1>15, <2>1 DEF RetireExperiment
  <2>2. CASE Loaded
    <3> DEFINE s == Restored(Top, rows')
    <3>1. stack' = SetTop(s) /\ slips \cup SlipsBy(s) \subseteq slips'
      BY <1>15, <2>2 DEF RetireExperiment
    <3>2. rows' \in Seq(Row)
      BY <1>3, <1>15, RetiredRows, Parts DEF RetireExperiment
    <3>3. s \in Copy /\ (~Gap(s) => Whole(s))
      BY <1>7, <2>2, <3>2, RestoredCopy
    <3> HIDE DEF s
    <3>4. ~Gap(s)
      BY <3>1, NotMeddled
    <3> QED BY <1>5, <2>2, <3>1, <3>3, <3>4
  <2> QED BY <2>1, <2>2
<1>16. ASSUME NEW p \in Layouts, Register(p)
       PROVE  \A n \in 1..Len(stack') : Whole(stack'[n])
  <2>1. Fresh(p) \in Copy /\ Whole(Fresh(p)) /\ stack' = Append(stack, Fresh(p))
    BY <1>16, LayoutFacts, FreshCopy DEF Register
  <2> QED BY <1>6, <2>1
<1>17. ASSUME NEW p \in Layouts, UpdateGeometry(p)
       PROVE  \A n \in 1..Len(stack') : Whole(stack'[n])
  <2>1. Whole(Fresh(p)) /\ stack' = IF Loaded THEN [stack EXCEPT ![1] = Fresh(p)] ELSE stack
    BY <1>17, LayoutFacts, FreshCopy DEF UpdateGeometry
  <2>2. stack \in Seq(Copy)
    BY <1>3, Parts
  <2>3. \A n \in 1..Len(stack') : n \in 1..Len(stack) /\ (stack'[n] = Fresh(p) \/ stack'[n] = stack[n])
    BY <2>1, <2>2
  <2> QED BY <1>3, <2>1, <2>3
<1>18. ASSUME NEW p \in Layouts, NEW k \in Indices, RegisterTorn(p, k) \/ UpdateTorn(p, k)
       PROVE  \A n \in 1..Len(stack') : Whole(stack'[n])
  BY <1>4, <1>18 DEF RegisterTorn, UpdateTorn
<1>19. ASSUME NEW dropped \in (SUBSET Places) \ {{}}, DropPositions(dropped)
       PROVE  FALSE
  BY <1>19 DEF DropPositions, Spared
<1>20. CASE UNCHANGED vars
  BY <1>4, <1>20 DEF vars
<1>21. ASSUME NEW kept \in Seq(Copy), \A n \in 1..Len(kept) : Whole(kept[n]),
              NEW s \in Copy, Whole(s), stack' = Append(kept, s)
       PROVE  \A n \in 1..Len(stack') : Whole(stack'[n])
  <2>1. \A n \in 1..Len(stack') : stack'[n] = s \/ (n \in 1..Len(kept) /\ stack'[n] = kept[n])
    BY <1>21
  <2> QED BY <1>21, <2>1
<1>22. ASSUME NEW k \in DOMAIN rows, ResumeBehindRetire(k)
       PROVE  \A n \in 1..Len(stack') : Whole(stack'[n])
  <2> DEFINE s == Restored(Fresh(plan), rows)
  <2> DEFINE t == Restored(Top, rows')
  <2> DEFINE kept == IF Loaded THEN SetTop(t) ELSE stack
  <2>1. /\ stack' = Append(kept, s) /\ slips \cup SlipsBy(s) \subseteq slips'
        /\ Loaded => slips \cup SlipsBy(t) \subseteq slips'
    BY <1>22 DEF ResumeBehindRetire
  <2>2. s \in Copy /\ (~Gap(s) => Whole(s))
    BY <1>3, ResumedCopy
  <2>3. rows' \in Seq(Row)
    BY <1>3, <1>22, RetiredRows, Parts DEF ResumeBehindRetire
  <2>4. Loaded => t \in Copy /\ (~Gap(t) => Whole(t))
    BY <1>7, <2>3, RestoredCopy
  <2> HIDE DEF s, t
  <2>5. Whole(s) /\ (Loaded => Whole(t))
    BY <2>1, <2>2, <2>4, NotMeddled
  <2>6. kept \in Seq(Copy) /\ \A n \in 1..Len(kept) : Whole(kept[n])
    <3>1. stack \in Seq(Copy)
      BY <1>3, Parts
    <3>2. CASE Loaded
      BY <1>3, <2>4, <2>5, <3>1, <3>2, TopCopy
    <3> QED BY <1>3, <3>1, <3>2
  <2> HIDE DEF kept
  <2> QED BY <1>21, <2>1, <2>2, <2>5, <2>6
<1>23. ASSUME NEW p \in Layouts, ResumeBehindUpdate(p)
       PROVE  \A n \in 1..Len(stack') : Whole(stack'[n])
  <2> DEFINE kept == IF Loaded THEN [stack EXCEPT ![1] = Fresh(p)] ELSE stack
  <2>1. Fresh(p) \in Copy /\ Whole(Fresh(p)) /\ Fresh(plan) \in Copy /\ Whole(Fresh(plan))
    BY <1>3, LayoutFacts, FreshCopy, PlanFacts
  <2>2. stack' = Append(kept, Fresh(plan))
    BY <1>23 DEF ResumeBehindUpdate
  <2>3. kept \in Seq(Copy) /\ \A n \in 1..Len(kept) : Whole(kept[n])
    <3>1. stack \in Seq(Copy)
      BY <1>3, Parts
    <3> QED BY <1>3, <2>1, <3>1 DEF Loaded
  <2> HIDE DEF kept
  <2> QED BY <1>21, <2>1, <2>2, <2>3
<1> QED BY <1>9, <1>10, <1>11, <1>12, <1>13, <1>14, <1>15, <1>16, <1>17, <1>18, <1>19, <1>20, <1>22,
        <1>23 DEF Next, Correct

-----------------------------------------------------------------------------
(* Copy, rows and recipe speak of the same places.                         *)

\* With the recipe at rest, it is enough that the copy has the geometry.
LEMMA AtRest ==
    ASSUME RowsHold', recipe'.at = "idle",
           Loaded' => plan' # <<>> /\ Len(stack') = 1 /\ Top'.positions = plan'
    PROVE  RowsHold' /\ CopyHolds' /\ RecipeHolds'
BY DEF CopyHolds, RecipeHolds

\* The rows and the geometry are as they were.
LEMMA RowsStay ==
    ASSUME RowsHold, rows' = rows, plan' = plan, plan = <<>> => recipe'.at = "idle"
    PROVE  RowsHold'
BY DEF RowsHold

\* The recipe's steps.
LEMMA GrowPlaced ==
    ASSUME TypeOK, RowsHold, CopyHolds, RecipeHolds, Grow
    PROVE  RowsHold' /\ CopyHolds' /\ RecipeHolds'
<1> USE DEF dbVars
<1>1. /\ Len(plan) \in Nat /\ recipe \in RecipeStates
      /\ \A n \in 1..Len(rows) : rows[n].index \in Nat
  BY PlanFacts, RowFacts, Parts
<1>2. Loaded => Top \in Copy /\ Top.positions = plan /\ plan # <<>> /\ Len(stack) = 1
  BY TopCopy, Parts DEF CopyHolds
<1>3. ASSUME stack' = stack
      PROVE  (Loaded' <=> Loaded) /\ Top' = Top
  BY <1>3 DEF Loaded, Top
<1>4. CASE Read
  <2>1. /\ Loaded /\ Top.cur < Len(plan) /\ recipe' = [at |-> "read", index |-> Top.cur]
        /\ rows' = rows /\ plan' = plan /\ stack' = stack /\ mask' = mask
    BY <1>2, <1>4 DEF Read, Available
  <2>2. RowsHold'
    BY <1>2, <2>1, RowsStay
  <2>3. CopyHolds'
    BY <1>2, <1>3, <2>1 DEF CopyHolds
  <2>4. RecipeHolds'
    BY <1>3, <2>1 DEF RecipeHolds
  <2> QED BY <2>2, <2>3, <2>4
<1>5. CASE ToCurrentPixel
  <2>1. /\ Loaded /\ mask' = Place(Top, Top.cur) /\ recipe.at \in {"read", "placed"}
        /\ recipe' = [recipe EXCEPT !.at = "placed"]
        /\ rows' = rows /\ plan' = plan /\ stack' = stack
    BY <1>5 DEF ToCurrentPixel
  <2>2. recipe'.at = "placed" /\ recipe'.index = recipe.index
    BY <1>1, <2>1 DEF RecipeStates
  <2>3. RowsHold'
    BY <1>2, <2>1, RowsStay
  <2>4. CopyHolds'
    BY <1>2, <1>3, <2>1 DEF CopyHolds
  <2>5. recipe.index < Len(plan) /\ Top.cur = recipe.index
    BY <2>1 DEF RecipeHolds
  <2>6. mask' = plan[recipe.index + 1]
    BY <1>2, <2>1, <2>5 DEF Place
  <2>7. RecipeHolds'
    BY <1>3, <2>1, <2>2, <2>5, <2>6 DEF RecipeHolds
  <2> QED BY <2>3, <2>4, <2>7
<1>6. CASE Deposit
  <2>1. /\ recipe.at = "placed" /\ recipe' = [recipe EXCEPT !.at = "deposited"]
        /\ rows' = rows /\ plan' = plan /\ stack' = stack /\ mask' = mask
    BY <1>6 DEF Deposit
  <2>2. recipe'.at = "deposited" /\ recipe'.index = recipe.index
    BY <1>1, <2>1 DEF RecipeStates
  <2>3. RowsHold'
    BY <2>1, RowsStay DEF RowsHold
  <2>4. CopyHolds'
    BY <1>2, <1>3, <2>1 DEF CopyHolds
  <2>5. RecipeHolds'
    BY <1>3, <2>1, <2>2 DEF RecipeHolds
  <2> QED BY <2>3, <2>4, <2>5
<1>7. CASE Record
  <2> DEFINE row == [index |-> recipe.index, place |-> mask, active |-> TRUE]
  <2>1. /\ recipe.at = "deposited" /\ recipe' = [recipe EXCEPT !.at = "recorded"]
        /\ rows' = Append(rows, row)
        /\ plan' = plan /\ stack' = stack /\ mask' = mask
    BY <1>7 DEF Record
  <2>2. recipe'.at = "recorded" /\ recipe'.index = recipe.index
    BY <1>1, <2>1 DEF RecipeStates
  <2>3. recipe.index < Len(plan) /\ mask = plan[recipe.index + 1] /\ plan # <<>>
    BY <2>1 DEF RecipeHolds, RowsHold
  <2>4. row \in Row /\ row.active /\ row.index = recipe.index /\ row.place = mask
    BY Parts DEF Row, RecipeStates
  <2> HIDE DEF row
  <2>5. /\ Len(rows') = Len(rows) + 1 /\ Len(rows) \in Nat
        /\ \A n \in 1..Len(rows) : rows'[n] = rows[n]
        /\ rows'[Len(rows) + 1] = row
    <3>1. rows \in Seq(Row)
      BY Parts
    <3> QED BY <2>1, <2>4, <3>1, RowMore, RowFacts
  <2>6. ASSUME NEW n \in 1..Len(rows')
        PROVE  rows'[n].index < Len(plan) /\ plan[rows'[n].index + 1] = rows'[n].place
    <3>1. CASE n = Len(rows) + 1
      BY <2>3, <2>4, <2>5, <3>1
    <3>2. CASE n # Len(rows) + 1
      <4>1. n \in 1..Len(rows)
        BY <2>5, <3>2
      <4> QED BY <2>5, <4>1 DEF RowsHold
    <3> QED BY <3>1, <3>2
  <2>7. RowsHold'
    BY <2>1, <2>3, <2>6 DEF RowsHold
  <2>8. CopyHolds'
    BY <1>2, <1>3, <2>1 DEF CopyHolds
  <2>9. RecipeHolds'
    BY <1>3, <2>1, <2>2 DEF RecipeHolds
  <2> QED BY <2>7, <2>8, <2>9
<1>8. CASE FinishCurrentPixel
  <2>1. /\ recipe'.at = "idle" /\ plan' = plan /\ rows' = rows
        /\ (Loaded => FinishTop) /\ (~Loaded => stack' = stack)
    BY <1>8 DEF FinishCurrentPixel, NoRecipe
  <2>2. RowsHold'
    BY <2>1, RowsStay
  <2>3. CASE Loaded
    <3>1. Finished(Top) \in Copy /\ stack' = SetTop(Finished(Top)) /\ Finished(Top).positions = Top.positions
      BY <2>1, <2>3, FinishTopTyped, FinishedCopy
    <3>2. Len(stack') = Len(stack) /\ Top' = Finished(Top)
      BY <2>3, <3>1, SetTopFacts
    <3> QED BY <1>2, <2>1, <2>2, <2>3, <3>1, <3>2, AtRest
  <2>4. CASE ~Loaded
    BY <1>3, <2>1, <2>2, <2>4, AtRest
  <2> QED BY <2>3, <2>4
<1>9. CASE Stop
  <2>1. recipe'.at = "idle" /\ plan' = plan /\ rows' = rows /\ stack' = stack
    BY <1>9 DEF Stop, NoRecipe
  <2>2. RowsHold'
    BY <2>1, RowsStay
  <2> QED BY <1>2, <1>3, <2>1, <2>2, AtRest
<1> QED BY <1>4, <1>5, <1>6, <1>7, <1>8, <1>9 DEF Grow

\* The operators' calls and the crashes.
LEMMA CorrectPlaced ==
    ASSUME TypeOK, RowsHold, CopyHolds, RecipeHolds, Correct, slips \subseteq slips', Spared(Misplacing)'
    PROVE  RowsHold' /\ CopyHolds' /\ RecipeHolds'
<1> USE DEF dbVars, growVars
<1>1. \A x \in {"meddled", "copies", "dropped", "stale"} : x \notin slips'
  BY DEF Spared, Misplacing
<1>2. Loaded => /\ Top \in Copy /\ Top.positions = plan /\ plan # <<>> /\ Len(stack) = 1
                /\ stack \in Seq(Copy)
  BY TopCopy, Parts DEF CopyHolds
<1>3. \A s : slips \cup SlipsBy(s) \subseteq slips' => recipe.at = "idle"
  BY <1>1 DEF SlipsBy
<1>4. CASE Resume
  <2> DEFINE s == Restored(Fresh(plan), rows)
  <2>1. /\ plan # <<>> /\ plan' = plan /\ rows' = rows /\ recipe' = recipe
        /\ stack' = Append(stack, s) /\ slips \cup SlipsBy(s) \subseteq slips'
        /\ Loaded => "copies" \in slips'
    BY <1>4 DEF Resume
  <2>2. s \in Copy /\ s.positions = plan
    BY ResumedCopy
  <2> HIDE DEF s
  <2>3. ~Loaded /\ recipe.at = "idle"
    BY <1>1, <1>3, <2>1
  <2>4. Top' = s /\ Len(stack') = 1
    BY <2>1, <2>2, <2>3, PushFacts
  <2>5. RowsHold'
    BY <2>1, RowsStay
  <2> QED BY <2>1, <2>2, <2>3, <2>4, <2>5, AtRest
<1>5. CASE Unload
  <2>1. /\ Loaded /\ stack' = SubSeq(stack, 1, Len(stack) - 1) /\ recipe.at = "idle"
        /\ plan' = plan /\ rows' = rows /\ recipe' = recipe
    BY <1>1, <1>5 DEF Unload
  <2>2. stack' = <<>>
    BY <1>2, <2>1
  <2>3. ~Loaded'
    BY <2>2 DEF Loaded
  <2>4. RowsHold'
    BY <2>1, RowsStay
  <2> QED BY <2>1, <2>3, <2>4, AtRest
<1>6. CASE Skip
  <2>1. /\ Loaded /\ FinishTop /\ recipe.at = "idle"
        /\ plan' = plan /\ rows' = rows /\ recipe' = recipe
    BY <1>3, <1>6 DEF Skip
  <2>2. Finished(Top) \in Copy /\ stack' = SetTop(Finished(Top)) /\ Finished(Top).positions = Top.positions
    BY <2>1, FinishTopTyped, FinishedCopy
  <2>3. Len(stack') = Len(stack) /\ Top' = Finished(Top)
    BY <2>1, <2>2, SetTopFacts
  <2>4. RowsHold'
    BY <2>1, RowsStay
  <2> QED BY <1>2, <2>1, <2>2, <2>3, <2>4, AtRest
<1>7. ASSUME stack' = <<>>, plan' = plan, rows' = rows, recipe' = recipe, mask' = mask
      PROVE  RowsHold' /\ CopyHolds' /\ RecipeHolds'
  <2>1. ~Loaded'
    BY <1>7 DEF Loaded
  <2> QED BY <1>7, <2>1 DEF RowsHold, CopyHolds, RecipeHolds
<1>8. CASE Crash
  BY <1>7, <1>8 DEF Crash
<1>9. ASSUME NEW i \in Indices, NEW force \in BOOLEAN, ReopenPosition(i, force)
      PROVE  RowsHold' /\ CopyHolds' /\ RecipeHolds'
  <2>1. /\ Loaded /\ stack' = SetTop(Reopened(Top, i)) /\ recipe.at = "idle"
        /\ plan' = plan /\ rows' = rows /\ recipe' = recipe
    BY <1>3, <1>9 DEF ReopenPosition
  <2>2. Reopened(Top, i) \in Copy /\ Reopened(Top, i).positions = Top.positions
    BY <1>2, <2>1, ReopenedCopy
  <2>3. Len(stack') = Len(stack) /\ Top' = Reopened(Top, i)
    BY <2>1, <2>2, SetTopFacts
  <2>4. RowsHold'
    BY <2>1, RowsStay
  <2> QED BY <1>2, <2>1, <2>2, <2>3, <2>4, AtRest
<1>10. ASSUME NEW k \in DOMAIN rows, RetireExperiment(k)
       PROVE  RowsHold' /\ CopyHolds' /\ RecipeHolds'
  <2>1. /\ rows' = [rows EXCEPT ![k].active = ~@] /\ recipe.at = "idle"
        /\ stack' = IF Loaded THEN SetTop(Restored(Top, rows')) ELSE stack
        /\ plan' = plan /\ recipe' = recipe
    BY <1>3, <1>10 DEF RetireExperiment
  <2>2. /\ rows' \in Seq(Row) /\ Len(rows') = Len(rows) /\ k \in 1..Len(rows)
        /\ \A n \in 1..Len(rows) : rows'[n].index = rows[n].index /\ rows'[n].place = rows[n].place
    BY <2>1, RetiredRows, RowFacts, Parts
  <2>3. RowsHold'
    <3>1. \A n \in 1..Len(rows') : /\ rows'[n].index < Len(plan)
                                   /\ plan[rows'[n].index + 1] = rows'[n].place
      BY <2>2 DEF RowsHold
    <3>2. plan # <<>>
      BY <2>2 DEF RowsHold
    <3> QED BY <2>1, <3>1, <3>2 DEF RowsHold
  <2>4. CASE Loaded
    <3>1. Restored(Top, rows') \in Copy /\ Restored(Top, rows').positions = Top.positions
      BY <1>2, <2>2, <2>4, RestoredCopy
    <3>2. Len(stack') = Len(stack) /\ Top' = Restored(Top, rows')
      BY <2>1, <2>4, <3>1, SetTopFacts
    <3> QED BY <1>2, <2>1, <2>3, <2>4, <3>1, <3>2, AtRest
  <2>5. CASE ~Loaded
    <3>1. ~Loaded'
      BY <2>1, <2>5 DEF Loaded
    <3> QED BY <2>1, <2>3, <3>1, AtRest
  <2> QED BY <2>4, <2>5
<1>11. ASSUME NEW p \in Layouts, Register(p)
       PROVE  RowsHold' /\ CopyHolds' /\ RecipeHolds'
  <2>1. /\ plan = <<>> /\ plan' = p /\ stack' = Append(stack, Fresh(p)) /\ rows' = rows
        /\ recipe' = recipe
    BY <1>11 DEF Register
  <2>2. rows = <<>> /\ recipe.at = "idle" /\ ~Loaded
    BY <1>2, <2>1 DEF RowsHold
  <2>3. Fresh(p) \in Copy /\ Fresh(p).positions = p /\ p # <<>>
    BY LayoutFacts, FreshCopy
  <2>4. Top' = Fresh(p) /\ Len(stack') = 1
    BY <2>1, <2>2, <2>3, PushFacts
  <2>5. RowsHold'
    BY <2>1, <2>2 DEF RowsHold
  <2> QED BY <2>1, <2>2, <2>3, <2>4, <2>5, AtRest
<1>12. ASSUME NEW p \in Layouts, NEW k \in Indices, RegisterTorn(p, k)
       PROVE  RowsHold' /\ CopyHolds' /\ RecipeHolds'
  <2>1. plan = <<>> /\ plan' = p /\ stack' = <<>> /\ rows' = rows /\ recipe' = recipe
    BY <1>12 DEF RegisterTorn
  <2>2. rows = <<>> /\ recipe.at = "idle"
    BY <2>1 DEF RowsHold
  <2>3. ~Loaded'
    BY <2>1 DEF Loaded
  <2>4. RowsHold'
    BY <2>1, <2>2 DEF RowsHold
  <2> QED BY <2>1, <2>2, <2>3, <2>4, AtRest
<1>13. ASSUME NEW p \in Layouts, UpdateGeometry(p)
       PROVE  RowsHold' /\ CopyHolds' /\ RecipeHolds'
  <2>1. /\ rows = <<>> /\ plan' = p /\ rows' = rows /\ recipe' = recipe /\ recipe.at = "idle"
        /\ stack' = IF Loaded THEN [stack EXCEPT ![1] = Fresh(p)] ELSE stack
    BY <1>1, <1>13 DEF UpdateGeometry
  <2>2. Fresh(p).positions = p /\ p # <<>>
    BY LayoutFacts, FreshCopy
  <2>3. Loaded' => Len(stack') = 1 /\ Top' = Fresh(p)
    <3>1. CASE Loaded
      <4>1. Len(stack') = 1 /\ stack'[1] = Fresh(p)
        BY <1>2, <2>1, <3>1
      <4> QED BY <4>1 DEF Top
    <3>2. CASE ~Loaded
      BY <2>1, <3>2 DEF Loaded
    <3> QED BY <3>1, <3>2
  <2>4. RowsHold'
    BY <2>1 DEF RowsHold
  <2> QED BY <2>1, <2>2, <2>3, <2>4, AtRest
<1>14. ASSUME NEW p \in Layouts, NEW k \in Indices, UpdateTorn(p, k)
       PROVE  RowsHold' /\ CopyHolds' /\ RecipeHolds'
  BY <1>7, <1>14 DEF UpdateTorn
<1>15. ASSUME NEW gone \in (SUBSET Places) \ {{}}, DropPositions(gone)
       PROVE  FALSE
  BY <1>1, <1>15 DEF DropPositions
<1>16. ASSUME NEW n \in DOMAIN rows, ResumeBehindRetire(n)
       PROVE  FALSE
  BY <1>1, <1>16 DEF ResumeBehindRetire
<1>17. ASSUME NEW p \in Layouts, ResumeBehindUpdate(p)
       PROVE  FALSE
  BY <1>1, <1>17 DEF ResumeBehindUpdate
<1> QED BY <1>4, <1>5, <1>6, <1>8, <1>9, <1>10, <1>11, <1>12, <1>13, <1>14, <1>15, <1>16, <1>17 DEF Correct

\* Every step that is no slip keeps the three together.
LEMMA PlacedStep ==
    ASSUME TypeInv, PlacedInv, [Next]_vars
    PROVE  PlacedInv'
<1> SUFFICES ASSUME Spared(Misplacing)'
             PROVE  RowsHold' /\ CopyHolds' /\ RecipeHolds'
  BY DEF PlacedInv
<1>1. slips \subseteq slips'
  BY SlipsStay
<1>2. Spared(Misplacing)
  BY <1>1, SparedBefore
<1>3. TypeOK /\ RowsHold /\ CopyHolds /\ RecipeHolds
  BY <1>2 DEF TypeInv, PlacedInv, Spared, Misplacing
<1>4. CASE Grow
  BY <1>3, <1>4, GrowPlaced
<1>5. CASE Correct
  BY <1>1, <1>3, <1>5, CorrectPlaced
<1>6. CASE UNCHANGED vars
  BY <1>3, <1>6 DEF vars, dbVars, growVars, RowsHold, CopyHolds, RecipeHolds, Loaded, Top
<1> QED BY <1>4, <1>5, <1>6 DEF Next

-----------------------------------------------------------------------------
(* What is active is taken.                                                *)

\* A slip of the larger kind was spared, hence those of the smaller.
LEMMA Kinds ==
    ASSUME slips \subseteq slips', NEW some, Mistaking \subseteq some, Spared(some)', TypeInv, PlacedInv
    PROVE  /\ TypeOK /\ RowsHold /\ CopyHolds /\ RecipeHolds
           /\ Spared(some) /\ Spared(Mistaking) /\ Spared(Mistaking)'
<1>1. /\ Misplacing \subseteq some /\ {"dropped"} \subseteq some
  BY DEF Mistaking, Misplacing
<1>2. Spared(some) /\ Spared(Mistaking) /\ Spared(Mistaking)' /\ Spared(Misplacing) /\ Spared({"dropped"})
  BY <1>1, SparedBefore
<1>3. "dropped" \notin slips
  BY <1>2 DEF Spared
<1> QED BY <1>2, <1>3 DEF TypeInv, PlacedInv

\* An operator's call that is no slip finds the recipe at rest.
LEMMA Undisturbed ==
    ASSUME Spared(Mistaking)', NEW s, slips \cup SlipsBy(s) \subseteq slips'
    PROVE  recipe.at = "idle"
BY NotMeddled DEF Mistaking, Misplacing

\* Every row comes with a finish to follow, and is read back when it counts again.
LEMMA TakenStep ==
    ASSUME TypeInv, PlacedInv, TakenInv, [Next]_vars
    PROVE  TakenInv'
<1> SUFFICES ASSUME Spared(Mistaking)', Loaded'
             PROVE  Used(rows') \subseteq Top'.accessed \cup Pending'
  BY DEF TakenInv
<1>1. slips \subseteq slips'
  BY SlipsStay
<1>2. TypeOK /\ RowsHold /\ CopyHolds /\ RecipeHolds /\ Spared(Mistaking)
  BY <1>1, Kinds
<1>3. Loaded => Used(rows) \subseteq Top.accessed \cup Pending
  BY <1>2 DEF TakenInv
<1>4. Loaded => Top \in Copy /\ Top.positions = plan /\ Len(stack) = 1
  BY <1>2, TopCopy, Parts DEF CopyHolds
<1>5. rows \in Seq(Row) /\ recipe \in RecipeStates
  BY <1>2, Parts
<1>6. \A x \in {"meddled", "copies", "dropped", "stale", "unfinished", "forced"} : x \notin slips'
  BY DEF Spared, Mistaking, Misplacing
<1> USE DEF dbVars, growVars
<1>7. ASSUME stack' = stack, rows' = rows, Pending \subseteq Pending'
      PROVE  Used(rows') \subseteq Top'.accessed \cup Pending'
  BY <1>3, <1>7 DEF Loaded, Top
<1>8. ASSUME stack' = <<>>
      PROVE  FALSE
  BY <1>8 DEF Loaded
<1>9. ASSUME rows' = <<>>
      PROVE  Used(rows') \subseteq Top'.accessed \cup Pending'
  <2>1. Used(<<>>) = {}
    BY DEF Used
  <2> QED BY <1>9, <2>1
<1>10. ASSUME Loaded, FinishTop, rows' = rows, Pending \subseteq {Top.cur}
       PROVE  Used(rows') \subseteq Top'.accessed \cup Pending'
  <2>1. Finished(Top) \in Copy /\ stack' = SetTop(Finished(Top)) /\ Top.cur < Longest + 1
    BY <1>2, <1>10, FinishTopTyped
  <2>2. Top'.accessed = Top.accessed \cup {Top.cur}
    BY <1>2, <1>4, <1>10, <2>1, SetTopFacts, FinishedCopy
  <2> QED BY <1>3, <1>10, <2>2
<1>11. ASSUME recipe.at = "idle"
       PROVE  Pending = {}
  BY <1>11 DEF Pending
<1>12. CASE Grow
  <2>1. CASE Read \/ ToCurrentPixel \/ Deposit
    <3>1. stack' = stack /\ rows' = rows /\ Pending = {}
      BY <2>1 DEF Read, ToCurrentPixel, Deposit, Pending
    <3> QED BY <1>7, <3>1
  <2>2. CASE Record
    <3> DEFINE row == [index |-> recipe.index, place |-> mask, active |-> TRUE]
    <3>1. /\ rows' = Append(rows, row) /\ stack' = stack
          /\ recipe.at = "deposited" /\ recipe' = [recipe EXCEPT !.at = "recorded"]
      BY <2>2 DEF Record
    <3>2. row \in Row /\ row.active /\ row.index = recipe.index
      BY <1>2, Parts DEF Row, RecipeStates
    <3> HIDE DEF row
    <3>3. Used(rows') = Used(rows) \cup {recipe.index}
      BY <1>5, <3>1, <3>2, RowMore
    <3>4. Pending = {} /\ Pending' = {recipe.index}
      BY <1>5, <3>1 DEF Pending, RecipeStates
    <3>5. Loaded /\ Top' = Top
      BY <3>1 DEF Loaded, Top
    <3> QED BY <1>3, <3>3, <3>4, <3>5
  <2>3. CASE FinishCurrentPixel
    <3>1. /\ recipe.at = "recorded" /\ rows' = rows /\ (Loaded => FinishTop)
          /\ (~Loaded => stack' = stack)
      BY <2>3 DEF FinishCurrentPixel
    <3>2. Loaded
      BY <3>1 DEF Loaded
    <3>3. Pending \subseteq {Top.cur}
      BY <1>2, <3>1, <3>2 DEF RecipeHolds, Pending
    <3> QED BY <1>10, <3>1, <3>2, <3>3
  <2>4. CASE Stop
    <3>1. /\ stack' = stack /\ rows' = rows
          /\ recipe.at = "recorded" /\ Loaded => "unfinished" \in slips'
      BY <2>4 DEF Stop
    <3>2. Pending = {}
      BY <1>6, <3>1 DEF Loaded, Pending
    <3> QED BY <1>7, <3>1, <3>2
  <2> QED BY <1>12, <2>1, <2>2, <2>3, <2>4 DEF Grow
<1>13. CASE Resume
  <2> DEFINE s == Restored(Fresh(plan), rows)
  <2>1. stack' = Append(stack, s) /\ rows' = rows
    BY <1>13 DEF Resume
  <2>2. s \in Copy /\ s.accessed = Used(rows) \cap (0..Len(plan) - 1)
    BY <1>2, ResumedCopy
  <2> HIDE DEF s
  <2>3. Top' = s
    BY <1>2, <2>1, <2>2, PushFacts
  <2>4. Used(rows) \subseteq 0..Len(plan) - 1
    BY <1>2, <1>5, UsedRows, RowFacts, PlanFacts DEF RowsHold
  <2> QED BY <2>1, <2>2, <2>3, <2>4
<1>14. CASE Unload
  <2>1. stack' = <<>>
    BY <1>2, <1>4, <1>14, Parts DEF Unload
  <2> QED BY <1>8, <2>1
<1>15. CASE Skip
  <2>1. Loaded /\ FinishTop /\ rows' = rows /\ slips \cup SlipsBy(Finished(Top)) \subseteq slips'
    BY <1>15 DEF Skip
  <2>2. recipe.at = "idle"
    BY <2>1, Undisturbed
  <2> QED BY <1>10, <1>11, <2>1, <2>2
<1>16. CASE Crash
  BY <1>8, <1>16 DEF Crash
<1>17. ASSUME NEW i \in Indices, NEW force \in BOOLEAN, ReopenPosition(i, force)
       PROVE  Used(rows') \subseteq Top'.accessed \cup Pending'
  <2>1. /\ Loaded /\ stack' = SetTop(Reopened(Top, i)) /\ rows' = rows
        /\ slips \cup SlipsBy(Reopened(Top, i)) \subseteq slips'
        /\ i \in Used(rows) => "forced" \in slips'
    BY <1>17 DEF ReopenPosition
  <2>2. Pending = {} /\ i \notin Used(rows)
    BY <1>6, <1>11, <2>1, Undisturbed
  <2>3. Top'.accessed = Top.accessed \ {i}
    BY <1>2, <1>4, <2>1, ReopenedCopy, SetTopFacts
  <2> QED BY <1>3, <2>1, <2>2, <2>3
<1>18. ASSUME NEW k \in DOMAIN rows, RetireExperiment(k)
       PROVE  Used(rows') \subseteq Top'.accessed \cup Pending'
  <2>1. /\ rows' = [rows EXCEPT ![k].active = ~@]
        /\ stack' = IF Loaded THEN SetTop(Restored(Top, rows')) ELSE stack
    BY <1>18 DEF RetireExperiment
  <2>2. Loaded
    BY <2>1 DEF Loaded
  <2>3. /\ rows' \in Seq(Row) /\ Len(rows') = Len(rows)
        /\ \A n \in 1..Len(rows) : rows'[n].index = rows[n].index
    BY <1>5, <2>1, RetiredRows
  <2>4. Used(rows') \subseteq 0..Len(plan) - 1
    <3>1. \A i \in Used(rows') : \E n \in 1..Len(rows) : rows[n].index = i
      BY <2>3, UsedRows
    <3>2. \A n \in 1..Len(rows) : rows[n].index \in 0..Len(plan) - 1
      BY <1>2, RowFacts, PlanFacts DEF RowsHold
    <3> QED BY <3>1, <3>2
  <2>5. Top'.accessed = Used(rows') \cap (0..Len(plan) - 1)
    <3>1. /\ Restored(Top, rows') \in Copy
          /\ Restored(Top, rows').accessed = Used(rows') \cap (0..Len(plan) - 1)
      BY <1>4, <2>2, <2>3, RestoredCopy
    <3>2. Top' = Restored(Top, rows')
      BY <1>2, <2>1, <2>2, <3>1, SetTopFacts
    <3> QED BY <3>1, <3>2
  <2> QED BY <2>4, <2>5
<1>19. ASSUME NEW p \in Layouts, Register(p) \/ UpdateGeometry(p)
       PROVE  Used(rows') \subseteq Top'.accessed \cup Pending'
  BY <1>2, <1>9, <1>19 DEF Register, UpdateGeometry, RowsHold
<1>20. ASSUME NEW p \in Layouts, NEW k \in Indices, RegisterTorn(p, k) \/ UpdateTorn(p, k)
       PROVE  FALSE
  BY <1>8, <1>20 DEF RegisterTorn, UpdateTorn
<1>21. ASSUME NEW gone \in (SUBSET Places) \ {{}}, DropPositions(gone)
       PROVE  FALSE
  BY <1>6, <1>21 DEF DropPositions
<1>22. CASE UNCHANGED vars
  BY <1>7, <1>22 DEF vars, Pending
<1>23. ASSUME NEW n \in DOMAIN rows, ResumeBehindRetire(n)
       PROVE  FALSE
  BY <1>6, <1>23 DEF ResumeBehindRetire
<1>24. ASSUME NEW p \in Layouts, ResumeBehindUpdate(p)
       PROVE  FALSE
  BY <1>6, <1>24 DEF ResumeBehindUpdate
<1> QED BY <1>12, <1>13, <1>14, <1>15, <1>16, <1>17, <1>18, <1>19, <1>20, <1>21, <1>22, <1>23, <1>24
        DEF Next, Correct

-----------------------------------------------------------------------------
(* Growth goes on fresh places.                                            *)

\* The cursor of a whole copy is free, and stays so while the recipe works there.
LEMMA FreshStep ==
    ASSUME TypeInv, WholeInv, PlacedInv, TakenInv, FreshInv, [Next]_vars
    PROVE  FreshInv'
<1> DEFINE some == Mistaking \cup {"gap"}
<1> DEFINE Early == {"read", "placed", "deposited"}
<1> SUFFICES ASSUME Spared(some)'
             PROVE  (recipe'.at \in Early => recipe'.index \notin Used(rows')) /\ ~spoilt'
  BY DEF FreshInv
<1>1. slips \subseteq slips'
  BY SlipsStay
<1>2. /\ TypeOK /\ RowsHold /\ CopyHolds /\ RecipeHolds /\ Spared(some) /\ Spared(Mistaking)
      /\ Spared(Mistaking)'
  BY <1>1, Kinds
<1>3. (recipe.at \in Early => recipe.index \notin Used(rows)) /\ ~spoilt
  BY <1>2 DEF FreshInv
<1>4. recipe \in RecipeStates /\ rows \in Seq(Row)
  BY <1>2, Parts
<1> USE DEF dbVars, growVars
<1>5. ASSUME spoilt' = spoilt, recipe' = recipe, rows' = rows \/ recipe.at = "idle"
      PROVE  (recipe'.at \in Early => recipe'.index \notin Used(rows')) /\ ~spoilt'
  BY <1>3, <1>5
<1>6. CASE Read
  <2>1. /\ Loaded /\ recipe.at = "idle" /\ recipe' = [at |-> "read", index |-> Top.cur]
        /\ rows' = rows /\ spoilt' = spoilt
    BY <1>6 DEF Read
  <2>2. Used(rows) \subseteq Top.accessed
    BY <1>2, <2>1 DEF TakenInv, Pending
  <2>3. Whole(Top)
    <3>1. \A n \in 1..Len(stack) : Whole(stack[n])
      BY <1>2 DEF WholeInv, Spared, Mistaking, Misplacing
    <3>2. Len(stack) \in 1..Len(stack)
      BY <1>2, <2>1, TopCopy, Parts
    <3> QED BY <3>1, <3>2 DEF Top
  <2>4. Top.cur \notin Top.accessed
    <3>1. Top.cur \in Nat
      BY <1>2, <2>1, TopCopy, CopyFacts, Parts
    <3> QED BY <2>3, <3>1 DEF Whole
  <2> QED BY <1>3, <2>1, <2>2, <2>4
<1>7. CASE ToCurrentPixel
  <2>1. /\ recipe.at \in Early /\ recipe'.index = recipe.index
        /\ rows' = rows /\ spoilt' = spoilt
    BY <1>4, <1>7 DEF ToCurrentPixel, RecipeStates
  <2> QED BY <1>3, <2>1
<1>8. CASE Deposit
  <2>1. /\ recipe.at = "placed" /\ recipe'.index = recipe.index /\ rows' = rows
        /\ spoilt' = (spoilt \/ \E n \in DOMAIN rows : rows[n].active /\ rows[n].place = mask)
    BY <1>4, <1>8 DEF Deposit, RecipeStates
  <2>2. /\ recipe.index < Len(plan) /\ recipe.index \in Nat /\ mask = plan[recipe.index + 1]
        /\ recipe.index \notin Used(rows)
    BY <1>2, <1>3, <1>4, <2>1, Bounds DEF RecipeHolds, RecipeStates
  <2>3. ASSUME NEW n \in DOMAIN rows, rows[n].active, rows[n].place = mask
        PROVE  FALSE
    <3>1. n \in 1..Len(rows) /\ rows[n].index \in Nat
      BY <1>2, RowFacts
    <3>2. rows[n].index < Len(plan) /\ plan[rows[n].index + 1] = plan[recipe.index + 1]
      BY <1>2, <2>2, <2>3, <3>1 DEF RowsHold
    <3>3. rows[n].index = recipe.index
      BY <1>2, <2>2, <3>1, <3>2, PlanFacts
    <3> QED BY <1>4, <2>2, <2>3, <3>1, <3>3, UsedRows
  <2> QED BY <1>3, <2>1, <2>2, <2>3
<1>9. CASE Record
  <2>1. recipe'.at = "recorded" /\ spoilt' = spoilt
    BY <1>4, <1>9 DEF Record, RecipeStates
  <2> QED BY <1>3, <2>1
<1>10. CASE FinishCurrentPixel \/ Stop
  <2>1. recipe'.at = "idle" /\ spoilt' = spoilt
    BY <1>10 DEF FinishCurrentPixel, Stop, NoRecipe
  <2> QED BY <1>3, <2>1
<1>11. CASE Resume \/ Unload \/ Skip \/ Crash
  BY <1>5, <1>11 DEF Resume, Unload, Skip, Crash
<1>12. ASSUME NEW i \in Indices, NEW force \in BOOLEAN, ReopenPosition(i, force)
       PROVE  (recipe'.at \in Early => recipe'.index \notin Used(rows')) /\ ~spoilt'
  BY <1>5, <1>12 DEF ReopenPosition
<1>13. ASSUME NEW k \in DOMAIN rows, RetireExperiment(k)
       PROVE  (recipe'.at \in Early => recipe'.index \notin Used(rows')) /\ ~spoilt'
  <2>1. /\ recipe' = recipe /\ spoilt' = spoilt
        /\ slips \cup SlipsBy(IF Loaded THEN Restored(Top, rows') ELSE Fresh(<<>>)) \subseteq slips'
    BY <1>13 DEF RetireExperiment
  <2>2. recipe.at = "idle"
    BY <1>2, <2>1, Undisturbed
  <2> QED BY <1>5, <2>1, <2>2
<1>14. ASSUME NEW p \in Layouts, Register(p) \/ UpdateGeometry(p)
       PROVE  (recipe'.at \in Early => recipe'.index \notin Used(rows')) /\ ~spoilt'
  BY <1>5, <1>14 DEF Register, UpdateGeometry
<1>15. ASSUME NEW p \in Layouts, NEW k \in Indices, RegisterTorn(p, k) \/ UpdateTorn(p, k)
       PROVE  (recipe'.at \in Early => recipe'.index \notin Used(rows')) /\ ~spoilt'
  BY <1>5, <1>15 DEF RegisterTorn, UpdateTorn
<1>16. ASSUME NEW gone \in (SUBSET Places) \ {{}}, DropPositions(gone)
       PROVE  (recipe'.at \in Early => recipe'.index \notin Used(rows')) /\ ~spoilt'
  BY <1>5, <1>16 DEF DropPositions
<1>17. CASE UNCHANGED vars
  BY <1>5, <1>17 DEF vars
<1>18. "stale" \notin slips'
  BY DEF Spared, Mistaking, Misplacing
<1>19. ASSUME NEW n \in DOMAIN rows, ResumeBehindRetire(n)
       PROVE  FALSE
  BY <1>18, <1>19 DEF ResumeBehindRetire
<1>20. ASSUME NEW p \in Layouts, ResumeBehindUpdate(p)
       PROVE  FALSE
  BY <1>18, <1>20 DEF ResumeBehindUpdate
<1> QED BY <1>6, <1>7, <1>8, <1>9, <1>10, <1>11, <1>12, <1>13, <1>14, <1>15, <1>16, <1>17, <1>19, <1>20
        DEF Next, Grow, Correct

-----------------------------------------------------------------------------
(* The sample rows agree.                                                  *)

\* A step that touches neither the rows nor the copy, or loses the copy.
LEMMA SamplesStay ==
    ASSUME AllHaveRows, TakenAreGrown, sample' = sample, plan' = plan, root' = root,
           stack' = stack \/ stack' = <<>>
    PROVE  AllHaveRows' /\ TakenAreGrown'
<1>1. AllHaveRows'
  BY DEF AllHaveRows
<1>2. Loaded' => Loaded /\ Top' = Top
  BY DEF Loaded, Top
<1> QED BY <1>1, <1>2 DEF TakenAreGrown

\* The position counted past is marked grown.
LEMMA FinishTopMarks ==
    ASSUME TypeOK, CopyHolds, AllHaveRows, TakenAreGrown, plan' = plan, root' = root, Loaded, FinishTop
    PROVE  AllHaveRows' /\ TakenAreGrown'
<1>1. /\ Top \in Copy /\ Top.cur < Longest + 1 /\ Finished(Top) \in Copy /\ stack' = SetTop(Finished(Top))
      /\ \A i \in Indices : i # Top.cur => sample'[i] = sample[i]
      /\ \A i \in Indices : i = Top.cur => sample'[i] = IF sample[i] = "none" THEN "none" ELSE "grown"
  BY FinishTopTyped
<1>2. plan # <<>> /\ root
  BY DEF CopyHolds, TakenAreGrown
<1>3. \A i \in Indices : i < Len(plan) => sample[i] # "none"
  BY <1>2 DEF AllHaveRows
<1>4. AllHaveRows'
  <2>1. \A i \in Indices : i < Len(plan) => sample'[i] # "none"
    BY <1>1, <1>3
  <2> QED BY <2>1 DEF AllHaveRows
<1>5. Top' = Finished(Top)
  BY <1>1, SetTopFacts
<1>6. Top'.accessed = Top.accessed \cup {Top.cur}
  BY <1>1, <1>5, FinishedCopy
<1>7. \A i \in Nat : i < Len(plan) => i \in Indices
  BY PlanFacts, ListFacts
<1>8. Top.accessed \subseteq Nat /\ Top.cur \in Nat
  BY <1>1, CopyFacts
<1>9. ASSUME NEW i \in Top'.accessed, i < Len(plan)
      PROVE  sample'[i] = "grown"
  <2>1. i \in Indices /\ sample[i] # "none"
    BY <1>3, <1>6, <1>7, <1>8, <1>9
  <2>2. CASE i = Top.cur
    BY <1>1, <2>1, <2>2
  <2>3. CASE i # Top.cur
    BY <1>1, <1>6, <1>9, <2>1, <2>3 DEF TakenAreGrown
  <2> QED BY <2>2, <2>3
<1>10. TakenAreGrown'
  BY <1>2, <1>9 DEF TakenAreGrown
<1> QED BY <1>4, <1>10

\* The rows are made anew, and nothing is finished.
LEMMA SamplesMade ==
    ASSUME NEW p \in Layouts, plan' = p, sample' = Planned(p, Longest), root',
           Loaded' => Top'.accessed = {}
    PROVE  AllHaveRows' /\ TakenAreGrown'
<1>1. \A i \in Indices : i < Len(p) => sample'[i] # "none"
  BY PlannedRows
<1> QED BY <1>1 DEF AllHaveRows, TakenAreGrown

\* Whatever takes a position marks its sample, and whatever frees it unmarks it.
LEMMA SampleStep ==
    ASSUME TypeInv, PlacedInv, TakenInv, SampleInv, [Next]_vars
    PROVE  SampleInv'
<1> DEFINE some == Mistaking \cup {"torn", "reinstated"}
<1> SUFFICES ASSUME Spared(some)'
             PROVE  AllHaveRows' /\ TakenAreGrown'
  BY DEF SampleInv
<1>1. slips \subseteq slips'
  BY SlipsStay
<1>2. /\ TypeOK /\ RowsHold /\ CopyHolds /\ RecipeHolds /\ Spared(some) /\ Spared(Mistaking)
      /\ Spared(Mistaking)'
  BY <1>1, Kinds
<1>3. AllHaveRows /\ TakenAreGrown
  BY <1>2 DEF SampleInv
<1>4. Loaded => Top \in Copy /\ Top.positions = plan /\ Len(stack) = 1 /\ plan # <<>>
  BY <1>2, TopCopy, Parts DEF CopyHolds
<1>5. \A x \in {"torn", "reinstated", "copies", "dropped", "stale"} : x \notin slips'
  BY DEF Spared, Mistaking, Misplacing
<1>6. rows \in Seq(Row) /\ sample \in [Indices -> SampleStates]
  BY <1>2, Parts
<1> USE DEF dbVars, growVars
<1>7. CASE Grow
  <2>1. CASE Read \/ ToCurrentPixel \/ Deposit \/ Record \/ Stop
    <3>1. sample' = sample /\ plan' = plan /\ root' = root /\ stack' = stack
      BY <2>1 DEF Read, ToCurrentPixel, Deposit, Record, Stop
    <3> QED BY <1>3, <3>1, SamplesStay
  <2>2. CASE FinishCurrentPixel
    <3>1. /\ plan' = plan /\ root' = root /\ (Loaded => FinishTop)
          /\ (~Loaded => stack' = stack /\ sample' = sample)
      BY <2>2 DEF FinishCurrentPixel
    <3> QED BY <1>2, <1>3, <3>1, FinishTopMarks, SamplesStay
  <2> QED BY <1>7, <2>1, <2>2 DEF Grow
<1>8. CASE Resume
  <2> DEFINE s == Restored(Fresh(plan), rows)
  <2> DEFINE existing == IF root THEN sample ELSE Planned(plan, Longest)
  <2>1. /\ plan # <<>> /\ plan' = plan /\ root' = TRUE /\ stack' = Append(stack, s)
        /\ sample' = [i \in Indices |-> IF i \in s.accessed /\ existing[i] # "none"
                                        THEN "grown" ELSE existing[i]]
    BY <1>8 DEF Resume, MarkGrown
  <2>2. s \in Copy /\ s.accessed = Used(rows) \cap (0..Len(plan) - 1)
    BY <1>2, ResumedCopy
  <2>3. \A i \in Indices : i < Len(plan) => existing[i] # "none"
    <3>1. CASE root
      BY <1>3, <2>1, <3>1 DEF AllHaveRows
    <3>2. CASE ~root
      BY <1>2, <2>1, <3>2, PlanFacts, PlannedRows
    <3> QED BY <3>1, <3>2
  <2> HIDE DEF s, existing
  <2>4. AllHaveRows'
    <3>1. \A i \in Indices : i < Len(plan) => sample'[i] # "none"
      BY <2>1, <2>3
    <3> QED BY <2>1, <3>1 DEF AllHaveRows
  <2>5. Top' = s
    BY <1>2, <2>1, <2>2, PushFacts
  <2>6. \A i \in s.accessed : i \in Indices /\ i < Len(plan)
    BY <1>2, <1>6, <2>2, UsedRows, PlanFacts
  <2>7. \A i \in s.accessed : sample'[i] = "grown"
    BY <2>1, <2>3, <2>6
  <2> QED BY <2>1, <2>4, <2>5, <2>7 DEF TakenAreGrown
<1>9. CASE Unload \/ Crash
  <2>1. sample' = sample /\ plan' = plan /\ root' = root /\ stack' = <<>>
    BY <1>2, <1>4, <1>9, Parts DEF Unload, Crash
  <2> QED BY <1>3, <2>1, SamplesStay
<1>10. CASE Skip
  <2>1. plan' = plan /\ root' = root /\ Loaded /\ FinishTop
    BY <1>10 DEF Skip
  <2> QED BY <1>2, <1>3, <2>1, FinishTopMarks
<1>11. ASSUME NEW i \in Indices, NEW force \in BOOLEAN, ReopenPosition(i, force)
       PROVE  AllHaveRows' /\ TakenAreGrown'
  <2>1. /\ Loaded /\ stack' = SetTop(Reopened(Top, i)) /\ Mark(i, "planned")
        /\ plan' = plan /\ root' = root
    BY <1>11 DEF ReopenPosition
  <2>2. /\ sample'[i] = IF sample[i] = "none" THEN "none" ELSE "planned"
        /\ \A j \in Indices : j # i => sample'[j] = sample[j]
    BY <1>6, <2>1, MarkedRow DEF SampleStates
  <2>3. Top'.accessed = Top.accessed \ {i}
    BY <1>2, <1>4, <2>1, ReopenedCopy, SetTopFacts
  <2>4. AllHaveRows'
    BY <1>3, <2>1, <2>2 DEF AllHaveRows
  <2>5. \A j \in Top.accessed : j < Len(plan) => j \in Indices
    BY <1>2, <1>4, <2>1, CopyFacts, PlanFacts, ListFacts
  <2>6. TakenAreGrown'
    BY <1>3, <2>1, <2>2, <2>3, <2>5 DEF TakenAreGrown
  <2> QED BY <2>4, <2>6
<1>12. ASSUME NEW n \in DOMAIN rows, RetireExperiment(n)
       PROVE  AllHaveRows' /\ TakenAreGrown'
  <2>1. /\ rows' = [rows EXCEPT ![n].active = ~@]
        /\ stack' = IF Loaded THEN SetTop(Restored(Top, rows')) ELSE stack
        /\ ~rows[n].active => sample[rows[n].index] # "planned"
        /\ slips \cup SlipsBy(IF Loaded THEN Restored(Top, rows') ELSE Fresh(<<>>)) \subseteq slips'
        /\ plan' = plan /\ root' = root /\ sample' = sample
    BY <1>5, <1>12 DEF RetireExperiment
  <2>2. CASE ~Loaded
    BY <1>3, <2>1, <2>2, SamplesStay
  <2>3. CASE Loaded
    <3>1. Pending = {}
      BY <1>2, <2>1, Undisturbed DEF Pending
    <3>2. Used(rows) \subseteq Top.accessed
      BY <1>2, <2>3, <3>1 DEF TakenInv
    <3>3. /\ rows' \in Seq(Row) /\ Len(rows') = Len(rows) /\ n \in 1..Len(rows)
          /\ \A k \in 1..Len(rows) : rows'[k].index = rows[k].index
          /\ \A k \in 1..Len(rows) : k # n => rows'[k] = rows[k]
          /\ rows'[n].active = ~rows[n].active
      BY <1>6, <2>1, RetiredRows
    <3>4. Top'.accessed = Used(rows') \cap (0..Len(plan) - 1)
      <4>1. /\ Restored(Top, rows') \in Copy
            /\ Restored(Top, rows').accessed = Used(rows') \cap (0..Len(plan) - 1)
        BY <1>4, <2>3, <3>3, RestoredCopy
      <4>2. Top' = Restored(Top, rows')
        BY <1>2, <2>1, <2>3, <4>1, SetTopFacts
      <4> QED BY <4>1, <4>2
    <3>5. root /\ \A i \in Indices : i < Len(plan) => sample[i] # "none"
      BY <1>3, <1>4, <2>3 DEF AllHaveRows, TakenAreGrown
    <3>6. ASSUME NEW i \in Used(rows'), i < Len(plan)
          PROVE  sample[i] = "grown"
      <4>1. PICK k \in 1..Len(rows') : rows'[k].active /\ rows'[k].index = i
        BY <3>3, UsedRows
      <4>2. CASE i \in Used(rows)
        BY <1>3, <2>3, <3>2, <3>6, <4>2 DEF TakenAreGrown
      <4>3. CASE i \notin Used(rows)
        <5>1. k = n /\ ~rows[n].active /\ rows[n].index = i
          BY <1>6, <3>3, <4>1, <4>3, UsedRows
        <5>2. i \in Indices /\ sample[i] \in SampleStates
          BY <1>6, <3>3, UsedRows
        <5>3. sample[i] # "planned" /\ sample[i] # "none"
          BY <2>1, <3>5, <3>6, <5>1, <5>2
        <5> QED BY <5>2, <5>3 DEF SampleStates
      <4> QED BY <4>2, <4>3
    <3>7. AllHaveRows'
      BY <2>1, <3>5 DEF AllHaveRows
    <3>8. TakenAreGrown'
      BY <2>1, <3>4, <3>5, <3>6 DEF TakenAreGrown
    <3> QED BY <3>7, <3>8
  <2> QED BY <2>2, <2>3
<1>13. ASSUME NEW p \in Layouts, Register(p)
       PROVE  AllHaveRows' /\ TakenAreGrown'
  <2>1. /\ plan' = p /\ sample' = Planned(p, Longest) /\ root' /\ stack' = Append(stack, Fresh(p))
    BY <1>13 DEF Register
  <2>2. Fresh(p) \in Copy /\ Fresh(p).accessed = {}
    BY LayoutFacts, FreshCopy
  <2>3. Top'.accessed = {}
    BY <1>2, <2>1, <2>2, PushFacts
  <2> QED BY <2>1, <2>3, SamplesMade
<1>14. ASSUME NEW p \in Layouts, UpdateGeometry(p)
       PROVE  AllHaveRows' /\ TakenAreGrown'
  <2>1. /\ plan' = p /\ sample' = Planned(p, Longest) /\ root'
        /\ stack' = IF Loaded THEN [stack EXCEPT ![1] = Fresh(p)] ELSE stack
    BY <1>14 DEF UpdateGeometry
  <2>2. Fresh(p).accessed = {}
    BY LayoutFacts, FreshCopy
  <2>3. Loaded' => Top' = Fresh(p)
    <3>1. CASE Loaded
      <4>1. stack \in Seq(Copy)
        BY <1>2, Parts
      <4>2. Len(stack') = 1 /\ stack'[1] = Fresh(p)
        BY <1>4, <2>1, <3>1, <4>1
      <4> QED BY <4>2 DEF Top
    <3>2. CASE ~Loaded
      BY <2>1, <3>2 DEF Loaded
    <3> QED BY <3>1, <3>2
  <2> QED BY <2>1, <2>2, <2>3, SamplesMade
<1>15. ASSUME NEW p \in Layouts, NEW k \in Indices, RegisterTorn(p, k)
       PROVE  AllHaveRows' /\ TakenAreGrown'
  <2>1. ~root' /\ stack' = <<>>
    BY <1>5, <1>15 DEF RegisterTorn
  <2> QED BY <2>1 DEF AllHaveRows, TakenAreGrown, Loaded
<1>16. ASSUME NEW p \in Layouts, NEW k \in Indices, UpdateTorn(p, k)
       PROVE  FALSE
  BY <1>5, <1>16 DEF UpdateTorn
<1>17. ASSUME NEW gone \in (SUBSET Places) \ {{}}, DropPositions(gone)
       PROVE  FALSE
  BY <1>5, <1>17 DEF DropPositions
<1>18. CASE UNCHANGED vars
  BY <1>3, <1>18, SamplesStay DEF vars
<1>19. ASSUME NEW n \in DOMAIN rows, ResumeBehindRetire(n)
       PROVE  FALSE
  BY <1>5, <1>19 DEF ResumeBehindRetire
<1>20. ASSUME NEW p \in Layouts, ResumeBehindUpdate(p)
       PROVE  FALSE
  BY <1>5, <1>20 DEF ResumeBehindUpdate
<1> QED BY <1>7, <1>8, <1>9, <1>10, <1>11, <1>12, <1>13, <1>14, <1>15, <1>16, <1>17, <1>18, <1>19, <1>20
        DEF Next, Correct

-----------------------------------------------------------------------------
(* The invariant, and the properties it gives.                             *)

BookInv == TypeInv /\ WholeInv /\ PlacedInv /\ TakenInv /\ FreshInv /\ SampleInv

\* An empty database and no copy.
LEMMA InitHolds ==
    Init => BookInv
<1> SUFFICES ASSUME Init
             PROVE  BookInv
  OBVIOUS
<1>1. /\ plan = <<>> /\ rows = <<>> /\ stack = <<>> /\ root = FALSE /\ mask \in Places
      /\ spoilt = FALSE /\ slips = {}
      /\ sample = [i \in Indices |-> "none"] /\ recipe = [at |-> "idle", index |-> 0]
  BY DEF Init, NoRecipe
<1>2. recipe \in RecipeStates
  BY <1>1, Bounds DEF RecipeStates
<1>3. TypeOK
  BY <1>1, <1>2, Bounds DEF TypeOK, RecipeStates, Slips
<1>4. WholeInv
  BY <1>1 DEF WholeInv
<1>5. ~Loaded
  BY <1>1 DEF Loaded
<1> QED BY <1>1, <1>3, <1>4, <1>5
        DEF BookInv, TypeInv, PlacedInv, RowsHold, CopyHolds, RecipeHolds, TakenInv, FreshInv, SampleInv,
            AllHaveRows, TakenAreGrown

\* Each layer rests on those before it.
LEMMA NextHolds ==
    BookInv /\ [Next]_vars => BookInv'
BY TypeStep, WholeStep, PlacedStep, TakenStep, FreshStep, SampleStep DEF BookInv

\* The invariant holds throughout.
LEMMA BookAlways ==
    Spec => []BookInv
<1> QED BY InitHolds, NextHolds, PTL DEF Spec

\* manager.py and db.py: the copies, rows and states are what their types say,
\* until an operator drops positions of a loaded copy.
THEOREM SubstrateTypeCorrect == Spec => []("dropped" \notin slips => TypeOK)
<1>1. BookInv => ("dropped" \notin slips => TypeOK)
  BY DEF BookInv, TypeInv
<1> QED BY <1>1, BookAlways, PTL

\* manager.py, restore_progress, and db.py, get_used_pixel_indices: whatever
\* crashes, is resumed, corrected, given up and retired, growth goes on fresh
\* places only.
THEOREM NoSpentPixelCorrect == Spec => []NoSpentPixel
<1>1. BookInv => NoSpentPixel
  BY DEF BookInv, FreshInv, NoSpentPixel, Spared
<1> QED BY <1>1, BookAlways, PTL

\* manager.py, restore_progress and reopen_position: the cursor and the
\* positions taken agree with each other and with the rows.
THEOREM CursorAgreesCorrect == Spec => []CursorAgrees
<1>1. BookInv => CursorAgrees
  <2> SUFFICES ASSUME BookInv, Loaded
               PROVE  /\ Spared({"dropped", "gap"}) => Top.accessed = 0..Top.cur - 1
                      /\ Spared(Mistaking) => Used(rows) \subseteq Top.accessed \cup Pending
    BY DEF CursorAgrees, Pending
  <2>1. ASSUME Spared({"dropped", "gap"}) PROVE Top.accessed = 0..Top.cur - 1
    <3>1. TypeOK /\ \A n \in 1..Len(stack) : Whole(stack[n])
      BY <2>1 DEF BookInv, TypeInv, WholeInv, Spared
    <3>2. Len(stack) \in 1..Len(stack)
      BY <3>1, TopCopy, Parts
    <3> QED BY <3>1, <3>2 DEF Top, Whole
  <2> QED BY <2>1 DEF BookInv, TakenInv
<1> QED BY <1>1, BookAlways, PTL

\* db.py, update_substrate: the index of a row still names the place that was
\* grown at.
THEOREM RowsTellTruthCorrect == Spec => []RowsTellTruth
<1>1. BookInv => RowsTellTruth
  <2>1. BookInv /\ Spared(Misplacing) => RowsHold /\ DOMAIN rows = 1..Len(rows)
    BY RowFacts DEF BookInv, TypeInv, PlacedInv, Spared, Misplacing
  <2> QED BY <2>1 DEF RowsTellTruth, RowsHold
<1> QED BY <1>1, BookAlways, PTL

\* manager.py, _finish_position and _mark_grown_samples: the sample of a
\* position that is taken as finished is marked grown.
THEOREM SamplesAgreeCorrect == Spec => []SamplesAgree
<1>1. BookInv => SamplesAgree
  BY DEF BookInv, SampleInv, TakenAreGrown, SamplesAgree
<1> QED BY <1>1, BookAlways, PTL
=============================================================================
