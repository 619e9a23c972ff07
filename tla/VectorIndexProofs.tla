------------------------- MODULE VectorIndexProofs -------------------------
(***************************************************************************)
(* Theorems about VectorIndex for every number of rows and texts, every    *)
(* cutting of the texts into chunks, and any edits, builds, failures and   *)
(* kills.                                                                  *)
(***************************************************************************)
EXTENDS VectorIndex, TLAPS, FiniteSetTheorems, WellFoundedInduction

-----------------------------------------------------------------------------
\* The invariant.

\* V is one set of the chunks of the text x, each chunk once.
WholeSet(V, x) ==
    /\ \A v \in V : v.text = x /\ v.chunk \in ChunksOf(x)
    /\ \A k \in ChunksOf(x) : \E v \in V : v.chunk = k
    /\ \A v, w \in V : v.chunk = w.chunk => v = w

Fresh(r) == {v \in Of(r) : v.build = builds}
Older(r) == {v \in Of(r) : v.build # builds}
Targets == NewRows \cup Changed

At(S) == build.at \in S

\* What is inserted has a text.
TextsInv == (\A c \in build.todo : IsText(c.row)) /\ \A r \in build.ok : IsText(r)

\* Before the inserts every vector is of an earlier build.
BuildsInv ==
    /\ \A v \in vectors : v.build <= builds
    /\ At({"rows", "track", "clear", "drop"}) => \A v \in vectors : v.build < builds

\* What the run of the tool holds.
RunInv ==
    /\ At({"idle", "rows", "track"}) =>
         build.todo = {} /\ build.ok = {} /\ build.failed = {}
    /\ At({"clear"}) => build.mode = "full"
    /\ At({"drop"}) => build.mode = "plain"
    /\ build.mode = "full" => \A r \in Rows : build.known[r] = Gone
    /\ At({"clear", "drop", "insert"}) => build.changed = Changed
    /\ At({"replace"}) => build.changed \subseteq Changed
    /\ At({"drop"}) => build.drop \subseteq Left
    /\ At({"clear", "drop"}) =>
         build.todo = ChunksOfRows(Targets) /\ build.ok = {} /\ build.failed = {}
    /\ At({"insert"}) => build.todo \subseteq ChunksOfRows(Targets)
    /\ At({"insert", "replace"}) => build.ok \cup build.failed \subseteq Targets
    /\ At({"replace"}) => build.todo = {}

\* The vectors that the run inserted.
Complete(r) ==
    \A k \in ChunksOf(Text(r)) :
      \/ \E v \in Fresh(r) : v.chunk = k
      \/ [row |-> r, chunk |-> k] \in build.todo
      \/ r \in build.failed
FreshOf(r) ==
    /\ \A v \in Fresh(r) : /\ IsText(r) /\ v.text = Text(r) /\ v.chunk \in ChunksOf(Text(r))
                           /\ [row |-> r, chunk |-> v.chunk] \notin build.todo
                           /\ v.track = build.track
    /\ \A v, w \in Fresh(r) : v.chunk = w.chunk => v = w
    /\ r \in build.ok <=> Fresh(r) # {}
    /\ r \in Targets => Complete(r)
FreshInv == At({"insert", "replace"}) => \A r \in Rows : FreshOf(r)

\* What the comparison knew of a row that is whole is its text.
Settled == damaged \cup (IF At({"drop", "insert"}) THEN Left ELSE {})
KnownInv ==
    /\ At({"rows", "track", "drop"}) /\ build.mode = "plain" =>
         \A r \in Rows \ Settled : build.known[r] = seen[r]
    /\ At({"insert"}) => \A r \in Rows \ Settled : build.known[r] = seen[r]

\* The vectors of a row that is not damaged are whole, with those that wait for
\* the end of the run.
Current(r) ==
    IF At({"insert"}) THEN Older(r)
    ELSE IF At({"replace"}) /\ r \in build.changed \cap build.ok
         THEN {v \in Of(r) : v.text = Text(r)}
         ELSE Of(r)
WholeInv == \A r \in Rows \ damaged : WholeSet(Current(r), seen[r])

VectorsInv == BuildsInv /\ RunInv /\ FreshInv /\ KnownInv /\ WholeInv

\* Nothing failed: no time is in the future.
ClockInv ==
    /\ \A r \in Rows : texts[r].stamp <= edits
    /\ \A v \in vectors : v.track <= edits
    /\ build.track <= edits

\* A row has the text x, or is gone, or was written after the last stamp.
IsNoted(r, x) ==
    \/ texts[r].text \in {x, Gone}
    \/ \A v \in vectors : v.track < texts[r].stamp
SureInv == ~unsure =>
    /\ damaged = {} /\ build.failed = {}
    /\ \A r \in Rows : texts[r].text # Blank
    /\ At({"track"}) => \A r \in Rows : Text(r) # Blank
    /\ At({"idle", "rows", "track"}) => \A r \in Rows : IsNoted(r, seen[r])
    /\ At({"clear", "drop", "insert", "replace"}) => \A r \in Rows :
         /\ Text(r) # Blank /\ IsNoted(r, Text(r))
         /\ texts[r].text \in {Text(r), Gone} \/ build.track < texts[r].stamp
    /\ At({"drop"}) => \A r \in Left \ build.drop : seen[r] = Gone
    /\ At({"insert"}) => \A r \in Left : seen[r] = Gone
    /\ At({"replace"}) => \A r \in Rows : seen[r] = Text(r)

CheckInv == ClockInv /\ SureInv

-----------------------------------------------------------------------------
\* Numbers and sets.

\* A set of numbers that is not empty has a smallest one.
LEMMA Smallest ==
    ASSUME NEW S \in SUBSET Nat, S # {}
    PROVE  \E m \in S : \A n \in S : m <= n
<1> DEFINE T == {1..n : n \in S}
<1>1. IsWellFoundedOn(StrictSubsetOrdering(Nat), FiniteSubsetsOf(Nat))
  BY FS_StrictSubsetOrderingWellFounded
<1>2. \A n \in Nat : 1..n \in FiniteSubsetsOf(Nat)
  <2>1. \A n \in Nat : IsFiniteSet(1..n) /\ 1..n \subseteq Nat
    BY FS_Interval
  <2> QED BY <2>1 DEF FiniteSubsetsOf
<1>3. T \subseteq FiniteSubsetsOf(Nat) /\ T # {}
  BY <1>2
<1>4. PICK t \in T : \A u \in T : <<u, t>> \notin StrictSubsetOrdering(Nat)
  BY <1>1, <1>3, WFMin
<1>5. PICK m \in S : t = 1..m
  BY <1>4
<1>6. ASSUME NEW n \in S, n < m PROVE FALSE
  <2>1. 1..n \subseteq 1..m /\ m \in 1..m /\ m \notin 1..n
    BY <1>6
  <2>2. <<1..n, 1..m>> \in StrictSubsetOrdering(Nat)
    BY <2>1 DEF StrictSubsetOrdering
  <2> QED BY <1>4, <1>5, <2>2
<1> QED BY <1>6

\* A set of numbers up to N has a largest one, and Newest is it, or 0.
LEMMA NewestIsLargest ==
    ASSUME NEW N \in Nat, NEW S \in SUBSET (0..N)
    PROVE  /\ Newest(S) \in {0} \cup S
           /\ \A n \in S : n <= Newest(S)
<1> DEFINE T == {0} \cup S
           U == {n \in Nat : \A m \in T : m <= n}
<1>1. N \in U /\ U \subseteq Nat
  OBVIOUS
<1> HIDE DEF U
<1>2. PICK m \in U : \A n \in U : m <= n
  BY <1>1, Smallest
<1>3. m \in Nat /\ \A n \in T : n <= m
  BY <1>2 DEF U
<1>4. m \in T
  <2>1. SUFFICES ASSUME m \notin T PROVE FALSE
    OBVIOUS
  <2>2. m - 1 \in Nat /\ \A n \in T : n <= m - 1
    BY <1>3, <2>1
  <2>3. m - 1 \in U
    BY <2>2 DEF U
  <2> QED BY <1>2, <1>3, <2>3
<1>5. \E x \in T : \A y \in T : x >= y
  <2>1. T \subseteq Int
    OBVIOUS
  <2> QED BY <1>3, <1>4, <2>1
<1>6. Newest(S) \in T /\ \A y \in T : Newest(S) >= y
  BY <1>5 DEF Newest, Max
<1>7. \A n \in S : n \in Int
  OBVIOUS
<1> QED BY <1>6, <1>7

-----------------------------------------------------------------------------
\* Types.

\* Stamps and tracks stay within the bound of the clock.
LEMMA TrackType ==
    ASSUME VectorsAssumption, VectorsTypeOK
    PROVE  SourceTrack \in 0..MaxChanges /\ \A r \in Rows : texts[r].stamp <= SourceTrack
<1>1. {texts[r].stamp : r \in Rows} \subseteq 0..MaxChanges
  BY DEF VectorsTypeOK, RowContents
<1>2. SourceTrack \in {0} \cup {texts[r].stamp : r \in Rows}
      /\ \A n \in {texts[r].stamp : r \in Rows} : n <= SourceTrack
  BY <1>1, NewestIsLargest DEF SourceTrack, VectorsAssumption
<1> QED BY <1>1, <1>2 DEF VectorsAssumption

LEMMA TypeInit == ASSUME VectorsAssumption, VectorsInit PROVE VectorsTypeOK
<1>1. texts \in [Rows -> [text : Texts, stamp : {0}]] /\ edits = 0
  BY DEF VectorsInit
<1>2. texts \in [Rows -> RowContents] /\ edits \in 0..MaxChanges
  BY <1>1 DEF RowContents, VectorsAssumption
<1>3. vectors \subseteq Vectors
  <2>1. CASE vectors = {}
    BY <2>1
  <2>2. CASE vectors # {}
    <3>1. SUFFICES ASSUME NEW r \in Rows, NEW c \in ChunksOf(texts[r].text)
                   PROVE  [row |-> r, text |-> texts[r].text, chunk |-> c, track |-> 0,
                           build |-> 0] \in Vectors
      BY <2>2 DEF VectorsInit
    <3> QED BY <1>1, <3>1 DEF Vectors, ChunksOf, VectorsAssumption
  <2> QED BY <2>1, <2>2
<1>4. seen \in [Rows -> Texts \cup {Gone}]
  BY <1>1 DEF VectorsInit
<1>5. build \in Builds
  BY DEF VectorsInit, Builds, NoBuild, RowContents, VectorsAssumption
<1>6. builds = 0 /\ slips = 0 /\ damaged = {} /\ unsure \in BOOLEAN /\ copied = {}
      /\ indexed = {} /\ dirty \in BOOLEAN /\ query = {} /\ hits = {}
  BY Zenon DEF VectorsInit
<1>7. builds \in 0..MaxBuilds /\ slips \in 0..MaxSlips
  BY <1>6 DEF VectorsAssumption
<1> QED BY <1>2, <1>3, <1>4, <1>5, <1>6, <1>7 DEF VectorsTypeOK

LEMMA NoBuildType == ASSUME VectorsAssumption PROVE NoBuild \in Builds
BY DEF VectorsAssumption, NoBuild, Builds, RowContents

LEMMA ChunksType == ASSUME VectorsAssumption, VectorsTypeOK, NEW S \in SUBSET Rows
    PROVE  ChunksOfRows(S) \in SUBSET [row : Rows, chunk : {1, 2}]
BY DEF ChunksOfRows, ChunksOf

\* A step of the tool leaves the table and the store alone.
LEMMA ToolType ==
    ASSUME VectorsAssumption, VectorsTypeOK, UNCHANGED <<table, store, builds>>,
           build' \in Builds, vectors' \subseteq Vectors, seen' \in [Rows -> Texts \cup {Gone}],
           damaged' \subseteq Rows, unsure' \in BOOLEAN, Slip \/ UNCHANGED slips
    PROVE  VectorsTypeOK'
BY DEF VectorsAssumption, VectorsTypeOK, Slip, table, store, memory, search

LEMMA TypeTool ==
    ASSUME VectorsAssumption, VectorsTypeOK, TextsInv, Tool \/ KillBuild
    PROVE  VectorsTypeOK'
<1> USE DEF VectorsAssumption
<1>0. build \in Builds
  BY DEF VectorsTypeOK
<1>1. CASE SkipBuild
  BY <1>1 DEF SkipBuild, table, result, store, memory, search, VectorsTypeOK
<1>2. ASSUME NEW mode \in {"plain", "full"}, NEW check \in BOOLEAN, BeginBuild(mode, check)
      PROVE  VectorsTypeOK'
  <2>1. build' \in Builds
    BY <1>2, NoBuildType DEF BeginBuild, Builds, NoBuild
  <2> QED BY <1>2, <2>1 DEF BeginBuild, table, result, store, memory, search, VectorsTypeOK
<1>3. CASE ReadRows
  <2>1. build' \in Builds
    BY <1>0, <1>3 DEF ReadRows, Builds, VectorsTypeOK
  <2> QED BY <1>3, <2>1 DEF ReadRows, table, result, store, memory, search, VectorsTypeOK
<1>4. CASE ReadTrack
  <2>1. SourceTrack \in 0..MaxChanges
    BY TrackType
  <2>2. Left \in SUBSET Rows /\ Changed \in SUBSET Rows /\ NewRows \in SUBSET Rows
    BY DEF Left, Changed, NewRows
  <2>3. ChunksOfRows(NewRows \cup Changed) \in SUBSET [row : Rows, chunk : {1, 2}]
    BY <2>2, ChunksType
  <2>4. build' \in Builds
    <3>1. CASE build' = NoBuild
      BY <3>1, NoBuildType
    <3>2. ASSUME NEW place \in {"clear", "drop"},
                 build' = [build EXCEPT !.at = place, !.track = SourceTrack, !.drop = Left,
                             !.changed = Changed, !.todo = ChunksOfRows(NewRows \cup Changed)]
          PROVE  build' \in Builds
      BY <1>0, <2>1, <2>2, <2>3, <3>2 DEF Builds
    <3> QED BY <1>4, <3>1, <3>2 DEF ReadTrack, EndBuild
  <2> QED BY <1>4, <2>4 DEF ReadTrack, table, store, memory, search, VectorsTypeOK
<1>5. CASE Clear
  <2>1. build' \in Builds
    BY <1>0, <1>5 DEF Clear, Builds
  <2>2. vectors' \subseteq Vectors /\ damaged' \subseteq Rows
    BY <1>5 DEF Clear, VectorsTypeOK, Vectors
  <2>3. seen' \in [Rows -> Texts \cup {Gone}]
    BY <1>5 DEF Clear, VectorsTypeOK
  <2>4. unsure' \in BOOLEAN /\ (Slip \/ UNCHANGED slips) /\ UNCHANGED <<table, store,
                                                                        builds>>
    BY <1>5 DEF Clear, VectorsTypeOK
  <2> QED BY <2>1, <2>2, <2>3, <2>4, ToolType
<1>6. CASE Dropped
  <2>1. build' \in Builds
    BY <1>0, <1>6, NoBuildType DEF Dropped, EndBuild, Builds
  <2> QED BY <1>6, <2>1 DEF Dropped, table, result, store, memory, search, VectorsTypeOK
<1>7. CASE Insert
  <2>1. PICK c \in build.todo :
          \/ /\ vectors' = vectors \cup
                  {[row |-> c.row, text |-> Text(c.row), chunk |-> c.chunk,
                    track |-> build.track, build |-> builds]}
             /\ build' = [build EXCEPT !.todo = @ \ {c}, !.ok = @ \cup {c.row}]
             /\ UNCHANGED <<slips, unsure>>
          \/ /\ Slip /\ unsure' = TRUE
             /\ build' = [build EXCEPT !.todo = @ \ {c}, !.failed = @ \cup {c.row}]
             /\ UNCHANGED vectors
    BY <1>7 DEF Insert
  <2>2. c.row \in Rows /\ c.chunk \in {1, 2}
    BY <1>0 DEF Builds
  <2>3. build' \in Builds
    <3>1. build.todo \ {c} \in SUBSET [row : Rows, chunk : {1, 2}]
          /\ build.ok \cup {c.row} \in SUBSET Rows /\ build.failed \cup {c.row} \in SUBSET Rows
      BY <1>0, <2>2 DEF Builds
    <3>2. [build EXCEPT !.todo = @ \ {c}, !.ok = @ \cup {c.row}] \in Builds
      BY <1>0, <3>1 DEF Builds
    <3>3. [build EXCEPT !.todo = @ \ {c}, !.failed = @ \cup {c.row}] \in Builds
      BY <1>0, <3>1 DEF Builds
    <3> QED BY <2>1, <3>2, <3>3
  <2>4. At({"insert"}) /\ UNCHANGED <<table, seen, damaged, builds, store>>
    BY <1>7 DEF Insert, At
  <2>5. vectors' \subseteq Vectors
    <3>1. Text(c.row) \in Texts
      BY <2>1 DEF TextsInv, IsText
    <3> QED BY <1>0, <2>1, <2>2, <3>1 DEF VectorsTypeOK, Vectors, Builds
  <2>6. unsure' \in BOOLEAN /\ (Slip \/ UNCHANGED slips)
    BY <2>1 DEF VectorsTypeOK
  <2> QED BY <2>3, <2>4, <2>5, <2>6, ToolType DEF VectorsTypeOK
<1>8. CASE Inserted
  <2>1. build' \in Builds
    BY <1>0, <1>8 DEF Inserted, Builds
  <2>2. seen' \in [Rows -> Texts \cup {Gone}] /\ damaged' \subseteq Rows
    BY <1>0, <1>8 DEF Inserted, VectorsTypeOK, Builds, TextsInv, IsText
  <2>3. UNCHANGED <<table, vectors, unsure, builds, store, slips>>
    BY <1>8 DEF Inserted
  <2> QED BY <2>1, <2>2, <2>3, ToolType DEF VectorsTypeOK
<1>9. ASSUME NEW r \in Rows, Drop(r) PROVE VectorsTypeOK'
  <2>1. build' \in Builds
    BY <1>0, <1>9 DEF Drop, Builds
  <2>2. vectors' \subseteq Vectors /\ damaged' \subseteq Rows
    BY <1>9 DEF Drop, VectorsTypeOK
  <2>3. seen' \in [Rows -> Texts \cup {Gone}]
    BY <1>9 DEF Drop, VectorsTypeOK
  <2>4. unsure' \in BOOLEAN /\ (Slip \/ UNCHANGED slips) /\ UNCHANGED <<table, builds,
                                                                        store>>
    BY <1>9 DEF Drop, VectorsTypeOK
  <2> QED BY <2>1, <2>2, <2>3, <2>4, ToolType
<1>10. ASSUME NEW r \in Rows, Replace(r) PROVE VectorsTypeOK'
  <2>1. build' \in Builds
    BY <1>0, <1>10 DEF Replace, Builds
  <2>2. vectors' \subseteq Vectors /\ damaged' \subseteq Rows
    BY <1>10 DEF Replace, Kept, VectorsTypeOK
  <2>3. unsure' \in BOOLEAN /\ (Slip \/ UNCHANGED slips)
        /\ UNCHANGED <<table, seen, builds, store>>
    BY <1>10 DEF Replace, VectorsTypeOK
  <2> QED BY <2>1, <2>2, <2>3, ToolType DEF VectorsTypeOK
<1>11. CASE Finish
  BY <1>11, NoBuildType DEF Finish, EndBuild, table, result, store, memory, search, VectorsTypeOK
<1>12. CASE KillBuild
  BY <1>0, <1>12, NoBuildType
     DEF KillBuild, EndBuild, Slip, Builds, table, store, memory, search, VectorsTypeOK
<1> QED BY <1>1, <1>2, <1>3, <1>4, <1>5, <1>6, <1>7, <1>8, <1>9, <1>10, <1>11, <1>12 DEF Tool

-----------------------------------------------------------------------------
\* The vectors of a row.

LEMMA ChunksOfText ==
    ASSUME NEW x \in Texts \cup {Gone}
    PROVE  (x = Gone <=> ChunksOf(x) = {}) /\ (x \in Texts => 1 \in ChunksOf(x))
BY DEF ChunksOf, Texts, Gone

LEMMA TextsAreText == ASSUME RunInv, VectorsTypeOK PROVE TextsInv
<1>1. build.at \in {"idle", "rows", "track", "clear", "drop", "insert", "replace"}
  BY DEF VectorsTypeOK, Builds
<1>2. \A r \in Targets : IsText(r)
  BY DEF Targets, NewRows, Changed
<1>3. \A c \in ChunksOfRows(Targets) : c.row \in Targets
  BY DEF ChunksOfRows
<1>4. build.todo \subseteq ChunksOfRows(Targets) /\ build.ok \subseteq Targets
  BY <1>1 DEF RunInv, At
<1> QED BY <1>2, <1>3, <1>4 DEF TextsInv

\* An empty set is whole for no text only.
LEMMA EmptyIsWhole ==
    ASSUME NEW x \in Texts \cup {Gone}
    PROVE  WholeSet({}, x) <=> x = Gone
BY ChunksOfText DEF WholeSet

LEMMA SkipKeeps == ASSUME VectorsTypeOK, VectorsInv, SkipBuild PROVE VectorsInv'
<1>1. UNCHANGED <<vectors, build, seen, damaged>> /\ builds' = builds + 1 /\ build.at = "idle"
  BY DEF SkipBuild, result
<1>2. builds \in Int /\ \A v \in vectors : v.build \in Int
  BY DEF VectorsTypeOK, Vectors
<1>3. BuildsInv'
  BY <1>1, <1>2 DEF VectorsInv, BuildsInv, At
<1>4. RunInv' /\ FreshInv' /\ KnownInv'
  BY <1>1 DEF VectorsInv, RunInv, FreshInv, KnownInv, At
<1>5. WholeInv'
  BY <1>1 DEF VectorsInv, WholeInv, Current, At, Of
<1> QED BY <1>3, <1>4, <1>5 DEF VectorsInv

LEMMA BeginKeeps ==
    ASSUME VectorsTypeOK, VectorsInv, NEW mode \in {"plain", "full"}, NEW check,
           BeginBuild(mode, check)
    PROVE  VectorsInv'
<1>1. PICK known \in [Rows -> Texts \cup {Gone}] :
         /\ \A r \in Rows :
              IF mode = "full" \/ Of(r) = {} THEN known[r] = Gone
              ELSE known[r] \in {v.text : v \in Of(r)}
         /\ build' = [NoBuild EXCEPT !.at = "rows", !.mode = mode, !.known = known]
  BY DEF BeginBuild
<1>2. /\ build'.at = "rows" /\ build'.mode = mode /\ build'.known = known
      /\ build'.todo = {} /\ build'.ok = {} /\ build'.failed = {}
  BY <1>1 DEF NoBuild
<1> HIDE DEF NoBuild
<1>3. UNCHANGED <<vectors, seen, damaged>> /\ builds' = builds + 1 /\ build.at = "idle"
  BY DEF BeginBuild, result
<1>4. builds \in Int /\ \A v \in vectors : v.build \in Int
  BY DEF VectorsTypeOK, Vectors
<1>5. BuildsInv'
  BY <1>3, <1>4 DEF VectorsInv, BuildsInv, At
<1>6. RunInv'
  BY <1>1, <1>2 DEF RunInv, At
<1>7. FreshInv'
  BY <1>2 DEF FreshInv, At
<1>8. WholeInv /\ \A r \in Rows \ damaged : WholeSet(Of(r), seen[r])
  BY <1>3 DEF VectorsInv, WholeInv, Current, At
<1>9. KnownInv'
  <2>1. SUFFICES ASSUME mode = "plain", NEW r \in Rows \ damaged
                 PROVE  known[r] = seen[r]
    BY <1>2, <1>3 DEF KnownInv, At, Settled
  <2>2. seen[r] \in Texts \cup {Gone} /\ WholeSet(Of(r), seen[r])
    BY <1>8 DEF VectorsTypeOK
  <2>3. CASE Of(r) = {}
    <3>1. seen[r] = Gone
      BY <2>2, <2>3, EmptyIsWhole
    <3> QED BY <1>1, <2>3, <3>1
  <2>4. CASE Of(r) # {}
    BY <1>1, <2>1, <2>2, <2>4 DEF WholeSet
  <2> QED BY <2>3, <2>4
<1>10. WholeInv'
  BY <1>2, <1>3, <1>8 DEF WholeInv, Current, At, Of
<1> QED BY <1>5, <1>6, <1>7, <1>9, <1>10 DEF VectorsInv

\* The run ends, and what it did not replace is forgotten.
LEMMA EndKeeps ==
    ASSUME VectorsTypeOK, VectorsInv, EndBuild, UNCHANGED <<vectors, seen, builds>>,
           damaged \subseteq damaged', \A r \in Rows \ damaged' : Current(r) = Of(r)
    PROVE  VectorsInv'
<1>1. /\ build'.at = "idle" /\ build'.mode = "plain" /\ build'.todo = {}
      /\ build'.ok = {} /\ build'.failed = {}
  BY DEF EndBuild, NoBuild
<1>2. BuildsInv'
  BY <1>1 DEF VectorsInv, BuildsInv, At
<1>3. RunInv' /\ FreshInv' /\ KnownInv'
  BY <1>1 DEF RunInv, FreshInv, KnownInv, At
<1>4. WholeInv'
  BY <1>1 DEF VectorsInv, WholeInv, Current, At, Of
<1> QED BY <1>2, <1>3, <1>4 DEF VectorsInv

LEMMA ReadRowsKeeps == ASSUME VectorsTypeOK, VectorsInv, ReadRows PROVE VectorsInv'
<1>1. /\ build'.at = "track" /\ build'.mode = build.mode /\ build'.known = build.known
      /\ build'.todo = build.todo /\ build'.ok = build.ok /\ build'.failed = build.failed
      /\ build.at = "rows" /\ UNCHANGED <<vectors, seen, damaged, builds>>
  BY DEF ReadRows, result, VectorsTypeOK, Builds
<1>2. BuildsInv' /\ RunInv' /\ FreshInv'
  BY <1>1 DEF VectorsInv, BuildsInv, RunInv, FreshInv, At
<1>3. KnownInv'
  BY <1>1 DEF VectorsInv, KnownInv, At, Settled
<1>4. WholeInv'
  BY <1>1 DEF VectorsInv, WholeInv, Current, At, Of
<1> QED BY <1>2, <1>3, <1>4 DEF VectorsInv

\* While what was known and read stays, so does the comparison.
LEMMA ComparedStays ==
    ASSUME build'.known = build.known, build'.read = build.read
    PROVE  /\ NewRows' = NewRows /\ Changed' = Changed /\ Left' = Left /\ Targets' = Targets
           /\ \A r \in Rows : Text(r)' = Text(r) /\ (IsText(r)' <=> IsText(r))
           /\ ChunksOfRows(Targets)' = ChunksOfRows(Targets)
BY DEF NewRows, Changed, Left, Targets, Text, IsText, ChunksOfRows

LEMMA ReadTrackKeeps == ASSUME VectorsTypeOK, VectorsInv, ReadTrack PROVE VectorsInv'
<1>1. build.at = "track" /\ UNCHANGED <<vectors, seen, damaged, builds>>
  BY DEF ReadTrack
<1>2. CASE EndBuild
  BY <1>1, <1>2, EndKeeps DEF Current, At
<1>3. CASE build' = [build EXCEPT
              !.at = IF build.mode = "full" THEN "clear" ELSE "drop",
              !.track = SourceTrack, !.drop = Left, !.changed = Changed,
              !.todo = ChunksOfRows(NewRows \cup Changed)]
  <2>1. /\ build'.at = IF build.mode = "full" THEN "clear" ELSE "drop"
        /\ build'.mode = build.mode /\ build'.known = build.known /\ build'.read = build.read
        /\ build'.drop = Left /\ build'.changed = Changed
        /\ build'.todo = ChunksOfRows(Targets)
        /\ build'.ok = build.ok /\ build'.failed = build.failed
    BY <1>3 DEF VectorsTypeOK, Builds, Targets
  <2>2. build.mode \in {"plain", "full"}
    BY DEF VectorsTypeOK, Builds
  <2>3. NewRows' = NewRows /\ Changed' = Changed /\ Left' = Left /\ Targets' = Targets
        /\ ChunksOfRows(Targets)' = ChunksOfRows(Targets)
    BY <2>1, ComparedStays
  <2>4. BuildsInv'
    BY <1>1, <2>1 DEF VectorsInv, BuildsInv, At
  <2>5. RunInv'
    BY <1>1, <2>1, <2>2, <2>3 DEF VectorsInv, RunInv, At
  <2>6. FreshInv'
    BY <2>1, <2>2 DEF FreshInv, At
  <2>7. KnownInv'
    BY <1>1, <2>1, <2>2, <2>3 DEF VectorsInv, KnownInv, At, Settled
  <2>8. WholeInv'
    BY <1>1, <2>1, <2>2 DEF VectorsInv, WholeInv, Current, At, Of
  <2> QED BY <2>4, <2>5, <2>6, <2>7, <2>8 DEF VectorsInv
<1> QED BY <1>2, <1>3 DEF ReadTrack

\* The inserts begin; there is no vector of this run yet.
LEMMA InsertsBegin ==
    ASSUME VectorsTypeOK, VectorsInv, At({"clear", "drop"}),
           build' = [build EXCEPT !.at = "insert"], UNCHANGED builds,
           vectors' \subseteq vectors,
           \A r \in Rows \ damaged' : WholeSet(Of(r)', seen'[r]),
           \A r \in Rows \ Settled' : build.known[r] = seen'[r]
    PROVE  VectorsInv'
<1>1. /\ build'.at = "insert" /\ build'.mode = build.mode /\ build'.known = build.known
      /\ build'.read = build.read /\ build'.changed = build.changed
      /\ build'.todo = ChunksOfRows(Targets) /\ build'.ok = {} /\ build'.failed = {}
  BY DEF VectorsTypeOK, Builds, VectorsInv, RunInv, At
<1>2. /\ NewRows' = NewRows /\ Changed' = Changed /\ Left' = Left /\ Targets' = Targets
      /\ ChunksOfRows(Targets)' = ChunksOfRows(Targets)
  BY <1>1, ComparedStays
<1>3. builds \in Int /\ \A v \in vectors' : v.build \in Int /\ v.build < builds
  BY DEF VectorsTypeOK, Vectors, VectorsInv, BuildsInv, At
<1>4. \A r \in Rows : Fresh(r)' = {} /\ Older(r)' = Of(r)'
  BY <1>3 DEF Fresh, Older, Of
<1>5. BuildsInv'
  BY <1>1, <1>3 DEF BuildsInv, At
<1>6. RunInv'
  BY <1>1, <1>2 DEF VectorsInv, RunInv, At
<1>7. FreshInv'
  <2>1. \A r \in Targets : \A k \in ChunksOf(Text(r)) :
          [row |-> r, chunk |-> k] \in ChunksOfRows(Targets)
    BY DEF ChunksOfRows
  <2>2. \A r \in Targets : Complete(r)'
    BY <1>1, <1>2, <2>1 DEF Complete, ChunksOf, Text
  <2> QED BY <1>1, <1>2, <1>4, <2>2 DEF FreshInv, FreshOf, At
<1>8. KnownInv'
  BY <1>1 DEF KnownInv, At
<1>9. WholeInv'
  BY <1>1, <1>4 DEF WholeInv, Current, At
<1> QED BY <1>5, <1>6, <1>7, <1>8, <1>9 DEF VectorsInv

LEMMA ClearKeeps == ASSUME VectorsTypeOK, VectorsInv, Clear PROVE VectorsInv'
<1>1. /\ build.at = "clear" /\ build' = [build EXCEPT !.at = "insert"] /\ UNCHANGED builds
  BY DEF Clear
<1>2. \A r \in Rows : build.known[r] = Gone
  BY <1>1 DEF VectorsInv, RunInv, At
<1>3. Settled' = damaged' \cup Left /\ At({"clear", "drop"})
  <2>1. build'.at = "insert" /\ build'.known = build.known /\ build'.read = build.read
    BY <1>1 DEF VectorsTypeOK, Builds
  <2> QED BY <1>1, <2>1, ComparedStays DEF Settled, At
<1>4. CASE vectors' = {} /\ damaged' = {} /\ seen' = [r \in Rows |-> Gone]
  <2>1. \A r \in Rows : Of(r)' = {} /\ WholeSet({}, Gone)
    BY <1>4, EmptyIsWhole DEF Of
  <2> QED BY <1>1, <1>2, <1>3, <1>4, <2>1, InsertsBegin
<1>5. CASE UNCHANGED <<vectors, seen>> /\ damaged' = damaged \cup {v.row : v \in vectors}
  <2>1. ASSUME NEW r \in Rows \ damaged' PROVE WholeSet(Of(r)', seen'[r]) /\ seen'[r] = Gone
    <3>1. Of(r) = {} /\ Of(r)' = {}
      BY <1>5, <2>1 DEF Of
    <3>2. WholeSet(Of(r), seen[r])
      BY <1>1, <1>5, <2>1 DEF VectorsInv, WholeInv, Current, At
    <3>3. seen[r] \in Texts \cup {Gone}
      BY DEF VectorsTypeOK
    <3> QED BY <1>5, <3>1, <3>2, <3>3, EmptyIsWhole
  <2> QED BY <1>1, <1>2, <1>3, <1>5, <2>1, InsertsBegin
<1> QED BY <1>4, <1>5 DEF Clear

LEMMA DroppedKeeps == ASSUME VectorsTypeOK, VectorsInv, Dropped PROVE VectorsInv'
<1>1. build.at = "drop" /\ UNCHANGED <<vectors, seen, damaged, builds>>
  BY DEF Dropped, result
<1>2. CASE EndBuild
  BY <1>1, <1>2, EndKeeps DEF Current, At
<1>3. CASE build' = [build EXCEPT !.at = "insert"]
  <2>1. build'.at = "insert" /\ build'.known = build.known /\ build'.read = build.read
    BY <1>3 DEF VectorsTypeOK, Builds
  <2>2. Settled' = Settled /\ At({"clear", "drop"})
    BY <1>1, <2>1, ComparedStays DEF Settled, At
  <2>3. \A r \in Rows \ Settled : build.known[r] = seen[r]
    BY <1>1 DEF VectorsInv, KnownInv, RunInv, At
  <2>4. \A r \in Rows \ damaged : WholeSet(Of(r), seen[r]) /\ Of(r)' = Of(r)
    BY <1>1 DEF VectorsInv, WholeInv, Current, At, Of
  <2> QED BY <1>1, <1>3, <2>2, <2>3, <2>4, InsertsBegin
<1> QED BY <1>2, <1>3 DEF Dropped

LEMMA DropKeeps == ASSUME VectorsTypeOK, VectorsInv, NEW r \in Rows, Drop(r) PROVE VectorsInv'
<1>1. /\ build.at = "drop" /\ r \in build.drop /\ UNCHANGED builds
      /\ build'.at = "drop" /\ build'.mode = build.mode /\ build'.known = build.known
      /\ build'.read = build.read /\ build'.changed = build.changed
      /\ build'.todo = build.todo /\ build'.ok = build.ok /\ build'.failed = build.failed
      /\ build'.drop = build.drop \ {r}
  BY DEF Drop, VectorsTypeOK, Builds
<1>2. /\ NewRows' = NewRows /\ Changed' = Changed /\ Left' = Left /\ Targets' = Targets
      /\ ChunksOfRows(Targets)' = ChunksOfRows(Targets)
  BY <1>1, ComparedStays
<1>3. vectors' \subseteq vectors
  BY DEF Drop
<1>4. BuildsInv'
  BY <1>1, <1>3 DEF VectorsInv, BuildsInv, At
<1>5. RunInv'
  BY <1>1, <1>2 DEF VectorsInv, RunInv, At
<1>6. FreshInv'
  BY <1>1 DEF FreshInv, At
<1>7. r \in Left
  BY <1>1 DEF VectorsInv, RunInv, At
<1>8. CASE /\ vectors' = vectors \ Of(r)
           /\ damaged' = damaged \ {r} /\ seen' = [seen EXCEPT ![r] = Gone]
  <2>1. seen'[r] = Gone /\ \A s \in Rows \ {r} : seen'[s] = seen[s]
    BY <1>8 DEF VectorsTypeOK
  <2>2. KnownInv'
    BY <1>1, <1>2, <1>7, <1>8, <2>1 DEF VectorsInv, KnownInv, At, Settled
  <2>3. Of(r)' = {} /\ \A s \in Rows \ {r} : Of(s)' = Of(s)
    BY <1>8 DEF Of
  <2>4. WholeInv'
    <3>1. SUFFICES ASSUME NEW s \in Rows \ damaged' PROVE WholeSet(Of(s)', seen'[s])
      BY <1>1 DEF WholeInv, Current, At
    <3>2. CASE s = r
      BY <2>1, <2>3, <3>2, EmptyIsWhole
    <3>3. CASE s # r
      BY <1>1, <1>8, <2>1, <2>3, <3>3 DEF VectorsInv, WholeInv, Current, At
    <3> QED BY <3>2, <3>3
  <2> QED BY <1>4, <1>5, <1>6, <2>2, <2>4 DEF VectorsInv
<1>9. CASE UNCHANGED <<vectors, seen, damaged>>
  <2>1. KnownInv'
    BY <1>1, <1>2, <1>9 DEF VectorsInv, KnownInv, At, Settled
  <2>2. WholeInv'
    BY <1>1, <1>9 DEF VectorsInv, WholeInv, Current, At, Of
  <2> QED BY <1>4, <1>5, <1>6, <2>1, <2>2 DEF VectorsInv
<1> QED BY <1>8, <1>9 DEF Drop

\* A chunk that waits is one of its row's text.
LEMMA TodoIsChunk ==
    ASSUME VectorsTypeOK, RunInv, At({"insert"}), NEW c \in build.todo
    PROVE  /\ c.row \in Targets /\ c.row \in Rows /\ c.chunk \in ChunksOf(Text(c.row))
           /\ c = [row |-> c.row, chunk |-> c.chunk]
<1>1. c \in ChunksOfRows(Targets)
  BY DEF RunInv, At
<1>2. PICK r \in Targets : c \in {[row |-> r, chunk |-> k] : k \in ChunksOf(Text(r))}
  BY <1>1 DEF ChunksOfRows
<1>3. PICK k \in ChunksOf(Text(r)) : c = [row |-> r, chunk |-> k]
  BY <1>2
<1> QED BY <1>2, <1>3 DEF Targets, NewRows, Changed

LEMMA InsertKeeps == ASSUME VectorsTypeOK, VectorsInv, Insert PROVE VectorsInv'
<1>1. PICK c \in build.todo :
        \/ /\ vectors' = vectors \cup
                {[row |-> c.row, text |-> Text(c.row), chunk |-> c.chunk,
                  track |-> build.track, build |-> builds]}
           /\ build' = [build EXCEPT !.todo = @ \ {c}, !.ok = @ \cup {c.row}]
        \/ /\ build' = [build EXCEPT !.todo = @ \ {c}, !.failed = @ \cup {c.row}]
           /\ UNCHANGED vectors
  BY DEF Insert
<1>2. build.at = "insert" /\ At({"insert"}) /\ UNCHANGED <<seen, damaged, builds>>
  BY DEF Insert, At
<1> DEFINE s == c.row
<1>3. /\ s \in Targets /\ s \in Rows /\ c.chunk \in ChunksOf(Text(s))
      /\ c = [row |-> s, chunk |-> c.chunk]
  BY <1>2, TodoIsChunk DEF VectorsInv
<1>4. /\ build'.at = "insert" /\ build'.mode = build.mode /\ build'.known = build.known
      /\ build'.read = build.read /\ build'.changed = build.changed
      /\ build'.track = build.track /\ build'.todo = build.todo \ {c}
  BY <1>1, <1>2 DEF VectorsTypeOK, Builds
<1>5. /\ NewRows' = NewRows /\ Changed' = Changed /\ Left' = Left /\ Targets' = Targets
      /\ ChunksOfRows(Targets)' = ChunksOfRows(Targets)
  BY <1>4, ComparedStays
<1>6. Settled' = Settled
  BY <1>2, <1>4, <1>5 DEF Settled, At
<1>7. KnownInv'
  BY <1>2, <1>4, <1>6 DEF VectorsInv, KnownInv, At
<1>8. builds \in Nat /\ \A v \in vectors : v.build \in Nat
  BY DEF VectorsTypeOK, Vectors
<1>9. \A r \in Rows : FreshOf(r)
  BY <1>2 DEF VectorsInv, FreshInv, At
<1>10. ASSUME vectors' = vectors \cup
                {[row |-> c.row, text |-> Text(c.row), chunk |-> c.chunk,
                  track |-> build.track, build |-> builds]},
              build' = [build EXCEPT !.todo = @ \ {c}, !.ok = @ \cup {c.row}]
       PROVE  VectorsInv'
  <2> DEFINE u == [row |-> s, text |-> Text(s), chunk |-> c.chunk,
                   track |-> build.track, build |-> builds]
  <2>1. build'.ok = build.ok \cup {s} /\ build'.failed = build.failed
    BY <1>10 DEF VectorsTypeOK, Builds
  <2>2. PICK w : w = u
    OBVIOUS
  <2>3. /\ vectors' = vectors \cup {w} /\ w.row = s /\ w.text = Text(s)
        /\ w.chunk = c.chunk /\ w.build = builds /\ w.track = build.track
    BY <1>10, <2>2
  <2> HIDE DEF u
  <2>4. Fresh(s)' = Fresh(s) \cup {w} /\ \A r \in Rows \ {s} : Fresh(r)' = Fresh(r)
    BY <1>2, <2>3 DEF Fresh, Of
  <2>5. \A r \in Rows : Older(r)' = Older(r)
    BY <1>2, <2>3 DEF Older, Of
  <2>6. BuildsInv'
    BY <1>2, <1>4, <1>8, <2>3 DEF VectorsInv, BuildsInv, At
  <2>7. RunInv'
    BY <1>2, <1>3, <1>4, <1>5, <2>1 DEF VectorsInv, RunInv, At
  <2>8. WholeInv'
    BY <1>2, <1>4, <2>5 DEF VectorsInv, WholeInv, Current, At
  <2>9. FreshInv'
    <3>1. ASSUME NEW r \in Rows
          PROVE  \A v \in Fresh(r)' :
                   /\ IsText(r) /\ v.text = Text(r) /\ v.chunk \in ChunksOf(Text(r))
                   /\ [row |-> r, chunk |-> v.chunk] \notin build'.todo
                   /\ v.track = build.track
      <4>1. CASE r # s
        BY <1>2, <1>4, <1>9, <2>4, <4>1 DEF FreshOf
      <4>2. CASE r = s
        <5>1. IsText(s)
          BY <1>3 DEF Targets, NewRows, Changed
        <5> QED BY <1>2, <1>3, <1>4, <1>9, <2>3, <2>4, <4>2, <5>1 DEF FreshOf
      <4> QED BY <4>1, <4>2
    <3>2. ASSUME NEW r \in Rows
          PROVE  \A v, x \in Fresh(r)' : v.chunk = x.chunk => v = x
      <4>1. CASE r # s
        BY <1>2, <1>9, <2>4, <4>1 DEF FreshOf
      <4>2. CASE r = s
        <5>1. \A v \in Fresh(s) : v.chunk # c.chunk
          BY <1>2, <1>3, <1>9 DEF FreshOf
        <5>2. \A v, x \in Fresh(s) : v.chunk = x.chunk => v = x
          BY <1>2, <1>3, <1>9 DEF FreshOf
        <5> QED BY <2>3, <2>4, <4>2, <5>1, <5>2
      <4> QED BY <4>1, <4>2
    <3>3. ASSUME NEW r \in Rows PROVE r \in build'.ok <=> Fresh(r)' # {}
      BY <1>2, <1>9, <2>1, <2>4 DEF FreshOf
    <3>4. ASSUME NEW r \in Targets PROVE Complete(r)'
      <4>1. r \in Rows
        BY DEF Targets, NewRows, Changed
      <4>2. Complete(r)
        BY <1>2, <1>9, <4>1 DEF FreshOf
      <4>3. ASSUME NEW k \in ChunksOf(Text(r))
            PROVE  \/ \E v \in Fresh(r)' : v.chunk = k
                   \/ [row |-> r, chunk |-> k] \in build'.todo
                   \/ r \in build'.failed
        <5>1. CASE [row |-> r, chunk |-> k] = c
          <6>1. r = s /\ k = c.chunk
            BY <5>1
          <6> QED BY <2>3, <2>4, <6>1
        <5>2. CASE [row |-> r, chunk |-> k] # c
          BY <1>4, <2>1, <2>4, <4>1, <4>2, <5>2 DEF Complete
        <5> QED BY <5>1, <5>2
      <4> QED BY <1>4, <4>3 DEF Complete, Text
    <3> QED BY <1>4, <1>5, <3>1, <3>2, <3>3, <3>4 DEF FreshInv, FreshOf, Text, IsText, At
  <2> QED BY <1>7, <2>6, <2>7, <2>8, <2>9 DEF VectorsInv
<1>11. ASSUME build' = [build EXCEPT !.todo = @ \ {c}, !.failed = @ \cup {c.row}],
              UNCHANGED vectors
       PROVE  VectorsInv'
  <2>1. build'.ok = build.ok /\ build'.failed = build.failed \cup {s}
    BY <1>11 DEF VectorsTypeOK, Builds
  <2>2. \A r \in Rows : Fresh(r)' = Fresh(r) /\ Older(r)' = Older(r)
    BY <1>2, <1>11 DEF Fresh, Older, Of
  <2>3. BuildsInv'
    BY <1>2, <1>4, <1>11 DEF VectorsInv, BuildsInv, At
  <2>4. RunInv'
    BY <1>2, <1>3, <1>4, <1>5, <2>1 DEF VectorsInv, RunInv, At
  <2>5. WholeInv'
    BY <1>2, <1>4, <2>2 DEF VectorsInv, WholeInv, Current, At
  <2>6. FreshInv'
    <3>1. ASSUME NEW r \in Targets PROVE Complete(r)'
      <4>1. r \in Rows
        BY DEF Targets, NewRows, Changed
      <4>2. Complete(r)
        BY <1>2, <1>9, <4>1 DEF FreshOf
      <4>3. \A k : [row |-> r, chunk |-> k] = c => r = s
        OBVIOUS
      <4>4. \A k \in ChunksOf(Text(r)) :
              \/ \E v \in Fresh(r)' : v.chunk = k
              \/ [row |-> r, chunk |-> k] \in build'.todo
              \/ r \in build'.failed
        BY <1>4, <2>1, <2>2, <4>1, <4>2, <4>3 DEF Complete
      <4> QED BY <1>4, <4>4 DEF Complete, Text
    <3> QED BY <1>2, <1>4, <1>5, <1>9, <2>1, <2>2, <3>1 DEF FreshInv, FreshOf, Text, IsText, At
  <2> QED BY <1>7, <2>3, <2>4, <2>5, <2>6 DEF VectorsInv
<1> QED BY <1>1, <1>10, <1>11

\* The rows of which something was inserted, and nothing failed, have a whole set.
LEMMA InsertedKeeps == ASSUME VectorsTypeOK, VectorsInv, Inserted PROVE VectorsInv'
<1>1. /\ build.at = "insert" /\ build.todo = {} /\ At({"insert"})
      /\ UNCHANGED <<vectors, builds>> /\ damaged' = damaged \cup (build.ok \cap build.failed)
      /\ seen' = [r \in Rows |-> IF r \in build.ok THEN Text(r) ELSE seen[r]]
  BY DEF Inserted, At
<1>2. /\ build'.at = "replace" /\ build'.mode = build.mode /\ build'.known = build.known
      /\ build'.read = build.read /\ build'.changed = build.changed
      /\ build'.track = build.track /\ build'.todo = build.todo
      /\ build'.ok = build.ok /\ build'.failed = build.failed
  BY DEF Inserted, VectorsTypeOK, Builds
<1>3. /\ NewRows' = NewRows /\ Changed' = Changed /\ Left' = Left /\ Targets' = Targets
      /\ ChunksOfRows(Targets)' = ChunksOfRows(Targets)
      /\ \A r \in Rows : Text(r)' = Text(r) /\ (IsText(r)' <=> IsText(r))
  BY <1>2, ComparedStays
<1>4. \A r \in Rows : FreshOf(r)
  BY <1>1 DEF VectorsInv, FreshInv, At
<1>5. BuildsInv'
  BY <1>1, <1>2 DEF VectorsInv, BuildsInv, At
<1>6. RunInv'
  BY <1>1, <1>2, <1>3 DEF VectorsInv, RunInv, At
<1>7. \A r \in Rows : Fresh(r)' = Fresh(r)
  BY <1>1 DEF Fresh, Of
<1>8. FreshInv'
  <2>1. \A r \in Rows : Complete(r) => Complete(r)'
    BY <1>1, <1>2, <1>3, <1>7 DEF Complete, Text
  <2> QED BY <1>1, <1>2, <1>3, <1>7, <1>4, <2>1 DEF FreshInv, FreshOf, At, Text, IsText
<1>9. KnownInv'
  BY <1>2 DEF KnownInv, At
<1>10. WholeInv'
  <2>1. SUFFICES ASSUME NEW r \in Rows, r \notin damaged'
                 PROVE  WholeSet(Current(r)', seen'[r])
    BY <1>1 DEF WholeInv
  <2>2. /\ r \notin damaged /\ WholeSet(Older(r), seen[r]) /\ seen[r] \in Texts \cup {Gone}
        /\ ~(r \in build.ok /\ r \in build.failed)
    BY <1>1, <2>1 DEF VectorsInv, WholeInv, Current, At, VectorsTypeOK
  <2>3. Of(r)' = Fresh(r) \cup Older(r)
    BY <1>1 DEF Of, Fresh, Older
  <2>4. r \in build.ok <=> Fresh(r) # {}
    BY <1>4, <2>1 DEF FreshOf
  <2>5. CASE r \notin build.ok
    <3>1. Current(r)' = Of(r)' /\ seen'[r] = seen[r]
      BY <1>1, <1>2, <2>5 DEF Current, At
    <3> QED BY <2>2, <2>3, <2>4, <2>5, <3>1
  <2>6. CASE r \in build.ok
    <3>1. seen'[r] = Text(r) /\ r \in Targets /\ r \notin build.failed
      BY <1>1, <2>2, <2>6 DEF VectorsInv, RunInv, At
    <3>2. IsText(r)
      BY <3>1 DEF Targets, NewRows, Changed
    <3>3. WholeSet(Fresh(r), Text(r))
      <4>1. Complete(r)
        BY <1>4, <2>1, <3>1 DEF FreshOf
      <4>2. \A k \in ChunksOf(Text(r)) : \E v \in Fresh(r) : v.chunk = k
        BY <1>1, <3>1, <4>1 DEF Complete
      <4> QED BY <1>4, <2>1, <4>2 DEF FreshOf, WholeSet
    <3>4. build.known[r] = seen[r]
      <4>1. r \notin Left
        BY <3>2 DEF Left
      <4> QED BY <1>1, <2>1, <2>2, <4>1 DEF VectorsInv, KnownInv, Settled, At
    <3>5. \A v \in Fresh(r) : v.text = Text(r)
      BY <3>3 DEF WholeSet
    <3>6. CASE r \in Changed
      <4>1. seen[r] # Text(r)
        BY <3>4, <3>6 DEF Changed
      <4>2. {v \in Of(r)' : v.text = Text(r)} = Fresh(r)
        BY <2>2, <2>3, <3>5, <4>1 DEF WholeSet
      <4>3. r \in build'.changed \cap build'.ok
        BY <1>1, <1>2, <2>6, <3>6 DEF VectorsInv, RunInv, At
      <4>4. Current(r)' = {v \in Of(r)' : v.text = Text(r)}
        BY <1>2, <4>3 DEF Current, At, Text
      <4> QED BY <3>1, <3>3, <4>2, <4>4
    <3>7. CASE r \notin Changed
      <4>1. build.known[r] = Gone
        BY <3>1, <3>7 DEF Targets, NewRows
      <4>2. Older(r) = {}
        <5>1. ChunksOf(Gone) = {}
          BY ChunksOfText
        <5> QED BY <2>2, <3>4, <4>1, <5>1 DEF WholeSet
      <4>3. r \notin build'.changed
        BY <1>1, <1>2, <3>7 DEF VectorsInv, RunInv, At
      <4>4. Current(r)' = Of(r)'
        BY <1>2, <4>3 DEF Current, At
      <4> QED BY <2>3, <3>1, <3>3, <4>2, <4>4
    <3> QED BY <3>6, <3>7
  <2> QED BY <2>5, <2>6
<1> QED BY <1>5, <1>6, <1>8, <1>9, <1>10 DEF VectorsInv

LEMMA ReplaceKeeps == ASSUME VectorsTypeOK, VectorsInv, NEW r \in Rows, Replace(r) PROVE VectorsInv'
<1>1. /\ build.at = "replace" /\ r \in build.changed /\ UNCHANGED <<seen, builds>>
      /\ build'.at = "replace" /\ build'.mode = build.mode /\ build'.known = build.known
      /\ build'.read = build.read /\ build'.changed = build.changed \ {r}
      /\ build'.track = build.track /\ build'.todo = build.todo
      /\ build'.ok = build.ok /\ build'.failed = build.failed
  BY DEF Replace, VectorsTypeOK, Builds
<1>2. /\ NewRows' = NewRows /\ Changed' = Changed /\ Left' = Left /\ Targets' = Targets
      /\ ChunksOfRows(Targets)' = ChunksOfRows(Targets)
  BY <1>1, ComparedStays
<1>3. \A s \in Rows : FreshOf(s)
  BY <1>1 DEF VectorsInv, FreshInv, At
<1>4. vectors' \subseteq vectors
  BY DEF Replace, Kept
<1>5. BuildsInv'
  BY <1>1, <1>4 DEF VectorsInv, BuildsInv, At
<1>6. RunInv'
  BY <1>1, <1>2 DEF VectorsInv, RunInv, At
<1>7. KnownInv'
  BY <1>1 DEF KnownInv, At
<1>8. \A s \in Rows : Fresh(s)' = Fresh(s)
  <2>1. CASE vectors' = Kept(r)
    <3>1. \A v \in Fresh(r) : v.text = Text(r)
      BY <1>3 DEF FreshOf
    <3> QED BY <1>1, <2>1, <3>1 DEF Kept, Fresh, Of
  <2>2. CASE UNCHANGED vectors
    BY <1>1, <2>2 DEF Fresh, Of
  <2> QED BY <2>1, <2>2 DEF Replace
<1>9. FreshInv'
  <2>1. \A s \in Rows : Complete(s) => Complete(s)'
    BY <1>1, <1>8 DEF Complete, Text
  <2> QED BY <1>1, <1>2, <1>3, <1>8, <2>1 DEF FreshInv, FreshOf, At, Text, IsText
<1>10. WholeInv'
  <2>1. SUFFICES ASSUME NEW s \in Rows, s \notin damaged'
                 PROVE  Current(s)' = Current(s) /\ s \notin damaged
    BY <1>1 DEF VectorsInv, WholeInv
  <2>2. s \notin damaged
    BY <2>1 DEF Replace
  <2>3. CASE s # r
    <3>1. Of(s)' = Of(s)
      BY <2>3 DEF Replace, Kept, Of
    <3> QED BY <1>1, <2>2, <2>3, <3>1 DEF Current, At, Text
  <2>4. CASE s = r
    <3>1. Current(r)' = Of(r)'
      BY <1>1 DEF Current, At
    <3>2. CASE Replaced(r)
      <4>1. vectors' = Kept(r)
        BY <2>1, <2>4, <3>2 DEF Replace
      <4>2. Current(r) = {v \in Of(r) : v.text = Text(r)}
        BY <1>1, <3>2 DEF Current, At, Replaced
      <4>3. Of(r)' = {v \in Of(r) : v.text = Text(r)}
        BY <4>1 DEF Of, Kept
      <4> QED BY <2>2, <2>4, <3>1, <4>2, <4>3
    <3>3. CASE ~Replaced(r)
      <4>1. Of(r)' = Of(r)
        BY <3>3 DEF Replace, Of
      <4>2. Current(r) = Of(r)
        BY <1>1, <3>3 DEF Current, At, Replaced
      <4> QED BY <2>2, <2>4, <3>1, <4>1, <4>2
    <3> QED BY <3>2, <3>3
  <2> QED BY <2>3, <2>4
<1> QED BY <1>5, <1>6, <1>7, <1>9, <1>10 DEF VectorsInv

LEMMA FinishKeeps == ASSUME VectorsTypeOK, VectorsInv, Finish PROVE VectorsInv'
<1>1. \A r \in Rows : Current(r) = Of(r)
  BY DEF Finish, Current, At
<1> QED BY <1>1, EndKeeps DEF Finish, result

\* Of a row of which nothing was inserted the old vectors are all.
LEMMA KillKeeps == ASSUME VectorsTypeOK, VectorsInv, KillBuild PROVE VectorsInv'
<1>1. ASSUME NEW r \in Rows, r \notin build.ok PROVE Current(r) = Of(r)
  <2>1. CASE At({"insert"})
    <3>1. Fresh(r) = {}
      BY <1>1, <2>1 DEF VectorsInv, FreshInv, FreshOf, At
    <3> QED BY <2>1, <3>1 DEF Current, Fresh, Older
  <2>2. CASE ~At({"insert"})
    BY <1>1, <2>2 DEF Current
  <2> QED BY <2>1, <2>2
<1> QED BY <1>1, EndKeeps DEF KillBuild

\* The table, the store and the end of a day without news change nothing here.
LEMMA OthersKeep ==
    ASSUME VectorsInv, UNCHANGED <<vectors, seen, damaged, build, builds>>
    PROVE  VectorsInv'
<1>1. /\ NewRows' = NewRows /\ Changed' = Changed /\ Left' = Left /\ Targets' = Targets
      /\ ChunksOfRows(Targets)' = ChunksOfRows(Targets)
  BY ComparedStays
<1>2. BuildsInv' /\ RunInv'
  BY <1>1 DEF VectorsInv, BuildsInv, RunInv, At
<1>3. KnownInv'
  BY <1>1 DEF VectorsInv, KnownInv, Settled, At
<1>4. \A r \in Rows : Fresh(r)' = Fresh(r) /\ Older(r)' = Older(r) /\ Of(r)' = Of(r)
  BY DEF Fresh, Older, Of
<1>5. FreshInv'
  BY <1>1, <1>4 DEF VectorsInv, FreshInv, FreshOf, Complete, At, Text, IsText
<1>6. WholeInv'
  BY <1>4 DEF VectorsInv, WholeInv, Current, At, Text
<1> QED BY <1>2, <1>3, <1>5, <1>6 DEF VectorsInv

LEMMA InitVectors == ASSUME VectorsAssumption, VectorsInit PROVE VectorsInv
<1>1. /\ build = NoBuild /\ builds = 0 /\ damaged = {}
      /\ texts \in [Rows -> [text : Texts, stamp : {0}]]
  BY DEF VectorsInit
<1>2. /\ build.at = "idle" /\ build.mode = "plain" /\ build.todo = {}
      /\ build.ok = {} /\ build.failed = {}
  BY <1>1 DEF NoBuild
<1>3. RunInv /\ FreshInv /\ KnownInv
  BY <1>2 DEF RunInv, FreshInv, KnownInv, At
<1>4. CASE vectors = {} /\ seen = [r \in Rows |-> Gone]
  <2>1. BuildsInv
    BY <1>4 DEF BuildsInv
  <2>2. \A r \in Rows : Of(r) = {} /\ seen[r] = Gone
    BY <1>4 DEF Of
  <2>3. WholeInv
    BY <1>2, <2>2, EmptyIsWhole DEF WholeInv, Current, At
  <2> QED BY <1>3, <2>1, <2>3 DEF VectorsInv
<1>5. CASE /\ vectors = UNION {{[row |-> r, text |-> texts[r].text, chunk |-> c,
                                track |-> 0, build |-> 0] :
                                 c \in ChunksOf(texts[r].text)} : r \in Rows}
           /\ seen = [r \in Rows |-> texts[r].text]
  <2>1. \A v \in vectors : v.build = 0
    BY <1>5
  <2>2. BuildsInv
    BY <1>1, <1>2, <2>1 DEF BuildsInv, At
  <2>3. \A r \in Rows : Of(r) = {[row |-> r, text |-> texts[r].text, chunk |-> c,
                                track |-> 0, build |-> 0] : c \in ChunksOf(texts[r].text)}
    BY <1>5 DEF Of
  <2>4. ASSUME NEW r \in Rows PROVE WholeSet(Of(r), seen[r])
    <3>1. seen[r] = texts[r].text
      BY <1>5
    <3>2. PICK x : x = texts[r].text
      OBVIOUS
    <3>3. Of(r) = {[row |-> r, text |-> x, chunk |-> c, track |-> 0, build |-> 0] :
                     c \in ChunksOf(x)}
      BY <2>3, <3>2
    <3>4. \A v \in Of(r) : v.text = x /\ v.chunk \in ChunksOf(x)
      BY <3>3
    <3>5. ASSUME NEW k \in ChunksOf(x) PROVE \E v \in Of(r) : v.chunk = k
      <4>1. PICK v : v = [row |-> r, text |-> x, chunk |-> k, track |-> 0, build |-> 0]
        OBVIOUS
      <4>2. v \in Of(r) /\ v.chunk = k
        BY <3>3, <4>1
      <4> QED BY <4>2
    <3>6. \A v, w \in Of(r) : v.chunk = w.chunk => v = w
      BY <3>3
    <3> QED BY <3>1, <3>2, <3>4, <3>5, <3>6 DEF WholeSet
  <2>5. WholeInv
    BY <1>2, <2>4 DEF WholeInv, Current, At
  <2> QED BY <1>3, <2>2, <2>5 DEF VectorsInv
<1> QED BY <1>4, <1>5 DEF VectorsInit

LEMMA NextVectors == ASSUME VectorsTypeOK, VectorsInv, [VectorsNext]_vectorVars PROVE VectorsInv'
<1>1. CASE Tool
  BY <1>1, SkipKeeps, BeginKeeps, ReadRowsKeeps, ReadTrackKeeps, ClearKeeps, DroppedKeeps,
     DropKeeps, InsertKeeps, InsertedKeeps, ReplaceKeeps, FinishKeeps DEF Tool
<1>2. CASE KillBuild
  BY <1>2, KillKeeps
<1>3. CASE UNCHANGED <<vectors, seen, damaged, build, builds>>
  BY <1>3, OthersKeep
<1>4. ASSUME NEW r \in Rows, NEW x \in Texts \cup {Blank, Gone}, EditRow(r, x)
      PROVE  UNCHANGED <<vectors, seen, damaged, build, builds>>
  BY <1>4 DEF EditRow
<1>5. CASE UpsertRecords \/ ReplaceRecords \/ Preload \/ Search \/ AnswerSearch
  BY <1>3, <1>5 DEF UpsertRecords, ReplaceRecords, Preload, Search, AnswerSearch, result
<1>6. CASE UNCHANGED vectorVars
  BY <1>3, <1>6 DEF vectorVars, result
<1> QED BY <1>1, <1>2, <1>3, <1>4, <1>5, <1>6 DEF VectorsNext

-----------------------------------------------------------------------------
\* The types of the table and of the store.

LEMMA VectorsAreFinite == ASSUME VectorsAssumption PROVE IsFiniteSet(Vectors)
<1> DEFINE P == (Rows \X Texts) \X ({1, 2} \X ((0..MaxChanges) \X (0..MaxBuilds)))
           f == [v \in Vectors |-> <<<<v.row, v.text>>, <<v.chunk, <<v.track, v.build>>>>>>]
<1>1. IsFiniteSet(Rows) /\ IsFiniteSet(Texts) /\ IsFiniteSet(0..MaxChanges)
      /\ IsFiniteSet(0..MaxBuilds)
  BY FS_Interval DEF VectorsAssumption, Rows, Texts
<1>2. IsFiniteSet({1, 2})
  <2>1. IsFiniteSet({1}) /\ {1, 2} = {1} \cup {2}
    BY FS_Singleton
  <2> QED BY <2>1, FS_AddElement
<1>3. IsFiniteSet(Rows \X Texts) /\ IsFiniteSet((0..MaxChanges) \X (0..MaxBuilds))
  BY <1>1, FS_Product
<1>4. IsFiniteSet({1, 2} \X ((0..MaxChanges) \X (0..MaxBuilds)))
  BY <1>2, <1>3, FS_Product
<1>5. IsFiniteSet(P)
  BY <1>3, <1>4, FS_Product
<1>6. f \in [Vectors -> P]
  BY DEF Vectors
<1>7. \A v, w \in Vectors : f[v] = f[w] => v = w
  BY DEF Vectors
<1> HIDE DEF f, P
<1>8. f \in Injection(Vectors, P)
  BY <1>6, <1>7 DEF Injection, IsInjective
<1> QED BY <1>5, <1>8, FS_Injection

\* What is found are chunks that were near, each hit with a content that is there.
LEMMA HitType ==
    ASSUME VectorsAssumption, VectorsTypeOK, NEW near \in SUBSET query, NEW v \in near
    PROVE  Hit(near, v) \subseteq Hits
<1> DEFINE same == {w \in near : w.row = v.row}
<1>1. near \subseteq Vectors /\ v \in Vectors /\ copied \subseteq Vectors
  BY DEF VectorsTypeOK
<1>2. Cardinality(same) \in Nat \ {0}
  <2>1. IsFiniteSet(same)
    BY <1>1, VectorsAreFinite, FS_Subset
  <2>2. same # {}
    OBVIOUS
  <2> QED BY <2>1, <2>2, FS_CardinalityType, FS_EmptySet
<1>3. \A w \in Payload(v) : <<w.text, w.chunk>> \in (Texts \cup {Gone}) \X {1, 2}
  BY <1>1 DEF Payload, Vectors
<1>4. \A p \in IF Payload(v) = {} THEN {<<Gone, 1>>} ELSE {<<w.text, w.chunk>> : w \in Payload(v)} :
         p \in (Texts \cup {Gone}) \X {1, 2}
  BY <1>3
<1> HIDE DEF same
<1>5. ASSUME NEW p \in (Texts \cup {Gone}) \X {1, 2}, NEW known \in BOOLEAN
      PROVE  [nearest |-> v, matched |-> Cardinality(same), payload |-> p, known |-> known] \in Hits
  BY <1>1, <1>2, <1>5 DEF Hits
<1> USE DEF same
<1>6. SUFFICES ASSUME NEW h \in Hit(near, v) PROVE h \in Hits
  OBVIOUS
<1>7. PICK p \in IF Payload(v) = {} THEN {<<Gone, 1>>} ELSE {<<w.text, w.chunk>> : w \in Payload(v)} :
         h = [nearest |-> v, matched |-> Cardinality(same), payload |-> p,
              known |-> query = copied /\ Cardinality({w \in copied :
                                 w.row = v.row /\ w.chunk = v.chunk}) = 1]
  BY <1>6 DEF Hit
<1> QED BY <1>4, <1>5, <1>7

\* An answer is made of hits.
LEMMA AnswerHits ==
    ASSUME AnswerSearch, NEW h \in hits'
    PROVE  \E near \in SUBSET query : \E v \in near : h \in Hit(near, v)
<1>1. CASE hits' = {}
  BY <1>1
<1>2. ASSUME NEW near \in SUBSET query, NEW best \in [{v.row : v \in near} -> near],
             NEW f \in [DOMAIN best -> UNION {Hit(near, v) : v \in near}], hits' = Range(f)
      PROVE  \E v \in near : h \in Hit(near, v)
  <2>1. PICK r \in DOMAIN best : h = f[r]
    BY <1>2 DEF Range
  <2>2. h \in UNION {Hit(near, v) : v \in near}
    BY <2>1
  <2> QED BY <2>2
<1> QED BY <1>1, <1>2 DEF AnswerSearch

LEMMA TypeStore ==
    ASSUME VectorsAssumption, VectorsTypeOK,
           \/ \E r \in Rows, x \in Texts \cup {Blank, Gone} : EditRow(r, x)
           \/ UpsertRecords \/ ReplaceRecords \/ Preload \/ Search \/ AnswerSearch
    PROVE  VectorsTypeOK'
<1>1. ASSUME NEW r \in Rows, NEW x \in Texts \cup {Blank, Gone}, EditRow(r, x) PROVE VectorsTypeOK'
  <2>1. edits \in 0..MaxChanges /\ edits < MaxChanges /\ edits' = edits + 1
    BY <1>1 DEF EditRow, VectorsTypeOK
  <2>2. edits' \in 0..MaxChanges /\ edits + 1 \in 0..MaxChanges /\ 0 \in 0..MaxChanges
    BY <2>1 DEF VectorsAssumption
  <2>3. [text |-> x, stamp |-> IF x = Gone THEN 0 ELSE edits + 1] \in RowContents
    BY <2>2 DEF RowContents
  <2>4. texts' \in [Rows -> RowContents]
    BY <1>1, <2>3 DEF EditRow, VectorsTypeOK
  <2> QED BY <1>1, <2>2, <2>4 DEF EditRow, VectorsTypeOK, store, memory, search
<1>2. CASE UpsertRecords
  BY <1>2 DEF UpsertRecords, MarkDirty, VectorsTypeOK, table, result, search
<1>3. CASE ReplaceRecords
  BY <1>3 DEF ReplaceRecords, MarkDirty, VectorsTypeOK, table, result, search
<1>4. CASE Preload
  BY <1>4 DEF Preload, VectorsTypeOK, table, result, search
<1>5. CASE Search
  BY <1>5 DEF Search, VectorsTypeOK, table, result
<1>6. CASE AnswerSearch
  <2>1. hits' \subseteq Hits
    BY <1>6, AnswerHits, HitType
  <2> QED BY <1>6, <2>1 DEF AnswerSearch, VectorsTypeOK, table, result, memory
<1> QED BY <1>1, <1>2, <1>3, <1>4, <1>5, <1>6

-----------------------------------------------------------------------------
\* Theorems.

SoundInv == VectorsTypeOK /\ VectorsInv

LEMMA SoundInit == ASSUME VectorsAssumption, VectorsInit PROVE SoundInv
BY TypeInit, InitVectors DEF SoundInv

LEMMA SoundStep == ASSUME VectorsAssumption, SoundInv, [VectorsNext]_vectorVars PROVE SoundInv'
<1>1. VectorsInv'
  BY NextVectors DEF SoundInv
<1>2. TextsInv
  BY TextsAreText DEF SoundInv, VectorsInv
<1>3. VectorsTypeOK'
  <2>1. CASE Tool \/ KillBuild
    BY <1>2, <2>1, TypeTool DEF SoundInv
  <2>2. CASE UNCHANGED vectorVars
    BY <2>2 DEF SoundInv, VectorsTypeOK, vectorVars, table, result, store, memory, search
  <2> QED BY <2>1, <2>2, TypeStore DEF SoundInv, VectorsNext
<1> QED BY <1>1, <1>3 DEF SoundInv

\* Every state of the index, of the tool and of the store is well formed, however the table
\* is edited and whatever fails.
THEOREM TypeCorrect == ASSUME VectorsAssumption PROVE VectorsSpec => []VectorsTypeOK
<1>1. VectorsInit => SoundInv
  BY SoundInit
<1>2. SoundInv /\ [VectorsNext]_vectorVars => SoundInv'
  BY SoundStep
<1> QED BY <1>1, <1>2, PTL DEF VectorsSpec, SoundInv

LEMMA StayStep ==
    ASSUME SoundInv, [VectorsNext]_vectorVars, NEW r \in Rows, Of(r) # {}, Of(r)' = {}
    PROVE  build.mode = "full" \/ ~IsText(r)
<1> USE DEF Of
<1>1. CASE SkipBuild \/ ReadRows \/ ReadTrack \/ Dropped \/ Inserted \/ Finish \/ KillBuild
           \/ UpsertRecords \/ ReplaceRecords \/ Preload \/ Search \/ AnswerSearch \/ UNCHANGED vectorVars
  BY <1>1 DEF SkipBuild, ReadRows, ReadTrack, Dropped, Inserted, Finish, KillBuild,
              UpsertRecords, ReplaceRecords, Preload, Search, AnswerSearch, vectorVars, result
<1>2. ASSUME NEW mode \in {"plain", "full"}, NEW check \in BOOLEAN, BeginBuild(mode, check)
      PROVE  FALSE
  BY <1>2 DEF BeginBuild, result
<1>3. CASE Clear
  BY <1>3 DEF Clear, SoundInv, VectorsInv, RunInv, At
<1>4. CASE Insert
  BY <1>4 DEF Insert
<1>5. ASSUME NEW s \in Rows, Drop(s) PROVE ~IsText(r)
  <2>1. s = r /\ r \in build.drop /\ build.at = "drop"
    BY <1>5 DEF Drop
  <2> QED BY <2>1 DEF SoundInv, VectorsInv, RunInv, At, Left
<1>6. ASSUME NEW s \in Rows, Replace(s) PROVE FALSE
  <2>1. s = r /\ Replaced(r) /\ vectors' = Kept(r) /\ build.at = "replace"
    BY <1>6 DEF Replace, Kept
  <2>2. FreshOf(r) /\ r \in build.ok
    BY <2>1 DEF SoundInv, VectorsInv, FreshInv, At, Replaced
  <2>3. PICK v \in Fresh(r) : v.text = Text(r)
    BY <2>2 DEF FreshOf
  <2>4. v \in Of(r)'
    BY <2>1, <2>3 DEF Fresh, Kept
  <2> QED BY <2>4
<1>7. ASSUME NEW s \in Rows, NEW x \in Texts \cup {Blank, Gone}, EditRow(s, x) PROVE FALSE
  BY <1>7 DEF EditRow
<1> QED BY <1>1, <1>2, <1>3, <1>4, <1>5, <1>6, <1>7 DEF VectorsNext, Tool

\* Whatever fails, and wherever the tool is killed, a row that has a text and had vectors is
\* never without one: the old ones go after the insert of a new one.  Only a full rebuild
\* takes them all.
THEOREM RowsStayIndexed == ASSUME VectorsAssumption PROVE VectorsSpec => RowStaysIndexed
<1>1. VectorsInit => SoundInv
  BY SoundInit
<1>2. SoundInv /\ [VectorsNext]_vectorVars => SoundInv'
  BY SoundStep
<1>3. SoundInv /\ [VectorsNext]_vectorVars =>
        [\A r \in Rows : Of(r) # {} /\ Of(r)' = {} => build.mode = "full" \/ ~IsText(r)]_vectorVars
  BY StayStep
<1> QED BY <1>1, <1>2, <1>3, PTL DEF VectorsSpec, RowStaysIndexed

-----------------------------------------------------------------------------
\* --check.

\* The comparison is by the texts: a row that is neither new, changed nor left, and of which
\* what was known is what its vectors stand for, stands for what was read.
LEMMA SettledRow ==
    ASSUME VectorsTypeOK, NEW r \in Rows, r \notin Targets, r \notin Left,
           Text(r) # Blank, build.known[r] = seen[r]
    PROVE  seen[r] = Text(r)
<1>1. Text(r) \in Texts \cup {Blank, Gone}
  BY DEF VectorsTypeOK, Builds, RowContents, Text
<1>2. CASE IsText(r)
  BY <1>2 DEF Targets, NewRows, Changed
<1>3. CASE ~IsText(r)
  <2>1. Text(r) = Gone
    BY <1>1, <1>3 DEF IsText
  <2> QED BY <1>3, <2>1 DEF Left
<1> QED BY <1>2, <1>3

LEMMA ClockStep ==
    ASSUME VectorsAssumption, VectorsTypeOK, ClockInv, [VectorsNext]_vectorVars
    PROVE  ClockInv'
<1>1. edits \in Nat /\ \A r \in Rows : texts[r].stamp \in Nat
  BY DEF VectorsTypeOK, RowContents, VectorsAssumption
<1>2. SourceTrack <= edits
  <2>1. SourceTrack \in {0} \cup {texts[r].stamp : r \in Rows}
    <3>1. {texts[r].stamp : r \in Rows} \in SUBSET (0..MaxChanges)
      BY DEF VectorsTypeOK, RowContents
    <3> QED BY <3>1, NewestIsLargest DEF SourceTrack, VectorsAssumption
  <2> QED BY <1>1, <2>1 DEF ClockInv
<1>3. ASSUME NEW r \in Rows, NEW x \in Texts \cup {Blank, Gone}, EditRow(r, x) PROVE ClockInv'
  <2>1. \A s \in Rows : texts'[s].stamp \in {texts[s].stamp, 0, edits + 1}
    BY <1>3 DEF EditRow, VectorsTypeOK
  <2>2. edits' = edits + 1 /\ UNCHANGED <<vectors, build>>
    BY <1>3 DEF EditRow
  <2>3. build.track \in Int /\ \A v \in vectors : v.track \in Int
    BY DEF VectorsTypeOK, Builds, Vectors
  <2> QED BY <1>1, <2>1, <2>2, <2>3 DEF ClockInv
<1>4. CASE UNCHANGED <<table, vectors>> /\ build'.track \in {build.track, 0, SourceTrack}
  BY <1>1, <1>2, <1>4 DEF ClockInv, table
<1>5. CASE \E c \in build.todo :
             /\ vectors' = vectors \cup
                  {[row |-> c.row, text |-> Text(c.row), chunk |-> c.chunk,
                    track |-> build.track, build |-> builds]}
             /\ build'.track = build.track /\ UNCHANGED table
  BY <1>5 DEF ClockInv, table
<1>6. CASE vectors' \subseteq vectors /\ build'.track = build.track /\ UNCHANGED table
  BY <1>6 DEF ClockInv, table
<1>7. NoBuild.track = 0
  BY DEF NoBuild
<1>8. ASSUME NEW mode \in {"plain", "full"}, NEW check \in BOOLEAN, BeginBuild(mode, check)
      PROVE  UNCHANGED <<table, vectors>> /\ build'.track = 0
  BY <1>8 DEF BeginBuild, NoBuild, result
<1>9. CASE SkipBuild \/ ReadRows \/ Dropped \/ Inserted \/ Finish \/ KillBuild
  <2>1. UNCHANGED <<table, vectors>> /\ build'.track \in {build.track, 0}
    BY <1>7, <1>9
       DEF SkipBuild, ReadRows, Dropped, Inserted, Finish, KillBuild, EndBuild, result, VectorsTypeOK, Builds
  <2> QED BY <1>4, <2>1
<1>10. CASE ReadTrack
  <2>1. build'.track \in {0, SourceTrack}
    BY <1>7, <1>10 DEF ReadTrack, EndBuild, VectorsTypeOK, Builds
  <2> QED BY <1>4, <1>10, <2>1 DEF ReadTrack
<1>11. CASE Insert
  <2>1. PICK c \in build.todo :
          \/ /\ vectors' = vectors \cup
                  {[row |-> c.row, text |-> Text(c.row), chunk |-> c.chunk,
                    track |-> build.track, build |-> builds]}
             /\ build' = [build EXCEPT !.todo = @ \ {c}, !.ok = @ \cup {c.row}]
          \/ /\ build' = [build EXCEPT !.todo = @ \ {c}, !.failed = @ \cup {c.row}]
             /\ UNCHANGED vectors
    BY <1>11 DEF Insert
  <2>2. build'.track = build.track /\ UNCHANGED table
    BY <1>11, <2>1 DEF Insert, VectorsTypeOK, Builds
  <2> QED BY <1>4, <1>5, <2>1, <2>2
<1>12. CASE Clear \/ \E r \in Rows : Drop(r) \/ Replace(r)
  <2>1. build'.track = build.track /\ UNCHANGED table /\ vectors' \subseteq vectors
    BY <1>12 DEF Clear, Drop, Replace, Kept, VectorsTypeOK, Builds
  <2> QED BY <1>6, <2>1
<1>13. CASE UpsertRecords \/ ReplaceRecords \/ Preload \/ Search \/ AnswerSearch \/ UNCHANGED vectorVars
  <2>1. UNCHANGED <<table, vectors, build>>
    BY <1>13 DEF UpsertRecords, ReplaceRecords, Preload, Search, AnswerSearch, vectorVars, result
  <2> QED BY <1>4, <2>1
<1> QED BY <1>3, <1>4, <1>8, <1>9, <1>10, <1>11, <1>12, <1>13 DEF VectorsNext, Tool

LEMMA BuildPlaces ==
    ASSUME VectorsTypeOK
    PROVE  build.at \in {"idle", "rows", "track", "clear", "drop", "insert", "replace"}
BY DEF VectorsTypeOK, Builds

LEMMA SureEdit ==
    ASSUME VectorsAssumption, VectorsTypeOK, ClockInv, SureInv,
           NEW q \in Rows, NEW x \in Texts \cup {Blank, Gone}, EditRow(q, x)
    PROVE  SureInv'
<1>1. SUFFICES ASSUME ~unsure' PROVE SureInv'
  BY DEF SureInv
<1>2. ~unsure /\ x # Blank /\ UNCHANGED <<vectors, seen, damaged, build>>
  BY <1>1 DEF EditRow
<1>3. edits \in Nat /\ build.track \in Nat /\ \A v \in vectors : v.track \in Nat
  BY DEF VectorsTypeOK, Builds, Vectors, VectorsAssumption
<1>4. \A r \in Rows : r # q => texts'[r] = texts[r]
  BY DEF EditRow, VectorsTypeOK
<1>5. /\ texts'[q].text = x
      /\ x # Gone => texts'[q].stamp = edits + 1
  BY DEF EditRow, VectorsTypeOK
<1>6. \A r \in Rows : texts'[r].text # Blank
  BY <1>2, <1>4, <1>5 DEF SureInv
<1>7. x # Gone => /\ \A v \in vectors : v.track < texts'[q].stamp
                  /\ build.track < texts'[q].stamp
  BY <1>3, <1>5 DEF ClockInv
<1>8. \A r \in Rows : \A y : IsNoted(r, y) => IsNoted(r, y)'
  BY <1>2, <1>4, <1>5, <1>7 DEF IsNoted
<1>9. \A r \in Rows : Text(r)' = Text(r)
  BY <1>2 DEF Text
<1>10. Left' = Left
  BY <1>2, ComparedStays
<1>11. At({"idle", "rows", "track"}) => \A r \in Rows : IsNoted(r, seen[r])'
  BY <1>1, <1>2, <1>4, <1>5, <1>7 DEF SureInv, IsNoted
<1>12. At({"clear", "drop", "insert", "replace"}) => \A r \in Rows :
         /\ Text(r) # Blank /\ IsNoted(r, Text(r))'
         /\ texts'[r].text \in {Text(r), Gone} \/ build.track < texts'[r].stamp
  BY <1>1, <1>2, <1>4, <1>5, <1>7, <1>9 DEF SureInv, IsNoted, Text
<1> QED BY <1>2, <1>6, <1>9, <1>10, <1>11, <1>12 DEF SureInv, At

\* The steps before the comparison, and those that end a run that changed nothing.
LEMMA SureRead ==
    ASSUME VectorsTypeOK, SureInv, UNCHANGED <<table, vectors, seen, damaged>>, unsure' = unsure,
           build.at \in {"idle", "rows", "track"}, build'.failed = {},
           \/ build'.at \in {"idle", "rows"}
           \/ build'.at = "track" /\ build'.read = texts
    PROVE  SureInv'
BY DEF SureInv, At, IsNoted, Text, table

\* The comparison is of the table as it is, or the build is not sure.
LEMMA SureTrack == ASSUME VectorsTypeOK, VectorsInv, SureInv, ReadTrack PROVE SureInv'
<1>1. SUFFICES ASSUME ~unsure' PROVE SureInv'
  BY DEF SureInv
<1>2. /\ ~unsure /\ texts = build.read /\ At({"track"}) /\ build.failed = {}
      /\ UNCHANGED <<table, vectors, seen, damaged>>
  BY <1>1 DEF ReadTrack, VectorsInv, RunInv, At
<1>3. /\ damaged = {} /\ \A r \in Rows : texts[r].text # Blank
      /\ \A r \in Rows : IsNoted(r, seen[r])
  BY <1>2 DEF SureInv, At
<1>4. CASE EndBuild
  <2>1. build'.at = "idle" /\ build'.failed = {}
    BY <1>4 DEF EndBuild, NoBuild
  <2> QED BY <1>2, <1>3, <2>1 DEF SureInv, At, IsNoted, table
<1>5. CASE ~EndBuild
  <2>1. /\ build'.at \in {"clear", "drop"} /\ build'.failed = {}
        /\ build'.read = build.read /\ build'.known = build.known /\ build'.drop = Left
    BY <1>2, <1>5 DEF ReadTrack, VectorsTypeOK, Builds
  <2>2. Left' = Left
    BY <2>1, ComparedStays
  <2>3. \A r \in Rows : build'.read[r].text = texts[r].text
    BY <1>2, <2>1
  <2> QED BY <1>2, <1>3, <2>1, <2>2, <2>3 DEF SureInv, At, IsNoted, Text, table
<1> QED BY <1>4, <1>5

LEMMA SureClear == ASSUME VectorsTypeOK, SureInv, Clear PROVE SureInv'
<1>1. SUFFICES ASSUME ~unsure' PROVE SureInv'
  BY DEF SureInv
<1>2. /\ ~unsure /\ vectors' = {} /\ damaged' = {} /\ seen' = [r \in Rows |-> Gone]
      /\ At({"clear"}) /\ UNCHANGED table
  BY <1>1 DEF Clear, At
<1>3. /\ build'.at = "insert" /\ build'.failed = build.failed /\ build'.read = build.read
      /\ build'.known = build.known /\ build'.track = build.track
  BY DEF Clear, VectorsTypeOK, Builds
<1>4. Left' \subseteq Rows
  BY DEF Left
<1> QED BY <1>2, <1>3, <1>4 DEF SureInv, At, IsNoted, Text, table

LEMMA SureDrop == ASSUME VectorsTypeOK, SureInv, NEW q \in Rows, Drop(q) PROVE SureInv'
<1>1. SUFFICES ASSUME ~unsure' PROVE SureInv'
  BY DEF SureInv
<1>2. /\ ~unsure /\ vectors' \subseteq vectors /\ damaged' \subseteq damaged
      /\ seen' = [seen EXCEPT ![q] = Gone] /\ At({"drop"}) /\ UNCHANGED table
  BY <1>1 DEF Drop, At
<1>3. /\ build'.at = "drop" /\ build'.failed = build.failed /\ build'.read = build.read
      /\ build'.known = build.known /\ build'.track = build.track
      /\ build'.drop = build.drop \ {q}
  BY DEF Drop, VectorsTypeOK, Builds
<1>4. Left' = Left /\ Left \subseteq Rows
  BY <1>3, ComparedStays DEF Left
<1>5. seen'[q] = Gone /\ \A r \in Rows : r # q => seen'[r] = seen[r]
  BY <1>2 DEF VectorsTypeOK
<1>6. \A r \in Left' \ build'.drop : seen'[r] = Gone
  BY <1>2, <1>3, <1>4, <1>5 DEF SureInv, At
<1>7. \A r \in Rows : IsNoted(r, Text(r))' /\ Text(r)' # Blank
  BY <1>2, <1>3 DEF SureInv, At, IsNoted, Text, table
<1> QED BY <1>2, <1>3, <1>6, <1>7 DEF SureInv, At, Text, table

\* The comparison found what is missing: every row stands for the text that was read when
\* what is left is dropped and the inserts are done.
LEMMA AllSettled ==
    ASSUME VectorsTypeOK, VectorsInv, SureInv, ~unsure, At({"drop", "insert"}),
           At({"drop"}) => build.drop = {},
           NEW r \in Rows, r \notin Targets
    PROVE  seen[r] = Text(r)
<1>1. damaged = {} /\ Text(r) # Blank
  BY DEF SureInv, At
<1>2. CASE r \in Left
  <2>1. seen[r] = Gone
    BY <1>2 DEF SureInv, At
  <2>2. Text(r) \in {Blank, Gone}
    BY <1>2 DEF Left, IsText, VectorsTypeOK, Builds, RowContents, Text
  <2> QED BY <1>1, <2>1, <2>2
<1>3. CASE r \notin Left
  <2>1. build.known[r] = seen[r]
    BY <1>1, <1>3 DEF VectorsInv, RunInv, KnownInv, Settled, At
  <2> QED BY <1>1, <1>3, <2>1, SettledRow
<1> QED BY <1>2, <1>3

LEMMA SureDropped == ASSUME VectorsTypeOK, VectorsInv, SureInv, Dropped PROVE SureInv'
<1>1. SUFFICES ASSUME ~unsure' PROVE SureInv'
  BY DEF SureInv
<1>2. /\ ~unsure /\ UNCHANGED <<table, vectors, seen, damaged>> /\ At({"drop"})
      /\ build.drop = {}
  BY <1>1 DEF Dropped, result, At
<1>3. damaged = {} /\ build.failed = {} /\ \A r \in Rows : texts[r].text # Blank
  BY <1>2 DEF SureInv
<1>4. \A r \in Rows : Text(r) # Blank /\ IsNoted(r, Text(r))
  BY <1>2 DEF SureInv, At
<1>5. CASE build.todo = {}
  <2>1. build'.at = "idle" /\ build'.failed = {}
    BY <1>5 DEF Dropped, EndBuild, NoBuild
  <2>2. Targets = {}
    <3>1. ASSUME NEW r \in Targets PROVE FALSE
      <4>1. Text(r) \in Texts
        BY DEF Targets, NewRows, Changed, IsText
      <4>2. 1 \in ChunksOf(Text(r))
        BY <4>1, ChunksOfText
      <4>3. [row |-> r, chunk |-> 1] \in ChunksOfRows(Targets)
        BY <4>2 DEF ChunksOfRows
      <4> QED BY <1>2, <1>5, <4>3 DEF VectorsInv, RunInv, At
    <3> QED BY <3>1
  <2>3. \A r \in Rows : seen[r] = Text(r)
    BY <1>2, <2>2, AllSettled DEF At
  <2> QED BY <1>2, <1>3, <1>4, <2>1, <2>3 DEF SureInv, At, IsNoted, table
<1>6. CASE build.todo # {}
  <2>1. /\ build'.at = "insert" /\ build'.failed = build.failed /\ build'.read = build.read
        /\ build'.known = build.known /\ build'.track = build.track
    BY <1>6 DEF Dropped, VectorsTypeOK, Builds
  <2>2. Left' = Left
    BY <2>1, ComparedStays
  <2> QED BY <1>2, <2>1, <2>2 DEF SureInv, At, IsNoted, Text, table
<1> QED BY <1>5, <1>6

LEMMA SureInsert == ASSUME VectorsTypeOK, VectorsInv, SureInv, Insert PROVE SureInv'
<1>1. SUFFICES ASSUME ~unsure' PROVE SureInv'
  BY DEF SureInv
<1>2. PICK c \in build.todo :
        /\ vectors' = vectors \cup
              {[row |-> c.row, text |-> Text(c.row), chunk |-> c.chunk,
                track |-> build.track, build |-> builds]}
        /\ build' = [build EXCEPT !.todo = @ \ {c}, !.ok = @ \cup {c.row}]
        /\ UNCHANGED unsure
  BY <1>1 DEF Insert
<1>3. /\ ~unsure /\ UNCHANGED <<table, seen, damaged>> /\ At({"insert"})
  BY <1>1, <1>2 DEF Insert, At
<1>4. /\ build'.at = "insert" /\ build'.failed = build.failed /\ build'.read = build.read
      /\ build'.known = build.known /\ build'.track = build.track
  BY <1>2, <1>3 DEF VectorsTypeOK, Builds, At
<1>5. Left' = Left
  BY <1>4, ComparedStays
<1>6. \A v \in vectors' : v \in vectors \/ v.track = build.track
  BY <1>2
<1>7. \A r \in Rows : IsNoted(r, Text(r))'
  BY <1>3, <1>4, <1>6 DEF SureInv, At, IsNoted, Text, table
<1> QED BY <1>3, <1>4, <1>5, <1>7 DEF SureInv, At, Text, table

LEMMA SureInserted == ASSUME VectorsTypeOK, VectorsInv, SureInv, Inserted PROVE SureInv'
<1>1. SUFFICES ASSUME ~unsure' PROVE SureInv'
  BY DEF SureInv
<1>2. /\ ~unsure /\ UNCHANGED <<table, vectors>> /\ At({"insert"}) /\ build.todo = {}
      /\ seen' = [r \in Rows |-> IF r \in build.ok THEN Text(r) ELSE seen[r]]
      /\ damaged' = damaged \cup (build.ok \cap build.failed)
  BY <1>1 DEF Inserted, At
<1>3. /\ build'.at = "replace" /\ build'.failed = build.failed /\ build'.read = build.read
      /\ build'.known = build.known /\ build'.track = build.track
  BY DEF Inserted, VectorsTypeOK, Builds
<1>4. damaged = {} /\ build.failed = {}
  BY <1>2 DEF SureInv
<1>5. ASSUME NEW r \in Rows PROVE seen'[r] = Text(r)
  <2>1. CASE r \in build.ok
    BY <1>2, <2>1
  <2>2. CASE r \notin build.ok
    <3>1. r \notin Targets
      <4>1. SUFFICES ASSUME r \in Targets PROVE FALSE
        OBVIOUS
      <4>2. Complete(r) /\ Fresh(r) = {}
        BY <1>2, <2>2, <4>1 DEF VectorsInv, FreshInv, FreshOf, At
      <4>3. Text(r) \in Texts
        BY <4>1 DEF Targets, NewRows, Changed, IsText
      <4>4. 1 \in ChunksOf(Text(r))
        BY <4>3, ChunksOfText
      <4> QED BY <1>2, <1>4, <4>2, <4>4 DEF Complete
    <3>2. seen[r] = Text(r)
      BY <1>2, <3>1, AllSettled DEF At
    <3> QED BY <1>2, <2>2, <3>2
  <2> QED BY <2>1, <2>2
<1> QED BY <1>2, <1>3, <1>4, <1>5 DEF SureInv, At, IsNoted, Text, table

LEMMA SureReplace == ASSUME VectorsTypeOK, SureInv, NEW q \in Rows, Replace(q) PROVE SureInv'
<1>1. SUFFICES ASSUME ~unsure' PROVE SureInv'
  BY DEF SureInv
<1>2. /\ ~unsure /\ UNCHANGED <<table, seen, damaged>> /\ vectors' \subseteq vectors
      /\ At({"replace"})
  BY <1>1 DEF Replace, Kept, At
<1>3. /\ build'.at = "replace" /\ build'.failed = build.failed /\ build'.read = build.read
      /\ build'.known = build.known /\ build'.track = build.track
  BY DEF Replace, VectorsTypeOK, Builds
<1> QED BY <1>2, <1>3 DEF SureInv, At, IsNoted, Text, table

LEMMA SureFinish == ASSUME VectorsTypeOK, SureInv, Finish PROVE SureInv'
<1>1. build'.at = "idle" /\ build'.failed = {}
  BY DEF Finish, EndBuild, NoBuild
<1> QED BY <1>1 DEF Finish, SureInv, At, IsNoted, table, result

LEMMA SureStep ==
    ASSUME VectorsAssumption, VectorsTypeOK, VectorsInv, ClockInv, SureInv, [VectorsNext]_vectorVars
    PROVE  SureInv'
<1>1. CASE SkipBuild \/ ReadRows
  <2>1. build'.failed = {}
    BY <1>1 DEF SkipBuild, ReadRows, result, VectorsTypeOK, Builds, VectorsInv, RunInv, At
  <2>2. \/ build'.at \in {"idle", "rows"}
        \/ build'.at = "track" /\ build'.read = texts
    BY <1>1 DEF SkipBuild, ReadRows, VectorsTypeOK, Builds
  <2> QED BY <1>1, <2>1, <2>2, SureRead DEF SkipBuild, ReadRows, result
<1>2. ASSUME NEW mode \in {"plain", "full"}, NEW check \in BOOLEAN, BeginBuild(mode, check)
      PROVE  SureInv'
  <2>1. build'.failed = {} /\ build'.at = "rows"
    BY <1>2 DEF BeginBuild, NoBuild
  <2> QED BY <1>2, <2>1, SureRead DEF BeginBuild, result
<1>3. CASE KillBuild
  BY <1>3 DEF KillBuild, SureInv
<1>4. CASE UpsertRecords \/ ReplaceRecords \/ Preload \/ Search \/ AnswerSearch \/ UNCHANGED vectorVars
  <2>1. UNCHANGED <<table, vectors, seen, damaged, unsure, build>>
    BY <1>4 DEF UpsertRecords, ReplaceRecords, Preload, Search, AnswerSearch, result, vectorVars
  <2>2. Left' = Left
    BY <2>1, ComparedStays
  <2> QED BY <2>1, <2>2 DEF SureInv, At, IsNoted, Text, table
<1> QED BY <1>1, <1>2, <1>3, <1>4, SureEdit, SureTrack, SureClear, SureDrop, SureDropped,
           SureInsert, SureInserted, SureReplace, SureFinish DEF VectorsNext, Tool

LEMMA CheckInit == ASSUME VectorsAssumption, VectorsInit PROVE CheckInv
<1>1. /\ build = NoBuild /\ damaged = {} /\ edits = 0
      /\ texts \in [Rows -> [text : Texts, stamp : {0}]]
  BY DEF VectorsInit
<1>2. build.at = "idle" /\ build.failed = {} /\ build.track = 0
  BY <1>1 DEF NoBuild
<1>3. \A v \in vectors : v.track = 0
  BY DEF VectorsInit
<1>4. \A r \in Rows : texts[r].text \in Texts /\ texts[r].stamp = 0
  BY <1>1
<1>5. ClockInv
  BY <1>1, <1>2, <1>3, <1>4 DEF ClockInv
<1>6. \A r \in Rows : IsNoted(r, seen[r])
  <2>1. CASE vectors = {}
    BY <2>1 DEF IsNoted
  <2>2. CASE seen = [r \in Rows |-> texts[r].text]
    BY <2>2 DEF IsNoted
  <2> QED BY <2>1, <2>2 DEF VectorsInit
<1>7. Blank \notin Texts
  BY DEF Blank, Texts
<1>8. SureInv
  BY <1>1, <1>2, <1>4, <1>6, <1>7 DEF SureInv, At
<1> QED BY <1>5, <1>8 DEF CheckInv

\* If as many rows are there as have vectors, and the newest stamps are the same, then no
\* row is written after its vectors and none is missing.
LEMMA CheckHolds ==
    ASSUME VectorsAssumption, VectorsTypeOK, VectorsInv, CheckInv
    PROVE  CheckIsSound
<1>1. SUFFICES ASSUME SameSignature, build.at = "idle", ~unsure
               PROVE  \A r \in Rows : seen[r] = texts[r].text
  BY DEF CheckIsSound
<1> DEFINE present == {r \in Rows : texts[r].text # Gone}
           withVectors == {v.row : v \in vectors}
           tracks == {v.track : v \in vectors}
<1>2. Cardinality(present) = Cardinality(withVectors) /\ SourceTrack = Newest(tracks)
  BY <1>1 DEF SameSignature
<1>3. damaged = {} /\ \A r \in Rows : IsNoted(r, seen[r])
  BY <1>1 DEF CheckInv, SureInv, At
<1>4. ASSUME NEW r \in Rows PROVE r \in withVectors <=> seen[r] # Gone
  <2>1. WholeSet(Of(r), seen[r]) /\ seen[r] \in Texts \cup {Gone}
    BY <1>1, <1>3 DEF VectorsInv, WholeInv, Current, At, VectorsTypeOK
  <2>2. r \in withVectors <=> Of(r) # {}
    BY DEF Of
  <2>3. Of(r) = {} <=> seen[r] = Gone
    BY <2>1, ChunksOfText DEF WholeSet
  <2> QED BY <2>2, <2>3
<1>5. withVectors \subseteq Rows /\ IsFiniteSet(Rows)
  BY FS_Interval DEF VectorsTypeOK, Vectors, Rows, VectorsAssumption
<1>6. IsFiniteSet(present) /\ IsFiniteSet(withVectors)
  BY <1>5, FS_Subset
<1>7. ASSUME NEW r \in Rows PROVE texts[r].text \in {seen[r], Gone}
  <2>1. SUFFICES ASSUME \A v \in vectors : v.track < texts[r].stamp,
                        texts[r].text # Gone
                 PROVE  FALSE
    BY <1>3 DEF IsNoted
  <2>2. r \in present
    BY <2>1
  <2>3. withVectors # {}
    BY <1>2, <1>6, <2>2, FS_EmptySet
  <2>4. PICK v \in vectors : TRUE
    BY <2>3
  <2>5. tracks \in SUBSET (0..MaxChanges)
    BY DEF VectorsTypeOK, Vectors
  <2>6. Newest(tracks) \in {0} \cup tracks
    BY <2>5, NewestIsLargest DEF VectorsAssumption
  <2>7. v.track \in Nat /\ texts[r].stamp \in Nat /\ texts[r].stamp <= SourceTrack
        /\ SourceTrack \in Nat
    BY TrackType DEF VectorsTypeOK, Vectors, RowContents
  <2>8. Newest(tracks) < texts[r].stamp
    <3>1. CASE Newest(tracks) = 0
      BY <2>1, <2>4, <2>7, <3>1
    <3>2. CASE Newest(tracks) \in tracks
      BY <2>1, <3>2
    <3> QED BY <2>6, <3>1, <3>2
  <2> QED BY <1>2, <2>7, <2>8
<1>8. present \subseteq withVectors
  BY <1>4, <1>7
<1>9. present = withVectors
  BY <1>2, <1>6, <1>8, FS_Subset
<1> QED BY <1>4, <1>7, <1>9

\* A whole set has as many vectors as the text has chunks.
LEMMA ExactHolds == ASSUME VectorsAssumption, VectorsTypeOK, VectorsInv PROVE IndexIsExact
<1>1. SUFFICES ASSUME build.at = "idle", NEW r \in Rows \ damaged
               PROVE  /\ {<<v.text, v.chunk>> : v \in Of(r)} = {seen[r]} \X ChunksOf(seen[r])
                      /\ Cardinality(Of(r)) = Cardinality(ChunksOf(seen[r]))
  BY DEF IndexIsExact
<1>2. WholeSet(Of(r), seen[r])
  BY <1>1 DEF VectorsInv, WholeInv, Current, At
<1> DEFINE f == [v \in Of(r) |-> v.chunk]
<1>3. f \in Bijection(Of(r), ChunksOf(seen[r]))
  <2>1. f \in [Of(r) -> ChunksOf(seen[r])]
    BY <1>2 DEF WholeSet
  <2>2. \A v, w \in Of(r) : f[v] = f[w] => v = w
    BY <1>2 DEF WholeSet
  <2>3. \A k \in ChunksOf(seen[r]) : \E v \in Of(r) : f[v] = k
    BY <1>2 DEF WholeSet
  <2> HIDE DEF f
  <2> QED BY <2>1, <2>2, <2>3 DEF Bijection, Injection, Surjection, IsInjective
<1>4. IsFiniteSet(Of(r))
  <2>1. Of(r) \subseteq Vectors
    BY DEF Of, VectorsTypeOK
  <2> QED BY <2>1, VectorsAreFinite, FS_Subset
<1>5. ExistsBijection(Of(r), ChunksOf(seen[r]))
  BY <1>3 DEF ExistsBijection
<1>6. Cardinality(Of(r)) = Cardinality(ChunksOf(seen[r]))
  BY <1>4, <1>5, FS_Bijection
<1>7. \A v \in Of(r) : <<v.text, v.chunk>> \in {seen[r]} \X ChunksOf(seen[r])
  BY <1>2 DEF WholeSet
<1>8. ASSUME NEW k \in ChunksOf(seen[r])
      PROVE  <<seen[r], k>> \in {<<v.text, v.chunk>> : v \in Of(r)}
  BY <1>2 DEF WholeSet
<1> QED BY <1>6, <1>7, <1>8

LEMMA CurrentStep == ASSUME IndexIsCurrent, [VectorsNext]_vectorVars PROVE IndexIsCurrent'
<1>1. CASE UpsertRecords
  BY <1>1 DEF UpsertRecords, MarkDirty, IndexIsCurrent
<1>2. CASE ReplaceRecords
  BY <1>2 DEF ReplaceRecords, MarkDirty, IndexIsCurrent
<1>3. CASE Preload
  BY <1>3 DEF Preload, IndexIsCurrent
<1>4. CASE Search
  BY <1>4 DEF Search, IndexIsCurrent
<1>5. CASE UNCHANGED <<copied, indexed>>
  BY <1>5 DEF IndexIsCurrent
<1>6. CASE Tool \/ KillBuild \/ AnswerSearch \/ (\E r \in Rows, x \in Texts \cup {Blank, Gone} : EditRow(r, x))
  BY <1>5, <1>6 DEF Tool, KillBuild, AnswerSearch, EditRow, SkipBuild, BeginBuild, ReadRows, ReadTrack, Clear,
     Dropped, Insert, Inserted, Drop, Replace, Finish, store, memory
<1>7. CASE UNCHANGED vectorVars
  BY <1>5, <1>7 DEF vectorVars, store, memory
<1> QED BY <1>1, <1>2, <1>3, <1>4, <1>6, <1>7 DEF VectorsNext

LEMMA HitsStep == ASSUME VectorsAssumption, VectorsTypeOK, HitsAreTheirs, [VectorsNext]_vectorVars PROVE HitsAreTheirs'
<1>1. CASE UNCHANGED hits
  BY <1>1 DEF HitsAreTheirs
<1>2. CASE Search
  BY <1>2 DEF Search, HitsAreTheirs
<1>3. CASE AnswerSearch
  <2>1. SUFFICES ASSUME NEW h \in hits', h.known
                 PROVE  h.payload = <<h.nearest.text, h.nearest.chunk>>
    BY DEF HitsAreTheirs
  <2>2. PICK near \in SUBSET query : \E v \in near : h \in Hit(near, v)
    BY <1>3, <2>1, AnswerHits
  <2>3. PICK v \in near : h \in Hit(near, v)
    BY <2>2
  <2> DEFINE shown == IF Payload(v) = {} THEN {<<Gone, 1>>}
                      ELSE {<<w.text, w.chunk>> : w \in Payload(v)}
  <2>4. PICK p \in shown :
          h = [nearest |-> v, matched |-> Cardinality({w \in near : w.row = v.row}),
               payload |-> p, known |-> query = copied /\ Cardinality({w \in copied :
                                 w.row = v.row /\ w.chunk = v.chunk}) = 1]
    BY <2>3 DEF Hit
  <2>5. /\ h.nearest = v /\ h.payload = p
        /\ h.known = (query = copied /\ Cardinality({w \in copied :
                                 w.row = v.row /\ w.chunk = v.chunk}) = 1)
    BY <2>4
  <2>6. h.nearest = v /\ query = copied /\ Cardinality(Payload(v)) = 1 /\ h.payload \in shown
    BY <2>1, <2>4, <2>5, Zenon DEF Payload
  <2>7. v \in Payload(v)
    BY <2>3, <2>6 DEF Payload
  <2>8. IsFiniteSet(Payload(v))
    <3>1. Payload(v) \subseteq Vectors
      BY DEF Payload, VectorsTypeOK
    <3> QED BY <3>1, VectorsAreFinite, FS_Subset
  <2>9. Payload(v) = {v}
    BY <2>6, <2>7, <2>8, FS_Singleton
  <2> QED BY <2>6, <2>9
<1>4. CASE Tool \/ KillBuild \/ UpsertRecords \/ ReplaceRecords \/ Preload
           \/ (\E r \in Rows, x \in Texts \cup {Blank, Gone} : EditRow(r, x))
  BY <1>1, <1>4 DEF Tool, KillBuild, UpsertRecords, ReplaceRecords, Preload, EditRow, SkipBuild,
     BeginBuild, ReadRows, ReadTrack, Clear, Dropped, Insert, Inserted, Drop, Replace, Finish,
     store, search
<1>5. CASE UNCHANGED vectorVars
  BY <1>1, <1>5 DEF vectorVars, store, search
<1> QED BY <1>2, <1>3, <1>4, <1>5 DEF VectorsNext

IndexInv == SoundInv /\ CheckInv /\ IndexIsCurrent /\ HitsAreTheirs

\* Between the builds the vectors of a row that no failure damaged are exactly the chunks of
\* the text that was read; a --check that ends at once has left out no change; the index in
\* memory is what the store holds; and a hit shows the chunk that was near the question: for
\* every table, every text and every sequence of builds, failures and kills.
THEOREM IndexStaysSound == ASSUME VectorsAssumption PROVE VectorsSpec => []IndexIsSound
<1>1. VectorsInit => IndexInv
  <2>1. VectorsInit => IndexIsCurrent /\ HitsAreTheirs
    BY DEF VectorsInit, IndexIsCurrent, HitsAreTheirs
  <2> QED BY <2>1, SoundInit, CheckInit DEF IndexInv
<1>2. IndexInv /\ [VectorsNext]_vectorVars => IndexInv'
  BY SoundStep, ClockStep, SureStep, CurrentStep, HitsStep DEF IndexInv, SoundInv, CheckInv
<1>3. IndexInv => IndexIsSound
  BY CheckHolds, ExactHolds DEF IndexInv, SoundInv, IndexIsSound
<1> QED BY <1>1, <1>2, <1>3, PTL DEF VectorsSpec

=============================================================================
