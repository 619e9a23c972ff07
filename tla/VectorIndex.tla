---------------------------- MODULE VectorIndex ----------------------------
(***************************************************************************)
(* The vectors of one index.  tools/build_vectors.py compares the rows of  *)
(* a table with the vectors that exist and inserts, replaces and deletes,  *)
(* each vector in a transaction of its own; embeddings, inserts and        *)
(* deletions may fail, and the next build starts from what is there.  The  *)
(* store of a gateway (lib/services/duckdb_cache_store.py) copies the      *)
(* vectors and searches them in an index that it keeps in memory.          *)
(***************************************************************************)
EXTENDS Integers, FiniteSets, Sequences, SequencesExt

CONSTANTS
    NumRows, NumTexts,
    Long,               \* the texts that are cut into two chunks
    MaxChanges,         \* bound: changes of the table
    MaxBuilds,          \* bound: runs of the tool
    MaxSlips,           \* bound: failures and crashes
    Searching           \* there is a gateway that searches

Rows == 1..NumRows
Texts == 1..NumTexts

VectorsAssumption ==
    /\ NumRows \in Nat /\ NumTexts \in Nat /\ Long \subseteq Texts
    /\ MaxChanges \in Nat /\ MaxBuilds \in Nat /\ MaxSlips \in Nat
    /\ Searching \in BOOLEAN

Blank == 0   \* a row without text to embed
Gone == -1   \* no row, or no vector

VARIABLES
    texts,    \* of every row: its text, and its tracking column
    vectors,
    build,    \* the run of the tool
    builds,
    seen,     \* history: the text that the vectors of a row stand for
    damaged,  \* history: rows whose vectors may be no whole set of chunks
    unsure,   \* history: the signature may be that of other vectors
    edits,
    copied,   \* the vectors in the store
    indexed,  \* _index_cache: what the index was made of, or {}
    dirty,    \* _dirty_sources
    query,    \* a search that waits for its embedding: the index it has, or {}
    hits,     \* what the last search found
    slips

table == <<texts, edits>>
result == <<vectors, seen, damaged, unsure>>
memory == <<copied, indexed, dirty>>
search == <<query, hits>>
store == <<memory, search>>
vectorVars == <<table, result, build, builds, store, slips>>

RowContents == [text : Texts \cup {Blank, Gone}, stamp : 0..MaxChanges]
Vectors == [row : Rows, text : Texts, chunk : {1, 2}, track : 0..MaxChanges,
            build : 0..MaxBuilds]
ChunksOf(x) == IF x \in Texts THEN IF x \in Long THEN {1, 2} ELSE {1} ELSE {}
Of(r) == {v \in vectors : v.row = r}

Hits == [nearest : Vectors, matched : Nat \ {0},
         payload : (Texts \cup {Gone}) \X {1, 2}, known : BOOLEAN]
Builds == [at : {"idle", "rows", "track", "clear", "drop", "insert", "replace"},
           mode : {"plain", "full"},
           known : [Rows -> Texts \cup {Gone}], read : [Rows -> RowContents],
           track : 0..MaxChanges, drop : SUBSET Rows,
           todo : SUBSET [row : Rows, chunk : {1, 2}],
           changed : SUBSET Rows, ok : SUBSET Rows, failed : SUBSET Rows]
NoBuild == [at |-> "idle", mode |-> "plain", known |-> [r \in Rows |-> Gone],
            read |-> [r \in Rows |-> [text |-> Gone, stamp |-> 0]], track |-> 0,
            drop |-> {}, todo |-> {}, changed |-> {}, ok |-> {}, failed |-> {}]

VectorsTypeOK ==
    /\ texts \in [Rows -> RowContents] /\ edits \in 0..MaxChanges
    /\ vectors \subseteq Vectors
    /\ build \in Builds
    /\ builds \in 0..MaxBuilds
    /\ seen \in [Rows -> Texts \cup {Gone}] /\ damaged \subseteq Rows
    /\ unsure \in BOOLEAN
    /\ copied \subseteq Vectors /\ indexed \subseteq Vectors /\ dirty \in BOOLEAN
    /\ query \subseteq Vectors
    /\ hits \subseteq Hits
    /\ slips \in 0..MaxSlips

Slip == slips < MaxSlips /\ slips' = slips + 1
Text(r) == build.read[r].text
IsText(r) == Text(r) \in Texts

-----------------------------------------------------------------------------
\* The table changes at any time; the tracking column is the time of the change.
EditRow(r, x) ==
    /\ edits < MaxChanges
    /\ texts[r].text # x
    /\ edits' = edits + 1
    /\ texts' = [texts EXCEPT ![r] =
                    [text |-> x, stamp |-> IF x = Gone THEN 0 ELSE edits + 1]]
    /\ unsure' = (unsure \/ x = Blank)
    /\ UNCHANGED <<vectors, seen, damaged, build, builds, store, slips>>

-----------------------------------------------------------------------------
\* The tool.

Newest(S) == Max({0} \cup S)
SourceTrack == Newest({texts[r].stamp : r \in Rows})

\* Variant: only the newest stamps are compared.
SameTrack == SourceTrack = Newest({v.track : v \in vectors})

\* _filter_unchanged compares how many rows there are, and their newest stamp,
\* with what the vectors say.  A column that is no time of change may stay as it is
\* when the row changes.
SameSignature ==
    /\ Cardinality({r \in Rows : texts[r].text # Gone})
         = Cardinality({v.row : v \in vectors})
    /\ SourceTrack = Newest({v.track : v \in vectors})

\* --check ends here if nothing seems to have changed.
SkipBuild ==
    /\ build.at = "idle" /\ builds < MaxBuilds
    /\ SameSignature
    /\ builds' = builds + 1
    /\ UNCHANGED <<table, result, build, store, slips>>

\* _get_existing_entries: one entry for a row that has several vectors, any of
\* them.  A full rebuild looks at none.
BeginBuild(mode, check) ==
    /\ build.at = "idle" /\ builds < MaxBuilds
    /\ check => mode = "plain" /\ ~SameSignature
    /\ builds' = builds + 1
    /\ \E known \in [Rows -> Texts \cup {Gone}] :
         /\ \A r \in Rows :
              IF mode = "full" \/ Of(r) = {} THEN known[r] = Gone
              ELSE known[r] \in {v.text : v \in Of(r)}
         /\ build' = [NoBuild EXCEPT !.at = "rows", !.mode = mode, !.known = known]
    /\ UNCHANGED <<table, result, store, slips>>

ReadRows ==
    /\ build.at = "rows"
    /\ build' = [build EXCEPT !.at = "track", !.read = texts]
    /\ UNCHANGED <<table, result, builds, store, slips>>

ChunksOfRows(S) == UNION {{[row |-> r, chunk |-> k] : k \in ChunksOf(Text(r))} : r \in S}
NewRows == {r \in Rows : IsText(r) /\ build.known[r] = Gone}
Changed == {r \in Rows : IsText(r) /\ build.known[r] \notin {Gone, Text(r)}}
Left == {r \in Rows : ~IsText(r) /\ build.known[r] # Gone}

\* The new rows come first, then the changed ones, each in the order of the query, and
\* the chunks of a row in the order of its text.
Before(c, d) ==
    \/ c.row \in NewRows /\ d.row \notin NewRows
    \/ /\ c.row \in NewRows <=> d.row \in NewRows
       /\ c.row < d.row \/ (c.row = d.row /\ c.chunk <= d.chunk)
IsFirst(c, S) == \A d \in S : Before(c, d)

EndBuild == build' = NoBuild

\* The newest stamp is read after the rows; then the rows are compared.
ReadTrack ==
    /\ build.at = "track"
    /\ unsure' = (unsure \/ texts # build.read)
    /\ IF NewRows \cup Changed \cup Left = {} THEN EndBuild
       ELSE build' = [build EXCEPT
              !.at = IF build.mode = "full" THEN "clear" ELSE "drop",
              !.track = SourceTrack, !.drop = Left, !.changed = Changed,
              !.todo = ChunksOfRows(NewRows \cup Changed)]
    /\ UNCHANGED <<table, vectors, seen, damaged, builds, store, slips>>

\* A full rebuild deletes every vector first; if that fails it goes on.
Clear ==
    /\ build.at = "clear"
    /\ \/ /\ vectors' = {} /\ damaged' = {} /\ seen' = [r \in Rows |-> Gone]
          /\ UNCHANGED <<slips, unsure>>
       \/ /\ Slip /\ UNCHANGED <<vectors, seen>>
          /\ damaged' = damaged \cup {v.row : v \in vectors} /\ unsure' = TRUE
    /\ build' = [build EXCEPT !.at = "insert"]
    /\ UNCHANGED <<table, builds, store>>

Drop(r) ==
    /\ build.at = "drop" /\ r \in build.drop
    /\ \/ /\ vectors' = vectors \ Of(r)
          /\ damaged' = damaged \ {r} /\ seen' = [seen EXCEPT ![r] = Gone]
          /\ UNCHANGED <<slips, unsure>>
       \/ Slip /\ UNCHANGED <<vectors, seen, damaged>> /\ unsure' = TRUE
    /\ build' = [build EXCEPT !.drop = @ \ {r}]
    /\ UNCHANGED <<table, builds, store>>

Dropped ==
    /\ build.at = "drop" /\ build.drop = {}
    /\ IF build.todo = {} THEN EndBuild ELSE build' = [build EXCEPT !.at = "insert"]
    /\ UNCHANGED <<table, result, builds, store, slips>>

\* The embedding of a chunk, asked for twice, and its insert.
Insert ==
    /\ build.at = "insert"
    /\ \E c \in build.todo :
       /\ IsFirst(c, build.todo)
       /\ \/ /\ vectors' = vectors \cup
                  {[row |-> c.row, text |-> Text(c.row), chunk |-> c.chunk,
                    track |-> build.track, build |-> builds]}
             /\ build' = [build EXCEPT !.todo = @ \ {c}, !.ok = @ \cup {c.row}]
             /\ UNCHANGED <<slips, unsure>>
          \/ /\ Slip /\ unsure' = TRUE
             /\ build' = [build EXCEPT !.todo = @ \ {c}, !.failed = @ \cup {c.row}]
             /\ UNCHANGED vectors
    /\ UNCHANGED <<table, seen, damaged, builds, store>>

\* The rows of which something was inserted stand for the text that was read.
Inserted ==
    /\ build.at = "insert" /\ build.todo = {}
    /\ build' = [build EXCEPT !.at = "replace"]
    /\ seen' = [r \in Rows |-> IF r \in build.ok THEN Text(r) ELSE seen[r]]
    /\ damaged' = damaged \cup (build.ok \cap build.failed)
    /\ UNCHANGED <<table, vectors, unsure, builds, store, slips>>

\* Variant: the old vectors go although nothing was inserted.
ReplacedAlways(r) == r \in build.changed
Replaced(r) == r \in build.changed \cap build.ok

\* Variant: only the vectors whose chunks came anew go.
KeptOfRow(r) ==
    {v \in vectors : v.row = r /\ v.chunk \in ChunksOf(Text(r)) => v.text = Text(r)}
Kept(r) == {v \in vectors : v.row = r => v.text = Text(r)}

\* The old vectors of a row go after the insert of the new ones, of at least
\* one of them.
Replace(r) ==
    /\ build.at = "replace" /\ r \in build.changed
    /\ IF Replaced(r)
       THEN \/ /\ vectors' = Kept(r)
               /\ UNCHANGED <<damaged, unsure, slips>>
            \/ /\ Slip /\ UNCHANGED vectors
               /\ damaged' = damaged \cup {r} /\ unsure' = TRUE
       ELSE UNCHANGED <<vectors, damaged, unsure, slips>>
    /\ build' = [build EXCEPT !.changed = @ \ {r}]
    /\ UNCHANGED <<table, seen, builds, store>>

Finish ==
    /\ build.at = "replace" /\ build.changed = {}
    /\ EndBuild
    /\ UNCHANGED <<table, result, builds, store, slips>>

\* The tool is killed.
KillBuild ==
    /\ build.at # "idle"
    /\ Slip
    /\ EndBuild
    /\ damaged' = damaged \cup build.ok
    /\ unsure' = TRUE
    /\ UNCHANGED <<table, vectors, seen, builds, store>>

-----------------------------------------------------------------------------
\* The store.

\* Variant: the index that exists is kept.
MarkLazily(rows) == UNCHANGED indexed /\ dirty' = (dirty \/ rows # {})
\* _mark_vector_sources_dirty: the sources of the rows that came.
MarkDirty(rows) ==
    IF rows = {} THEN UNCHANGED <<indexed, dirty>> ELSE indexed' = {} /\ dirty' = TRUE

\* upsert_records with what is new, replace_records with everything.
UpsertRecords ==
    /\ Searching /\ vectors \ copied # {}
    /\ copied' = copied \cup vectors
    /\ MarkDirty(vectors \ copied)
    /\ UNCHANGED <<table, result, build, builds, search, slips>>

ReplaceRecords ==
    /\ Searching /\ vectors # copied
    /\ copied' = vectors
    /\ MarkDirty(vectors)
    /\ UNCHANGED <<table, result, build, builds, search, slips>>

\* preload_indexes
Preload ==
    /\ Searching /\ indexed = {} /\ copied # {}
    /\ indexed' = copied
    /\ UNCHANGED <<table, result, build, builds, copied, dirty, search, slips>>

\* search_vector under the lock of the store: the index, made anew if it must be.
Search ==
    /\ Searching /\ query = {}
    /\ indexed' = IF dirty \/ indexed = {} THEN copied ELSE indexed
    /\ dirty' = FALSE /\ query' = indexed' /\ hits' = {}
    /\ UNCHANGED <<table, result, build, builds, copied, slips>>

\* Variant: any chunk of the row.
PayloadOfRow(v) == {w \in copied : w.row = v.row}
\* build_raw_items: the vectors whose content a hit may be given.
Payload(v) == {w \in copied : w.row = v.row /\ w.chunk = v.chunk}

\* group_vector_hits: a row stands once, for the nearest of its chunks that pass the
\* threshold, with one of the contents that the store has now.
Hit(near, v) ==
    LET had == Payload(v) IN
    {[nearest |-> v, matched |-> Cardinality({w \in near : w.row = v.row}),
      payload |-> p, known |-> query = copied /\ Cardinality({w \in copied :
                                 w.row = v.row /\ w.chunk = v.chunk}) = 1] :
       p \in IF had = {} THEN {<<Gone, 1>>} ELSE {<<w.text, w.chunk>> : w \in had}}

\* The embedding of the question is there, or is not; the lock is free meanwhile.
AnswerSearch ==
    /\ query # {}
    /\ \/ hits' = {}
       \/ \E near \in SUBSET query :
            \E best \in [{v.row : v \in near} -> near] :
              /\ \A r \in DOMAIN best : best[r].row = r
              /\ \E h \in [DOMAIN best -> UNION {Hit(near, v) : v \in near}] :
                   /\ \A r \in DOMAIN best : h[r] \in Hit(near, best[r])
                   /\ hits' = Range(h)
    /\ query' = {}
    /\ UNCHANGED <<table, result, build, builds, memory, slips>>

-----------------------------------------------------------------------------
\* There are no vectors yet, or an earlier build made them.
VectorsInit ==
    /\ texts \in [Rows -> [text : Texts, stamp : {0}]] /\ edits = 0
    /\ \/ vectors = {} /\ seen = [r \in Rows |-> Gone]
       \/ /\ vectors = UNION {{[row |-> r, text |-> texts[r].text, chunk |-> c,
                                track |-> 0, build |-> 0] :
                                 c \in ChunksOf(texts[r].text)} : r \in Rows}
          /\ seen = [r \in Rows |-> texts[r].text]
    /\ build = NoBuild /\ builds = 0 /\ damaged = {} /\ unsure = FALSE
    /\ copied = {} /\ indexed = {} /\ dirty = FALSE /\ query = {} /\ hits = {}
    /\ slips = 0

Tool ==
    \/ SkipBuild \/ BeginBuild("plain", TRUE)
    \/ \E mode \in {"plain", "full"} : BeginBuild(mode, FALSE)
    \/ ReadRows \/ ReadTrack \/ Clear \/ Dropped \/ Insert \/ Inserted
    \/ (\E r \in Rows : Drop(r) \/ Replace(r)) \/ Finish

VectorsNext ==
    \/ \E r \in Rows, x \in Texts \cup {Blank, Gone} : EditRow(r, x)
    \/ Tool \/ KillBuild \/ UpsertRecords \/ ReplaceRecords \/ Preload \/ Search
    \/ AnswerSearch

VectorsSpec == VectorsInit /\ [][VectorsNext]_vectorVars

-----------------------------------------------------------------------------
\* Properties.

\* A row that has a text and had vectors is never without a vector, whatever
\* fails or dies while it is replaced; only a full rebuild empties the table.
RowStaysIndexed ==
    [][\A r \in Rows :
         Of(r) # {} /\ Of(r)' = {} => build.mode = "full" \/ ~IsText(r)]_vectorVars

\* Between the builds the vectors of a row are one set of chunks of the text
\* that was read, each chunk once, unless a failure cut the set or a kill left
\* two of them.
IndexIsExact ==
    build.at = "idle" =>
      \A r \in Rows \ damaged :
        /\ {<<v.text, v.chunk>> : v \in Of(r)} = {seen[r]} \X ChunksOf(seen[r])
        /\ Cardinality(Of(r)) = Cardinality(ChunksOf(seen[r]))

\* --check leaves out no change, if nothing failed, no row changed between the
\* two queries of a build, every row had a text and its tracking column is the time of
\* its last change, as it is for every index of project.json.
CheckIsSound ==
    SameSignature /\ build.at = "idle" /\ ~unsure =>
      \A r \in Rows : seen[r] = texts[r].text

\* The index in memory is what the store holds, or the store lost the last
\* vector.
IndexIsCurrent == indexed # {} => copied \in {indexed, {}}

\* What a hit shows is the chunk that was near the question, if the store did not
\* change while the question was embedded and the row has one set of vectors.
HitsAreTheirs ==
    \A h \in hits : h.known => h.payload = <<h.nearest.text, h.nearest.chunk>>

\* The vectors and what is done with them are sound.
IndexIsSound == IndexIsExact /\ CheckIsSound /\ IndexIsCurrent /\ HitsAreTheirs

=============================================================================
