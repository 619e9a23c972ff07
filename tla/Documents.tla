----------------------------- MODULE Documents -----------------------------
(***************************************************************************)
(* How the legal summarizer cuts a document and puts its summary together  *)
(* again (workspace/skills/legal_summarizer/scripts): headings make a tree *)
(* of sections, sections become units, units are packed into chunks and    *)
(* chunks into batches; every batch is summarised by one call of the       *)
(* model, and the summaries are reduced by section and in rounds.  Blocks  *)
(* are numbered from 1, sections from 1; 0 is the root of the tree.        *)
(***************************************************************************)
EXTENDS Integers, FiniteSets, Sequences, SequencesExt, FiniteSetsExt, Functions

CONSTANTS
    BlockKinds,     \* blocks: [size, table, heads]; a heading is [rank, major]
    NumBlocks,      \* bound: the blocks of a document
    MaxChars, TargetChars,
    MaxSections, BatchTokens,   \* of a batch
    DirectTokens, ManySections, \* what decides the strategy
    GroupSize, MaxRounds,       \* of the reduction
    MaxFailures     \* bound: calls of the model that fail

VARIABLES
    document,  \* the blocks
    stage,     \* what the run does next, or how it ended
    chunks, plan,
    next,      \* the batch to run
    partials,  \* the chunks that have a summary
    parts,     \* the summaries to reduce: each is the set of chunks it speaks of
    rounds, calls, failures

vars == <<document, stage, chunks, plan, next, partials, parts, rounds, calls,
          failures>>

Root == 0

-----------------------------------------------------------------------------
\* The sections: one for every heading, in the order of the document.
Sections(d) ==
    LET Of(i) == [h \in 1..Len(d[i].heads) |-> [start |-> i] @@ d[i].heads[h]]
    IN  FlattenSeq([i \in 1..Len(d) |-> Of(i)])

\* A section ends before the next heading.
End(d, s, n) ==
    IF n = Root \/ n = Len(s) THEN Len(d)
    ELSE Max({s[n].start, s[n + 1].start - 1})

Start(s, n) == IF n = Root THEN 1 ELSE s[n].start

\* The parent is the last section before with a smaller rank.
Parent(s, n) == Max({Root} \cup {m \in 1..(n - 1) : s[m].rank < s[n].rank})

Children(s, n) == {m \in 1..Len(s) : Parent(s, m) = n}

\* The section itself and those below it.
Family(s, n) ==
    LET above[m \in 0..Len(s)] ==
            {m} \cup (IF m = Root THEN {} ELSE above[Parent(s, m)])
    IN  {m \in 0..Len(s) : n \in above[m]}

\* Broken: the blocks of the section alone.
SubtreeOfNode(d, s, n) == Start(s, n)..End(d, s, n)

\* The blocks of a section and of those below it.
Subtree(d, s, n) ==
    Min({Start(s, m) : m \in Family(s, n)})
    .. Max({End(d, s, m) : m \in Family(s, n)})

\* Every block belongs to the deepest section around it.
Owner(d, s, b) ==
    LET Depth(n) == Cardinality({m \in 1..Len(s) : n \in Family(s, m)})
        around == {n \in 1..Len(s) : b \in s[n].start..End(d, s, n)}
        deepest == {n \in around : \A m \in around : Depth(m) <= Depth(n)}
    IN  IF around = {} THEN Root ELSE Min(deepest)

-----------------------------------------------------------------------------
Size(d, blocks) == MapThenSumSet(LAMBDA b : d[b].size, blocks)
Oversized(d, b) == d[b].size > MaxChars
InOrder(set) ==
    SelectSeq([i \in 1..Max({0} \cup set) |-> i], LAMBDA i : i \in set)

\* The target is set right when it does not suit the limit.
Target ==
    IF 10 * TargetChars < 3 * MaxChars \/ TargetChars > MaxChars
    THEN (6 * MaxChars) \div 10 ELSE TargetChars

Unit(d, blocks, section) ==
    [kind |-> "structural", blocks |-> blocks, section |-> section,
     size |-> Size(d, ToSet(blocks)), from |-> 0]

\* The section that names a unit of blocks that no section below covers.
Primary(d, s, n, blocks) ==
    LET owners == SelectSeq([i \in 1..Len(blocks) |-> Owner(d, s, blocks[i])],
                            LAMBDA o : o # Root)
    IN  IF owners = <<>> THEN n ELSE Head(owners)

\* A section without others below it is cut where it grows too long.
CutLeaf(d, n, blocks) ==
    LET Add(made, b) ==
            IF made # <<>> /\ Size(d, ToSet(Last(made))) + d[b].size <= MaxChars
            THEN Front(made) \o <<Append(Last(made), b)>>
            ELSE Append(made, <<b>>)
        cut == FoldLeft(Add, <<>>, blocks)
    IN  [i \in 1..Len(cut) |-> Unit(d, cut[i], n)]

\* A section that fits the target is one unit; else it is opened: its own
\* blocks are one unit, however long, and the sections below follow.
UnitsOf(d, s) ==
    LET Normal(blocks) == InOrder({b \in blocks : ~Oversized(d, b)})
        Whole(n) == /\ n # Root
                    /\ \A b \in Subtree(d, s, n) : ~Oversized(d, b)
                    /\ Size(d, Subtree(d, s, n)) <= Min({MaxChars, Target})
        Own(n) == Normal(Subtree(d, s, n)
                         \ UNION {Subtree(d, s, m) : m \in Children(s, n)})
        units[n \in 0..Len(s)] ==
            LET below == InOrder(Children(s, n))
            IN  IF Whole(n) THEN <<Unit(d, Normal(Subtree(d, s, n)), n)>>
                ELSE IF below = <<>> THEN CutLeaf(d, n, Own(n))
                ELSE (IF Own(n) = <<>> THEN <<>>
                      ELSE <<Unit(d, Own(n), Primary(d, s, n, Own(n)))>>)
                     \o FlattenSeq([c \in DOMAIN below |-> units[below[c]]])
    IN  units[Root]

\* The ways to cut a long text: each part ends at a separator in the second
\* half of its window, or at the end of the window.
Cuts(size) ==
    {ends \in SUBSET (1..size) :
        /\ size \in ends
        /\ \A e \in ends :
             LET from == Max({0} \cup {f \in ends : f < e})
             IN  IF size - from <= MaxChars THEN e = size
                 ELSE e - from \in ((MaxChars \div 2) + 1)..MaxChars}

\* The parts of an oversized block are units of their own.
PartsOf(d, s, b, ends) ==
    [i \in 1..Cardinality(ends) |->
        LET end == InOrder(ends)[i]
            from == IF i = 1 THEN 0 ELSE InOrder(ends)[i - 1]
        IN  [kind |-> "oversized_part", blocks |-> <<b>>, section |-> Owner(d, s, b),
             size |-> end - from, from |-> from]]

-----------------------------------------------------------------------------
MinTarget == (4 * MaxChars) \div 10

StrongBoundary(s, a, b) ==
    /\ a.section # b.section
    /\ Root \notin {a.section, b.section}
    /\ s[a.section].major /\ s[b.section].major

\* Is b put into the chunk of a?
Joins(s, a, b) ==
    /\ a.kind = "structural" /\ b.kind = "structural"
    /\ a.size + b.size <= MaxChars
    /\ \/ a.size < MinTarget /\ b.size < MinTarget
       \/ /\ Root \notin {a.section, b.section}
          /\ ~(StrongBoundary(s, a, b) /\ 10 * a.size >= 7 * Target)

Merge(a, b) == [a EXCEPT !.blocks = @ \o b.blocks, !.size = @ + b.size]

Pack(s, units) ==
    FoldLeft(LAMBDA packed, u :
                IF packed # <<>> /\ Joins(s, Last(packed), u)
                THEN Front(packed) \o <<Merge(Last(packed), u)>>
                ELSE Append(packed, u),
             <<>>, units)

IsTable(d, c) == \A i \in 1..Len(c.blocks) : d[c.blocks[i]].table

\* A batch holds chunks that follow each other: one table, or texts of few
\* sections within the budget.
Batches(d, cs) ==
    LET Full(batch, c) ==
            LET last == cs[Last(batch)]
                sections == {cs[i].section : i \in ToSet(batch)}
                used == MapThenSumSet(LAMBDA i : cs[i].size, ToSet(batch))
            IN  \/ IsTable(d, cs[c]) \/ IsTable(d, last)
                \/ /\ cs[c].section \notin sections
                   /\ Cardinality(sections) >= MaxSections
                \/ used + cs[c].size > BatchTokens
        Add(made, c) == IF made # <<>> /\ ~Full(Last(made), c)
                        THEN Front(made) \o <<Append(Last(made), c)>>
                        ELSE Append(made, <<c>>)
    IN  FoldLeft(Add, <<>>, [i \in 1..Len(cs) |-> i])

Tokens(cs) == MapThenSumSet(LAMBDA i : cs[i].size, DOMAIN cs)

Strategy(s, cs) ==
    IF Tokens(cs) <= DirectTokens THEN "direct"
    ELSE IF Len(s) >= ManySections THEN "map_hierarchical" ELSE "map_flat"

-----------------------------------------------------------------------------
\* The upper bound of the calls that the user is asked to confirm.
Groups(n) == (n + GroupSize - 1) \div GroupSize

\* Broken: one call for every round.
OneCallPerRound(n) == Min({n, MaxRounds})

ReduceCalls(n) ==
    LET from[r \in 0..MaxRounds, m \in 0..n] ==
            IF m <= 1 THEN 0
            ELSE IF r = MaxRounds THEN 1
            ELSE Groups(m) + from[r + 1, Groups(m)]
    IN  from[0, n]

Estimate(s, p) ==
    CASE p.strategy = "direct" -> 1
      [] p.strategy = "map_hierarchical" ->
           Len(p.batches) + Len(s) + ReduceCalls(Len(s))
      [] OTHER -> Len(p.batches) + 1

-----------------------------------------------------------------------------
Init ==
    /\ document \in UNION {[1..n -> BlockKinds] : n \in 1..NumBlocks}
    /\ stage = "cut"
    /\ chunks = <<>>
    /\ plan = [strategy |-> "none", batches |-> <<>>]
    /\ next = 1
    /\ partials = {}
    /\ parts = <<>>
    /\ rounds = 0 /\ calls = 0 /\ failures = 0

\* A call of the model may fail.
Answered(ok) ==
    /\ ok \/ failures < MaxFailures
    /\ failures' = IF ok THEN failures ELSE failures + 1

ByFirstBlock(d, units) ==
    FlattenSeq([b \in DOMAIN d |-> SelectSeq(units, LAMBDA u : u.blocks[1] = b)])

\* Sections, units and chunks of a document that was just read.
Cut ==
    /\ stage = "cut"
    /\ LET s == Sections(document)
           long == InOrder({b \in DOMAIN document : Oversized(document, b)})
       IN  \E ends \in [DOMAIN long ->
                           UNION {Cuts(document[b].size) : b \in ToSet(long)}] :
              /\ \A i \in DOMAIN long : ends[i] \in Cuts(document[long[i]].size)
              /\ chunks' = Pack(s, ByFirstBlock(document,
                     FlattenSeq([i \in DOMAIN long |->
                                   PartsOf(document, s, long[i], ends[i])])
                     \o UnitsOf(document, s)))
    /\ stage' = "plan"
    /\ UNCHANGED <<document, plan, next, partials, parts, rounds, calls, failures>>

\* One call answers a short document; the others are planned in batches.
Plan ==
    /\ stage = "plan"
    /\ LET strategy == Strategy(Sections(document), chunks)
       IN  /\ plan' = [strategy |-> strategy,
                       batches |-> IF strategy = "direct"
                                   THEN <<[i \in DOMAIN chunks |-> i]>>
                                   ELSE Batches(document, chunks)]
           /\ stage' = IF strategy = "direct" THEN "direct" ELSE "map"
    /\ UNCHANGED <<document, chunks, next, partials, parts, rounds, calls, failures>>

RunDirect ==
    /\ stage = "direct"
    /\ calls' = calls + 1
    /\ \E ok \in BOOLEAN :
          /\ Answered(ok)
          /\ stage' = IF ok THEN "completed" ELSE "failed"
          /\ parts' = IF ok THEN <<ToSet(plan.batches[1])>> ELSE <<>>
    /\ UNCHANGED <<document, chunks, plan, next, partials, rounds>>

\* A batch that fails leaves its chunks without a summary.
RunBatch ==
    /\ stage = "map" /\ next <= Len(plan.batches)
    /\ calls' = calls + 1
    /\ next' = next + 1
    /\ \E ok \in BOOLEAN :
          /\ Answered(ok)
          /\ partials' = IF ok THEN partials \cup ToSet(plan.batches[next])
                         ELSE partials
    /\ UNCHANGED <<document, stage, chunks, plan, parts, rounds>>

MapEnds ==
    /\ stage = "map" /\ next > Len(plan.batches)
    /\ stage' = IF partials = {} THEN "failed"
                ELSE IF plan.strategy = "map_hierarchical" THEN "sections"
                ELSE "flat"
    /\ UNCHANGED <<document, chunks, plan, next, partials, parts, rounds, calls,
                   failures>>

\* A phase makes n calls; the first that fails ends the run.
Reduces(n, then) ==
    \E ok \in BOOLEAN, made \in 0..n :
        /\ Answered(ok)
        /\ IF ok THEN made = n ELSE made >= 1
        /\ calls' = calls + made
        /\ stage' = IF ok THEN then ELSE "failed"

Result == IF partials = DOMAIN chunks THEN "completed" ELSE "partial"

ReduceFlat ==
    /\ stage = "flat"
    /\ Reduces(1, Result)
    /\ parts' = <<partials>>
    /\ UNCHANGED <<document, chunks, plan, next, partials, rounds>>

\* One call for every section that has chunks with a summary.
ReduceSections ==
    /\ stage = "sections"
    /\ LET Of(n) == {i \in partials : chunks[i].section = n}
           spoken == InOrder({n \in DOMAIN Sections(document) : Of(n) # {}})
       IN  /\ Reduces(Len(spoken), "rounds")
           /\ parts' = [i \in DOMAIN spoken |-> Of(spoken[i])]
    /\ UNCHANGED <<document, chunks, plan, next, partials, rounds>>

\* The summaries are put together in groups; what is left after the last round
\* is put together at once.
ReduceRound ==
    /\ stage = "rounds" /\ Len(parts) > 1
    /\ IF rounds < MaxRounds
       THEN LET Group(g) == {i \in DOMAIN parts : Groups(i) = g}
            IN  /\ Reduces(Groups(Len(parts)), "rounds")
                /\ parts' = [g \in 1..Groups(Len(parts)) |->
                               UNION {parts[i] : i \in Group(g)}]
       ELSE Reduces(1, "rounds") /\ parts' = <<UNION ToSet(parts)>>
    /\ rounds' = rounds + 1
    /\ UNCHANGED <<document, chunks, plan, next, partials>>

\* Without a summary to give the run fails.
ReduceEnds ==
    /\ stage = "rounds" /\ Len(parts) <= 1
    /\ stage' = IF parts = <<>> THEN "failed" ELSE Result
    /\ UNCHANGED <<document, chunks, plan, next, partials, parts, rounds, calls,
                   failures>>

Next == \/ Cut \/ Plan \/ RunDirect \/ RunBatch \/ MapEnds
        \/ ReduceFlat \/ ReduceSections \/ ReduceRound \/ ReduceEnds

Spec == Init /\ [][Next]_vars

-----------------------------------------------------------------------------
TypeOK ==
    /\ stage \in {"cut", "plan", "direct", "map", "flat", "sections", "rounds",
                  "completed", "partial", "failed"}
    /\ \A i \in DOMAIN chunks :
          chunks[i].section \in 0..Len(Sections(document))
    /\ plan.strategy \in {"none", "direct", "map_flat", "map_hierarchical"}
    /\ next \in 1..(Len(plan.batches) + 1)
    /\ partials \subseteq DOMAIN chunks
    /\ rounds \in 0..(MaxRounds + 1) /\ calls \in Nat
    /\ failures \in 0..MaxFailures

\* How often a block is in the chunks.
Copies(b) ==
    MapThenSumSet(LAMBDA i : Cardinality({k \in DOMAIN chunks[i].blocks :
                                            chunks[i].blocks[k] = b}),
                  DOMAIN chunks)

BlocksAreCut ==
    \A b \in DOMAIN document :
        LET holding == {i \in DOMAIN chunks : b \in ToSet(chunks[i].blocks)}
            begins == {chunks[i].from : i \in holding}
            ends == {chunks[i].from + chunks[i].size : i \in holding}
        IN  IF Oversized(document, b)
            THEN /\ begins \cup {document[b].size} = ends \cup {0}
                 /\ Copies(b) = Cardinality(begins)
            ELSE Copies(b) \in 1..Max({1, Len(document[b].heads)})

ChunksAreOrdered ==
    /\ \A i, j \in DOMAIN chunks :
          i <= j => chunks[i].blocks[1] <= chunks[j].blocks[1]
    /\ \A i \in DOMAIN chunks : \A k, l \in DOMAIN chunks[i].blocks :
          k <= l => chunks[i].blocks[k] <= chunks[i].blocks[l]

ChunksAreBounded ==
    LET s == Sections(document)
    IN  \A i \in DOMAIN chunks :
            \/ chunks[i].size <= MaxChars
            \/ \E n \in 0..Len(s) :
                  /\ Children(s, n) # {}
                  /\ \A b \in ToSet(chunks[i].blocks) : b \in Start(s, n)..End(document, s, n)

\* Nothing of a document gets lost between its blocks and its summary.  Every
\* block is in one chunk, an oversized one in parts that follow each other; a
\* block at which several headings start may be repeated.  Chunks keep the
\* order of the document and the limit, but for the own blocks of a section
\* with sections below.  The batches hold every chunk once, in order, and the
\* summary speaks of every chunk whose batch did not fail - but a reduction by
\* sections leaves out the chunks named after the root (structural_packing.py,
\* chunker.py, packing.py, hierarchical.py).
DocumentIsCovered ==
    /\ stage # "cut" => BlocksAreCut /\ ChunksAreOrdered /\ ChunksAreBounded
    /\ stage \notin {"cut", "plan"} =>
          FlattenSeq(plan.batches) = [i \in DOMAIN chunks |-> i]
    /\ stage \in {"completed", "partial"} =>
          parts = <<{i \in DOMAIN chunks :
                       CASE plan.strategy = "direct" -> TRUE
                         [] plan.strategy = "map_flat" -> i \in partials
                         [] OTHER -> i \in partials /\ chunks[i].section # Root}>>

\* A run never makes more calls of the model than the estimate that the user
\* confirmed, whatever failed (estimation.py: the bound is said to be certain).
CallsWithinEstimate ==
    plan.strategy # "none" => calls <= Estimate(Sections(document), plan)
=============================================================================
