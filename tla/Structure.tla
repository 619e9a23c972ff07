----------------------------- MODULE Structure -----------------------------
(***************************************************************************)
(* How the legal summarizer finds the sections of a file                   *)
(* (workspace/skills/legal_summarizer/scripts/document): the file is read  *)
(* as blocks, styles, markers and the outline of a PDF propose headings,   *)
(* the headings make a tree, which is repaired and validated.  Blocks and  *)
(* sections are numbered from 1, 0 is the root of the tree.  A text is its *)
(* marker, [scheme, number]; a page counts as one only when it is a line.  *)
(***************************************************************************)
EXTENDS Integers, FiniteSets, Sequences, SequencesExt, FiniteSetsExt, Functions

CONSTANTS
    Files    \* [format, named, parts, outline]: paragraphs [text, table, style]
             \* or pages [text, tables], and entries [text, depth, page]

VARIABLES
    file,
    stage,      \* what was done last
    blocks,     \* [type, text, page, style]
    candidates, \* for headings: [block, text, level, source]
    tree, title, issues

vars == <<file, stage, blocks, candidates, tree, title, issues>>

Root == 0
NoPage == 0
NoStyle == 0
TitleStyle == -1                        \* a heading has a level, 1 or more
Nothing == [scheme |-> "nothing", number |-> <<>>]
Prose == [scheme |-> "prose", number |-> <<>>]

-----------------------------------------------------------------------------
\* Pages that cannot be read are empty; without pdfplumber there are no tables.
PdfBlocks(parts, unread, tables) ==
    LET Page(p) ==
            (IF parts[p].text = Nothing \/ p \in unread THEN <<>>
             ELSE <<[type |-> "page", text |-> parts[p].text, page |-> p, style |-> NoStyle]>>)
            \o [t \in 1..(IF tables THEN parts[p].tables ELSE 0) |->
                   [type |-> "table", text |-> Prose, page |-> p, style |-> NoStyle]]
    IN  FlattenSeq([p \in DOMAIN parts |-> Page(p)])

DocxBlocks(parts) ==
    LET Block(p) == [type |-> IF p.table THEN "table" ELSE "paragraph", text |-> p.text,
                     page |-> NoPage, style |-> IF p.table THEN NoStyle ELSE p.style]
        filled == SelectSeq(parts, LAMBDA p : p.text # Nothing)
    IN  [i \in DOMAIN filled |-> Block(filled[i])]

TxtBlocks(parts) ==
    <<[type |-> "text", text |-> parts[1].text, page |-> NoPage, style |-> NoStyle]>>

Load ==
    /\ stage = "file"
    /\ CASE file.format \in {"pdf", "PDF"} ->
              \E unread \in SUBSET DOMAIN file.parts, tables \in BOOLEAN :
                 blocks' = PdfBlocks(file.parts, unread, tables)
         [] file.format = "docx" -> blocks' = DocxBlocks(file.parts)
         [] file.format = "txt" -> blocks' = TxtBlocks(file.parts)
    /\ stage' = "loaded"
    /\ UNCHANGED <<file, candidates, tree, title, issues>>

-----------------------------------------------------------------------------
\* What a marker counts: an arabic section, a part and a subsection are none.
Numbering(t) ==
    IF t.scheme \notin {"article", "chapter", "roman section", "clause", "paragraph",
                        "appendix", "alpha", "decimal"} THEN {}
    ELSE {[scheme |-> t.scheme, level |-> Len(t.number), above |-> Front(t.number)]}

\* The markers that make a heading without a style, with their levels.
Classified(t) ==
    CASE t.scheme = "decimal" /\ Len(t.number) <= 3 -> {Len(t.number)}
      [] t.scheme \in {"article", "chapter", "section"} -> {1}
      [] t.scheme = "paragraph" -> {2}
      [] OTHER -> {}

Candidate(b, text, level, source) ==
    [block |-> b, text |-> text, level |-> level, source |-> source]

\* The heading a block proposes, if any: a style goes before the marker.
Proposed(b) ==
    LET block == blocks[b]
        numbered == {n.level : n \in Numbering(block.text)}
    IN  IF block.type = "table" THEN <<>>
        ELSE IF block.style > NoStyle
        THEN <<Candidate(b, block.text, Min({6, block.style}), "style")>>
        ELSE IF Classified(block.text) = {} THEN <<>>
        ELSE <<Candidate(b, block.text, Max(Classified(block.text) \cup numbered), "marker")>>

MaxDepth == 2
WalkOutline == SelectSeq(file.outline, LAMBDA e : e.depth <= MaxDepth /\ e.text # Nothing)

OnPage(p) == {b \in DOMAIN blocks : blocks[b].page = p}

LeadsToPage(e) == e.page \in DOMAIN file.parts

\* An entry stands at the first block of its page; one that leads nowhere is dropped.
MapOutline(entries) ==
    LET found == SelectSeq(entries, LAMBDA e : LeadsToPage(e) /\ OnPage(e.page) # {})
    IN  [i \in DOMAIN found |-> [entry |-> found[i], block |-> Min(OnPage(found[i].page))]]

FromOutline ==
    LET mapped == MapOutline(WalkOutline)
    IN  [i \in DOMAIN mapped |-> Candidate(mapped[i].block, mapped[i].entry.text,
                                           mapped[i].entry.depth, "outline")]

\* Only the suffix in lower case has its outline read, which may fail.
Detect ==
    /\ stage = "loaded"
    /\ LET proposed == FlattenSeq([b \in DOMAIN blocks |-> Proposed(b)])
       IN  candidates' \in {proposed} \cup
               (IF file.format = "pdf" THEN {proposed \o FromOutline} ELSE {})
    /\ stage' = "detected"
    /\ UNCHANGED <<file, blocks, tree, title, issues>>

-----------------------------------------------------------------------------
Rank(c) ==
    CASE c.text.scheme = "part" -> 100
      [] c.text.scheme = "roman section" -> 200
      [] c.text.scheme = "subsection" -> 300
      [] c.text.scheme = "chapter" -> 400
      [] c.text.scheme \in {"article", "paragraph"} -> 500
      [] c.text.scheme \in {"clause", "appendix"} -> 600
      [] c.text.scheme = "decimal" -> 700 + 100 * (Len(c.text.number) - 1)
      [] c.text.scheme = "alpha" -> 1000
      [] OTHER -> c.level

\* In the order of the document; those of one block by level, then as they came.
InOrder(cs) ==
    LET Before(a, b) == a.block < b.block \/ (a.block = b.block /\ a.level < b.level)
        Put(s, c) == InsertAt(s, Cardinality({i \in DOMAIN s : ~Before(c, s[i])}) + 1, c)
    IN  FoldLeft(Put, <<>>, cs)

\* The parents: a heading closes the open ones of its rank and of greater ranks.
Parents(ranks) ==
    LET Push(state, rank) ==
            LET open == state.stack
                kept == Max({0} \cup {i \in DOMAIN open : ranks[open[i]] < rank})
                n == Len(state.parents) + 1
            IN  [stack |-> Append(SubSeq(open, 1, kept), n),
                 parents |-> Append(state.parents, IF kept = 0 THEN Root ELSE open[kept])]
    IN  FoldLeft(Push, [stack |-> <<>>, parents |-> <<>>], ranks).parents

\* The place of each heading in its run of neighbours counted alike.
Ordinals(heads) ==
    LET Count(i) == Numbering(heads[i].text)
        ordinals[i \in 0..Len(heads)] ==
            IF i = 0 \/ Count(i) = {} THEN 0
            ELSE IF i > 1 /\ Count(i) = Count(i - 1) THEN ordinals[i - 1] + 1 ELSE 1
    IN  ordinals

ChildrenIn(t, n) == SetToSortSeq({m \in DOMAIN t \ {Root} : t[m].parent = n}, <)

\* The ids of the nodes are 0..Len(heads): a section ends before the next heading.
Built(heads, last) ==
    LET parent == Parents([i \in DOMAIN heads |-> Rank(heads[i])])
        depth[n \in 0..Len(heads)] == IF n = Root THEN 0 ELSE depth[parent[n]] + 1
        End(n) == Max({heads[n].block,
                       IF n < Len(heads) THEN heads[n + 1].block - 1 ELSE last})
        below(n) == SetToSortSeq({m \in DOMAIN heads : parent[m] = n}, <)
        node(n) ==
            IF n = Root
            THEN [start |-> 1, end |-> Max({1, last}), parent |-> Root, level |-> 0,
                  children |-> below(n), ordinal |-> 0]
            ELSE [start |-> heads[n].block, end |-> End(n), parent |-> parent[n],
                  level |-> depth[n], children |-> below(n), ordinal |-> Ordinals(heads)[n]]
    IN  [n \in 0..Len(heads) |-> node(n)]

Build ==
    /\ stage = "detected"
    /\ tree' = Built(InOrder(candidates), Len(blocks)) /\ stage' = "built"
    /\ UNCHANGED <<file, blocks, candidates, title, issues>>

\* The owner of a block: the deepest section around it, the first of several.
Owner(t, b) ==
    LET around == {n \in DOMAIN t \ {Root} : b \in t[n].start..t[n].end}
        deepest == {n \in around : \A m \in around : t[m].level <= t[n].level}
    IN  IF around = {} THEN Root ELSE Min(deepest)

\* Where the title comes from: the file, a title style, a heading, its first line.
Name ==
    /\ stage = "built"
    /\ LET Styled(S) == {b \in DOMAIN blocks : blocks[b].style \in S}
           From(S) == <<IF S = {TitleStyle} THEN "visual" ELSE "inferred", Min(Styled(S))>>
       IN  title' = IF file.named THEN <<"metadata", 0>>
                    ELSE IF Styled({TitleStyle}) # {} THEN From({TitleStyle})
                    ELSE IF Styled(1..9) # {} THEN From(1..9) ELSE <<"inferred", 0>>
    /\ stage' = "named"
    /\ UNCHANGED <<file, blocks, candidates, tree, issues>>

-----------------------------------------------------------------------------
\* A parent that is missing or not above becomes the root; a node whose range is
\* empty goes, its children to its parent; then the children are collected anew.
Repaired(t) ==
    LET Sound(n) == t[n].parent \in DOMAIN t
                    /\ (t[n].parent = Root \/ t[t[n].parent].level < t[n].level)
        parent == [n \in DOMAIN t |-> IF n = Root \/ Sound(n) THEN t[n].parent ELSE Root]
        kept == {n \in DOMAIN t : n = Root \/ t[n].start <= t[n].end}
        above[n \in DOMAIN t] == IF n \in kept THEN n ELSE above[parent[n]]
        moved == [n \in kept |-> [t[n] EXCEPT !.parent = above[parent[n]]]]
    IN  [n \in kept |-> [moved[n] EXCEPT !.children = ChildrenIn(moved, n)]]

Repair ==
    /\ stage = "named"
    /\ tree' = Repaired(tree) /\ stage' = "repaired"
    /\ UNCHANGED <<file, blocks, candidates, title, issues>>

\* The section itself and those it is below of.
Above(t, n) ==
    LET above[m \in DOMAIN t] == {m} \cup (IF m = Root THEN {} ELSE above[t[m].parent])
    IN  above[n]

Overlap(a, b) == a.end >= b.start /\ b.end >= a.start

RangeIssues(t, total) ==
    (IF t[Root].start # 1 THEN {"root_not_at_start"} ELSE {})
    \cup (IF t[Root].end # Max({1, total}) THEN {"root_does_not_cover_document"} ELSE {})
    \cup UNION {(IF t[n].start > t[n].end THEN {"invalid_range"} ELSE {})
                \cup (IF {t[n].start, t[n].end} \subseteq 1..total THEN {}
                      ELSE {"range_out_of_bounds"}) : n \in DOMAIN t \ {Root}}

ChildIssues(t) ==
    LET Owners(n) == {t[n].parent} \cup {m \in DOMAIN t : n \in ToSet(t[m].children)}
    IN  IF \A n \in DOMAIN t \ {Root} : Cardinality(Owners(n)) = 1 THEN {}
        ELSE {"duplicate_child"}

OverlapIssues(t) ==
    LET Pairs == {p \in (DOMAIN t \ {Root}) \X (DOMAIN t \ {Root}) :
                    p[1] < p[2] /\ Overlap(t[p[1]], t[p[2]])}
    IN  (IF \E p \in Pairs : p[1] \notin Above(t, p[2]) THEN {"cross_branch_overlap"} ELSE {})
        \cup (IF \E p \in Pairs : t[p[1]].parent = t[p[2]].parent THEN {"sibling_overlap"}
              ELSE {})

CoverageIssues(t, total) ==
    LET covered == UNION {t[n].start..t[n].end : n \in DOMAIN t \ {Root}}
    IN  IF 2 * Cardinality((1..total) \ covered) > total THEN {"low_coverage"} ELSE {}

Validate ==
    /\ stage = "repaired"
    /\ issues' = RangeIssues(tree, Len(blocks)) \cup ChildIssues(tree)
                 \cup OverlapIssues(tree) \cup CoverageIssues(tree, Len(blocks))
    /\ stage' = "validated"
    /\ UNCHANGED <<file, blocks, candidates, tree, title>>

-----------------------------------------------------------------------------
NoTree == Built(<<>>, 0)

Fresh ==
    /\ stage = "file" /\ blocks = <<>> /\ candidates = <<>>
    /\ tree = NoTree /\ title = <<>> /\ issues = {}

Init == file \in Files /\ Fresh

Next == Load \/ Detect \/ Build \/ Name \/ Repair \/ Validate

Spec == Init /\ [][Next]_vars

-----------------------------------------------------------------------------
\* Every variable has its type; sections are as many as candidates at most.
TypeOK ==
    /\ file \in Files
    /\ stage \in {"file", "loaded", "detected", "built", "named", "repaired", "validated"}
    /\ \A c \in ToSet(candidates) : c.block \in DOMAIN blocks /\ c.level \in 1..6
    /\ DOMAIN tree \subseteq 0..Len(candidates)
    /\ \A n \in DOMAIN tree : tree[n].parent \in DOMAIN tree

Sections == DOMAIN tree \ {Root}
HasTree == stage \in {"built", "named", "repaired", "validated"}

\* The stack that builds the tree gives every section the last section before it
\* that has a smaller rank, whatever is proposed by styles, markers and the outline
\* (hierarchy.py:_build_parents_by_stack).
ParentIsNearest ==
    HasTree =>
        LET rank == [n \in Sections |-> Rank(InOrder(candidates)[n])]
        IN  \A n \in Sections :
              tree[n].parent = Max({Root} \cup {m \in 1..(n - 1) : rank[m] < rank[n]})

\* Every heading has its section, and every block belongs to a section that starts
\* at it or is the last to start before it, the lower one where two start together;
\* blocks before the first heading belong to the root
\* (structure.py:build_block_ownership).
BlocksAreOwned ==
    HasTree =>
        /\ Cardinality(Sections) = Len(candidates)
        /\ \A b \in DOMAIN blocks :
             LET before == {tree[n].start : n \in {m \in Sections : tree[m].start <= b}}
             IN  IF before = {} THEN Owner(tree, b) = Root
                 ELSE LET owner == Owner(tree, b)
                      IN  /\ tree[owner].start = Max(before)
                          /\ \A n \in Sections : tree[n].start = Max(before) =>
                               owner \notin Above(tree, n) \ {n}

\* Repair changes nothing of a tree the builder made (repair.py:repair_structure).
RepairKeeps ==
    stage \in {"repaired", "validated"} =>
        tree = Built(InOrder(candidates), Len(blocks))

\* The validation objects to nothing but two headings at one block of which neither
\* is below the other, and a beginning without headings that is longer than the rest
\* (validation.py:validate_structure).
ReportIsExact ==
    stage = "validated" =>
        LET Apart(m, n) == tree[m].start = tree[n].start /\ m \notin Above(tree, n)
            first == IF candidates = <<>> THEN Len(blocks) + 1 ELSE tree[1].start
        IN  /\ issues \subseteq {"cross_branch_overlap", "sibling_overlap", "low_coverage"}
            /\ (issues \cap {"cross_branch_overlap", "sibling_overlap"} # {})
               = (\E n \in Sections, m \in Sections : m < n /\ Apart(m, n))
            /\ ("low_coverage" \in issues) = (2 * (first - 1) > Len(blocks))

StructureIsSound == ParentIsNearest /\ BlocksAreOwned /\ RepairKeeps /\ ReportIsExact
=============================================================================
