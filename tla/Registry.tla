------------------------------ MODULE Registry ------------------------------
(***************************************************************************)
(* The tables that the synchronisation mirrors (table_registry.py): every  *)
(* enabled skill registers the tables of its section, the runtime its      *)
(* storage of vectors, and the synchronisation asks which column tracks    *)
(* the changes of a table and remembers the answer.                        *)
(***************************************************************************)
EXTENDS Naturals, Sequences, SequencesExt

CONSTANTS
    Tables,
    Storage,       \* the table of the vectors
    MaxEntries     \* entries of the first skill; the second has one

ConstantsAssumption == MaxEntries \in Nat

VARIABLES
    sections,      \* skills.*: a sequence of [enabled, entries]
    registered,    \* the resources of each skill that is registered
    infra,         \* the resources of the runtime
    columns        \* _column_cache of the synchronisation

vars == <<sections, registered, infra, columns>>

Entry == [name : Tables, type : {"table", "vector"}, track : {"", "own"}]
Resource == [name : Tables \cup {Storage}, type : {"table", "vector"}, track : {"", "own", "id"}]
Section(n) == [enabled : BOOLEAN, entries : BoundedSeq(Entry, n)]

TypeOK ==
    /\ Len(sections) = 2 /\ Len(registered) <= 2
    /\ \A s \in Range(registered) : Range(s) \subseteq Resource
    /\ Range(infra) \subseteq Resource
    /\ \A t \in DOMAIN columns : columns[t] \in {"own", "id", "updated_at"}

\* build_resources_for_skill: the first entry of a name counts.
AsResource(e) == [e EXCEPT !.track = IF e.type = "vector" /\ @ = "" THEN "id" ELSE @]
Resources(entries) ==
    LET IsFirst(i) == \A j \in 1..(i - 1) : entries[j].name # entries[i].name
        firsts == SelectSeq([i \in DOMAIN entries |-> i], IsFirst)
    IN  [k \in DOMAIN firsts |-> AsResource(entries[firsts[k]])]

\* register_skill_from_config for one section after the other; a disabled one stays out.
RegisterSkill ==
    /\ Len(registered) < 2 /\ infra = <<>>
    /\ LET s == sections[Len(registered) + 1]
       IN  registered' = Append(registered, IF s.enabled THEN Resources(s.entries) ELSE <<>>)
    /\ UNCHANGED <<sections, infra, columns>>

\* register_vector_storage
RegisterStorage ==
    /\ Len(registered) = 2 /\ infra = <<>>
    /\ infra' = <<[name |-> Storage, type |-> "vector", track |-> "id"]>>
    /\ UNCHANGED <<sections, registered, columns>>

All == FlattenSeq(registered) \o infra
OfType(type) == SelectSeq(All, LAMBDA r : r.type = type)
Names(resources) == {r.name : r \in Range(resources)}
\* The tables that are mirrored, and the first of the vectors.
Mirrored == Names(OfType("table")) \cup Names(OfType("vector"))
FirstVector == OfType("vector")[1].name

\* SkillRegistration.tracking_column_for
ColumnOf(resources, t) ==
    LET r == SelectSeq(resources, LAMBDA x : x.name = t)[1]
    IN  IF r.track # "" THEN r.track ELSE "updated_at"

\* The skill is the first that is registered.
ColumnOfFirst(t) == ColumnOf(registered[1], t)

\* _track_column_for
SkillOf(t) == CHOOSE i \in {0, 1, 2} :
    IF \E j \in DOMAIN registered : t \in Names(registered[j])
    THEN /\ i # 0 /\ t \in Names(registered[i])
         /\ \A j \in 1..(i - 1) : t \notin Names(registered[j])
    ELSE i = 0
TrackColumn(t) ==
    IF SkillOf(t) # 0 THEN ColumnOf(registered[SkillOf(t)], t)
    ELSE IF t = FirstVector THEN "id" ELSE "updated_at"

Track(t) ==
    /\ infra # <<>> /\ t \in Mirrored /\ t \notin DOMAIN columns
    /\ columns' = [x \in DOMAIN columns \cup {t} |-> IF x = t THEN TrackColumn(t) ELSE columns[x]]
    /\ UNCHANGED <<sections, registered, infra>>

Fresh == registered = <<>> /\ infra = <<>> /\ columns = <<>>

Init ==
    /\ \E first \in Section(MaxEntries), second \in Section(1) : sections = <<first, second>>
    /\ Fresh

Next == RegisterSkill \/ RegisterStorage \/ \E t \in Tables \cup {Storage} : Track(t)

Spec == Init /\ [][Next]_vars

-----------------------------------------------------------------------------
\* Every table of an enabled skill is mirrored, and the storage.
TablesAreMirrored ==
    infra # <<>> =>
      Mirrored = {Storage} \cup
        UNION {IF s.enabled THEN {e.name : e \in Range(s.entries)} ELSE {} : s \in Range(sections)}

\* A table is tracked by the column of its first entry; without one by its id if it
\* holds vectors and by its time otherwise.  The storage has its id unless a skill has
\* a table of vectors.
Entries == FlattenSeq([i \in 1..2 |-> IF sections[i].enabled THEN sections[i].entries ELSE <<>>])
ColumnsAreDeclared ==
    \A t \in DOMAIN columns :
      IF t \in Names(Entries)
      THEN LET e == SelectSeq(Entries, LAMBDA x : x.name = t)[1]
           IN  columns[t] = IF e.track # "" THEN e.track
                            ELSE IF e.type = "vector" THEN "id" ELSE "updated_at"
      ELSE columns[t] = "id" \/ \E e \in Range(Entries) : e.type = "vector"

=============================================================================
