---------------------------- MODULE AuditAnalyzer ----------------------------
(***************************************************************************)
(* One process of the audit analyzer (workspace/skills/audit_analyzer,     *)
(* cache_provider_impl.py): it opens the snapshot that the gateway         *)
(* published, lists its scripts or indexes, runs a script of its registry  *)
(* with the parameters of the user, has a model write a query and corrects *)
(* the model, or searches an index.  The gateway publishes meanwhile.      *)
(***************************************************************************)
EXTENDS Integers, FiniteSets, Sequences, SequencesExt

CONSTANTS
    Modes,             \* what the process may be asked to do
    Templates,         \* the scripts there are: name -> [params, body, rows]
    GivenKinds,        \* what a parameter may be given
    SnapshotContents,  \* what a snapshot may hold: [scripts, indexes]
    Indexes,
    Declared,          \* the indexes in gateway.vector.index.indexes
    Replies,           \* what the model may answer
    MaxAttempts,       \* MAX_ATTEMPTS
    MaxSnapshots       \* bound: snapshots that are published

AnalyzerAssumption ==
    /\ Modes \subseteq {"scripts", "indexes", "predefined", "generated", "vector"}
    /\ Declared \subseteq Indexes /\ MaxAttempts \in Nat \ {0} /\ MaxSnapshots \in Nat
    /\ \A c \in SnapshotContents :
         c.scripts \subseteq DOMAIN Templates /\ c.indexes \subseteq Indexes

VARIABLES
    published,  \* the snapshots; the last is the file
    request,
    cli,        \* the process
    reads,      \* history: the snapshots that were read
    consulted,  \* history: what the model was told of its last answer, and its answer
    ran,        \* history: the SQL of the model that was explained or run
    printed

analyzerVars == <<published, request, cli, reads, consulted, ran, printed>>

Names == DOMAIN Templates
Nothing == ""
StartProcess ==
    [at |-> "start", conn |-> 0, attempt |-> 1, sql |-> Nothing, failure |-> <<>>,
     marks |-> <<>>, values |-> <<>>]
NoRequest == [mode |-> "scripts", registered |-> TRUE, elsewhere |-> FALSE,
              script |-> Nothing, given |-> <<>>, query |-> TRUE, index |-> Nothing]
NoAnswer == [status |-> "none", what |-> "", found |-> {}]

AnalyzerTypeOK ==
    /\ published \in Seq(SnapshotContents) /\ Len(published) <= MaxSnapshots
    /\ request.mode \in {"scripts", "indexes", "predefined", "generated", "vector"}
    /\ request.script \in Names \cup {Nothing}
    /\ cli.at \in {"start", "scripts", "indexes", "predefined", "query", "generated", "ask",
                   "explain", "execute", "vector", "embed", "payload", "done"}
    /\ cli.conn \in 0..Len(published) /\ cli.attempt \in 1..MaxAttempts
    /\ cli.sql \in Replies \cup {Nothing}
    /\ reads \subseteq 1..Len(published)
    /\ Len(consulted) <= MaxAttempts
    /\ printed.status \in {"none", "success", "error"}
    /\ printed.found \subseteq Names \cup Indexes

-----------------------------------------------------------------------------
\* The gateway replaces the file; who has it open keeps what was opened.  After the
\* end of the process it does not matter.
Publish(c) ==
    /\ cli.at # "done" /\ Len(published) < MaxSnapshots
    /\ published' = Append(published, c)
    /\ UNCHANGED <<request, cli, reads, consulted, ran, printed>>

\* Variant: every query opens the file again.
LatestSnapshot == Len(published)
Snapshot == cli.conn
Now == published[Snapshot]
Reading == reads' = reads \cup {Snapshot}

\* The provider is closed however the process ends.
End(status, what, found) ==
    /\ printed' = [status |-> status, what |-> what, found |-> found]
    /\ cli' = [cli EXCEPT !.at = "done", !.conn = 0]
Fails(what) == End("error", what, {})
GoTo(place) == cli' = [cli EXCEPT !.at = place] /\ UNCHANGED printed

\* _open_db: there is no file, or it cannot be opened.
Open ==
    /\ cli.at = "start"
    /\ \/ Fails("missing")
       \/ /\ published # <<>>
          /\ cli' = [cli EXCEPT !.at = request.mode, !.conn = Len(published)]
          /\ UNCHANGED printed
    /\ UNCHANGED <<published, request, reads, consulted, ran>>

\* get_predefined_scripts_table
IsRegistered == request.registered

\* --list-scripts; a registry that cannot be read is an empty one.
ListScripts ==
    /\ cli.at = "scripts"
    /\ IF IsRegistered
       THEN Reading /\ \E found \in {Now.scripts, {}} : End("success", "scripts", found)
       ELSE Fails("registry") /\ UNCHANGED reads
    /\ UNCHANGED <<published, request, consulted, ran>>

\* list_runtime_vector_indexes has a connection of its own to the file that is there by
\* now.  It takes gateway.cache.local_path for the file; it is the directory of the file.
ListedIndexes == IF request.elsewhere THEN {} ELSE Last(published).indexes

\* --list-indexes; what cannot be read is an empty list.
ListIndexes ==
    /\ cli.at = "indexes"
    /\ \E found \in {ListedIndexes, {}} : End("success", "indexes", found)
    /\ reads' = reads \cup {Len(published)}
    /\ UNCHANGED <<published, request, consulted, ran>>

-----------------------------------------------------------------------------
\* The parameters of a script: ParameterValidator.
Blanks == {"", "blank"}
Template == Templates[request.script]
Given == request.given
Merged == [p \in {q \in DOMAIN Given : Given[q] # ""} |-> Given[p]]
IsNumber(v) == v \in {"number", "one", "zero", "zero text", "true", "false"}

Fits(def, v) ==
    /\ def.type \in {"number", "limit"} => IsNumber(v)
    /\ def.type = "boolean" => v \in {"true", "false"}
    /\ def.type = "date" => v = "date"
    /\ def.type = "enum" /\ def.choices # {} => v \in def.choices

Valid ==
    /\ DOMAIN Merged \subseteq DOMAIN Template.params
    /\ DOMAIN Given # {} => DOMAIN Merged # {}
    /\ \A p \in DOMAIN Template.params : Template.params[p].required => p \in DOMAIN Merged
    /\ \A p \in DOMAIN Merged : Fits(Template.params[p], Merged[p])

\* DynamicQueryBuilder.build: the value of a parameter, or its default.
Filled(p) == IF p \in DOMAIN Merged THEN Merged[p] ELSE Template.params[p].default
BlankRequired ==
    \E p \in DOMAIN Template.params : Template.params[p].required /\ Filled(p) \in Blanks

Integer(v) == CASE v = "true" -> "one" [] v \in {"false", "zero text"} -> "zero" [] OTHER -> v
Formatted(type, v) ==
    CASE v = "list" -> v
      [] type = "like" /\ v = "word" -> "pattern"
      [] type = "limit" -> "true"
      [] type = "number" -> Integer(v)
      [] OTHER -> v
Used == {p \in DOMAIN Template.params : Filled(p) \notin Blanks \cup {"empty"}}
Limits == {p \in Used : Template.params[p].type = "limit"}

\* A limit of 0 is none.
RowsOf(v) == IF v \in {"zero", "false"} THEN Template.rows ELSE Integer(v)
MaxRows == IF Limits = {} THEN Template.rows ELSE RowsOf(Filled(CHOOSE p \in Limits : TRUE))

\* _render_template keeps the blocks whose parameter is there and is not false.
IsShown(guard) == guard = "" \/ (guard \in Used /\ Formatted(Template.params[guard].type,
                                                          Filled(guard)) # "false")
Rendered == SelectSeq(Template.body, LAMBDA b : IsShown(b.guard))
HasRows == \E i \in DOMAIN Rendered : Rendered[i].param = "max_rows"

Body == IF HasRows THEN Rendered
        ELSE Append(Rendered, [guard |-> "", param |-> "max_rows", ilike |-> FALSE])
Bound == Used \cup (IF Limits # {} \/ ~HasRows THEN {"max_rows"} ELSE {})
ValueOf(p) == IF p = "max_rows" THEN MaxRows ELSE Formatted(Template.params[p].type, Filled(p))

\* A list makes ILIKE :p a mark without a name.
Nameless(b) == b.ilike /\ b.param \in Used /\ Filled(b.param) = "list"
NamedMarks == SelectSeq(Body, LAMBDA b : ~Nameless(b))

\* Variant: the values of a name stand together, where it occurs first.
ValuesOfNames ==
    LET uses == [i \in DOMAIN NamedMarks |-> NamedMarks[i].param]
        firsts == SelectSeq([i \in DOMAIN uses |-> i],
                            LAMBDA i : \A j \in 1..(i - 1) : uses[j] # uses[i])
        Same(i) == SelectSeq(uses, LAMBDA p : p = uses[i])
        all == FlattenSeq([k \in DOMAIN firsts |-> Same(firsts[k])])
    IN  [i \in DOMAIN all |-> ValueOf(all[i])]
\* _convert_to_positional: every occurrence of a name has its value.
Values == [i \in DOMAIN NamedMarks |-> ValueOf(NamedMarks[i].param)]
Buildable == ~BlankRequired /\ \A i \in DOMAIN NamedMarks : NamedMarks[i].param \in Bound

Predefined ==
    /\ cli.at = "predefined"
    /\ \/ request.script = Nothing /\ Fails("script") /\ UNCHANGED reads
       \/ request.script # Nothing /\ ~IsRegistered /\ Fails("registry") /\ UNCHANGED reads
       \/ /\ request.script # Nothing /\ IsRegistered
          /\ Reading
          /\ \/ Fails("script")
             \/ /\ request.script \in Now.scripts
                /\ IF ~Valid THEN Fails("parameters")
                   ELSE IF ~Buildable THEN Fails("build")
                   ELSE /\ cli' = [cli EXCEPT !.at = "query", !.values = Values,
                                     !.marks = [i \in DOMAIN Body |-> IF Nameless(Body[i])
                                                THEN "" ELSE Body[i].param]]
                        /\ UNCHANGED printed
    /\ UNCHANGED <<published, request, consulted, ran>>

\* query_sql with the values; the database wants one for every mark.
RunScript ==
    /\ cli.at = "query"
    /\ Reading
    /\ \/ Fails("database")
       \/ Len(cli.marks) = Len(cli.values) /\ End("success", "rows", {})
    /\ UNCHANGED <<published, request, consulted, ran>>

-----------------------------------------------------------------------------
\* A query by the model: the schema and the registry, for the prompt.  A skill that is
\* not registered ends the process with an internal error.
Generated ==
    /\ cli.at = "generated"
    /\ \/ Fails("request") /\ (request.query => ~IsRegistered)
       \/ request.query /\ Fails("schema")
       \/ request.query /\ IsRegistered /\ GoTo("ask")
    /\ reads' = IF request.query THEN reads \cup {Snapshot} ELSE reads
    /\ UNCHANGED <<published, request, consulted, ran>>

\* The next attempt is told the error and the SQL of this one; the last one gives up.
Retry(reply) ==
    IF cli.attempt = MaxAttempts THEN Fails("attempts")
    ELSE /\ cli' = [cli EXCEPT !.at = "ask", !.attempt = @ + 1,
                      !.failure = <<cli.attempt, reply>>]
         /\ UNCHANGED printed

\* is_no_match
Declines(reply) == reply = "no match"
\* The verdict of validate_sql, which statements it refuses is left open.
IsSafe(reply) == reply # "unsafe"
IsLost(reply) == reply = "error"

\* EXPLAIN refuses it; it fails when it runs.
IsWrong(sql) == sql = "wrong"
IsFailing(sql) == sql = "failing"

\* The call fails, the model declines, or it answers with SQL.
Ask(reply) ==
    /\ cli.at = "ask"
    /\ consulted' = Append(consulted, [told |-> cli.failure, reply |-> reply])
    /\ CASE Declines(reply) -> End("success", "no match", {})
         [] IsLost(reply) \/ ~IsSafe(reply) -> Retry(reply)
         [] OTHER -> cli' = [cli EXCEPT !.at = "explain", !.sql = reply] /\ UNCHANGED printed
    /\ UNCHANGED <<published, request, reads, ran>>

\* That a busy database ends the attempts is tested by a text that nothing writes.
Explain ==
    /\ cli.at = "explain"
    /\ Reading /\ ran' = Append(ran, <<"explain", cli.sql>>)
    /\ IF IsWrong(cli.sql) THEN Retry(cli.sql) ELSE GoTo("execute")
    /\ UNCHANGED <<published, request, consulted>>

\* A query that fails when it runs is not tried again.
Execute ==
    /\ cli.at = "execute"
    /\ Reading /\ ran' = Append(ran, <<"run", cli.sql>>)
    /\ IF IsFailing(cli.sql) THEN Fails("database") ELSE End("success", "rows", {})
    /\ UNCHANGED <<published, request, consulted>>

-----------------------------------------------------------------------------
\* _resolve_known_index; an index that is declared and has no rows finds nothing.
IsKnown == request.index \in Declared

\* _load_index_from_cache
HasVectors == request.index \in Now.indexes

Vector ==
    /\ cli.at = "vector"
    /\ \/ ~request.query /\ Fails("request") /\ UNCHANGED reads
       \/ request.query /\ ~IsKnown /\ Fails("index") /\ UNCHANGED reads
       \/ /\ request.query /\ IsKnown /\ Reading
          /\ \/ End("success", "nothing", {})
             \/ HasVectors /\ GoTo("embed")
    /\ UNCHANGED <<published, request, consulted, ran>>

\* The embedding of the question: without one, or with one of another size, nothing.
Embed ==
    /\ cli.at = "embed"
    /\ GoTo("payload") \/ End("success", "nothing", {})
    /\ UNCHANGED <<published, request, reads, consulted, ran>>

\* The rows of the hits; none may be near enough.
ShowHits ==
    /\ cli.at = "payload"
    /\ Reading
    /\ \/ End("success", "hits", {request.index})
       \/ End("success", "nothing", {})
       \/ Fails("search")
    /\ UNCHANGED <<published, request, consulted, ran>>

-----------------------------------------------------------------------------
\* --params has names of the script, and one that no script has.
Parameters(script) ==
    UNION {[S -> GivenKinds] :
             S \in SUBSET (DOMAIN Templates[script].params \cup {"other"})}

Fresh ==
    /\ published = <<>> /\ cli = StartProcess /\ reads = {} /\ printed = NoAnswer
    /\ consulted = <<>> /\ ran = <<>>

AnalyzerInit ==
    /\ Fresh
    /\ \E mode \in Modes, registered \in BOOLEAN, query \in BOOLEAN :
         \E script \in IF mode = "predefined" THEN Names \cup {Nothing} ELSE {Nothing},
            index \in IF mode = "vector" THEN Indexes ELSE {Nothing},
            elsewhere \in IF mode = "indexes" THEN BOOLEAN ELSE {FALSE} :
           \E given \in IF script = Nothing \/ ~registered THEN {<<>>}
                       ELSE Parameters(script) :
             /\ ~query => mode \in {"generated", "vector"}
             /\ request = [mode |-> mode, registered |-> registered, query |-> query,
                           script |-> script, index |-> index, given |-> given,
                           elsewhere |-> elsewhere]

AnalyzerNext ==
    \/ \E c \in SnapshotContents : Publish(c)
    \/ Open \/ ListScripts \/ ListIndexes \/ Predefined \/ RunScript
    \/ Generated \/ (\E reply \in Replies : Ask(reply)) \/ Explain \/ Execute
    \/ Vector \/ Embed \/ ShowHits

AnalyzerSpec == AnalyzerInit /\ [][AnalyzerNext]_analyzerVars

-----------------------------------------------------------------------------
\* Whatever the gateway publishes meanwhile, an answer comes from one snapshot.
OneSnapshot == Cardinality(reads) <= 1

\* No SQL of the model is explained or run that validate_sql refuses, none is run
\* before it was explained, and the model is asked MAX_ATTEMPTS times at most.
SqlIsChecked ==
    /\ Len(consulted) <= MaxAttempts
    /\ \A i \in DOMAIN ran :
         /\ IsSafe(ran[i][2])
         /\ ran[i][1] = "run" => i > 1 /\ ran[i - 1] = <<"explain", ran[i][2]>>

\* The model is told what was wrong with its last answer, not with an older one.
ModelIsCorrected ==
    \A k \in DOMAIN consulted :
      consulted[k].told = IF k = 1 THEN <<>> ELSE <<k - 1, consulted[k - 1].reply>>

\* An answer has a reason: rows come from a script of the snapshot or from SQL that
\* ran, hits from an index of the snapshot; that there is nothing is said of a declared
\* index, and that nothing matches is what the model said.
AnswersHaveReasons ==
    printed.status = "success" =>
      CASE printed.what = "rows" ->
             IF request.mode = "predefined"
             THEN \E i \in reads : request.script \in published[i].scripts
             ELSE ran # <<>> /\ Last(ran) = <<"run", Last(consulted).reply>>
        [] printed.what = "hits" -> \E i \in reads : request.index \in published[i].indexes
        [] printed.what = "nothing" -> request.index \in Declared
        [] printed.what = "no match" -> Declines(Last(consulted).reply)
        [] OTHER -> \A n \in printed.found :
                      \E i \in reads : n \in published[i].scripts \cup published[i].indexes

\* What the process answers is sound.
AnswersAreSound == OneSnapshot /\ SqlIsChecked /\ ModelIsCorrected /\ AnswersHaveReasons

\* What the user asks of a script reaches the database: the value at every mark is the
\* value of the parameter that stands there, and no filter that was given is left out
\* of a statement that uses it.  A list is no value; its statement lacks one.
ValueMeant(p) ==
    LET type == Template.params[p].type
        v == IF p \in DOMAIN Given /\ Given[p] # "" THEN Given[p] ELSE Template.params[p].default
    IN  CASE type = "number" -> Integer(v)
          [] type = "like" /\ v = "word" -> "pattern"
          [] OTHER -> v
RowsMeant ==
    LET limits == {p \in DOMAIN Template.params : Template.params[p].type = "limit"}
    IN  IF limits = {} THEN {Template.rows}
        ELSE {LET v == IF p \in DOMAIN Given /\ Given[p] \notin Blanks THEN Given[p]
                       ELSE Template.params[p].default
              IN  IF v \in Blanks \cup {"zero", "false"} THEN Template.rows
                  ELSE Integer(v) : p \in limits}
Asks(p) == p \in DOMAIN Given /\ Given[p] \notin Blanks \cup {"false", "empty"}
ParametersArrive ==
    cli.marks # <<>> /\ (\A p \in DOMAIN Given : Given[p] # "list") =>
      /\ Len(cli.marks) = Len(cli.values)
      /\ \A i \in DOMAIN cli.marks :
           IF cli.marks[i] = "max_rows" THEN cli.values[i] \in RowsMeant
           ELSE cli.values[i] = ValueMeant(cli.marks[i])
      /\ \A i \in DOMAIN Template.body :
           LET b == Template.body[i]
           IN  b.guard \in {"", b.param} /\ Asks(b.param) => b.param \in Range(cli.marks)

=============================================================================
