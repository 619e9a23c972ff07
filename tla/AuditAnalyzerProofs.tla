------------------------ MODULE AuditAnalyzerProofs ------------------------
(***************************************************************************)
(* Theorems about AuditAnalyzer for every set of scripts, indexes and      *)
(* answers of the model, any number of attempts, and any publications of   *)
(* the gateway while the process runs.                                     *)
(***************************************************************************)
EXTENDS AuditAnalyzer, TLAPS, FiniteSetTheorems

-----------------------------------------------------------------------------
\* The invariant.

At(S) == cli.at \in S
Places == {"start", "scripts", "indexes", "predefined", "query", "generated", "ask",
           "explain", "execute", "vector", "embed", "payload", "done"}
Untouched == {"start", "scripts", "indexes", "predefined", "generated", "vector"}
Speaking == {"ask", "explain", "execute"}

\* What the model is asked, and what SQL of it is given to the database.
Told == {<<>>} \cup (Nat \X Replies)
Question == [told : Told, reply : Replies]
Statement == {"explain", "run"} \X Replies

\* What the process is.
ProcessInv ==
    /\ DOMAIN cli = {"at", "conn", "attempt", "sql", "failure", "marks", "values"}
    /\ DOMAIN request = {"mode", "registered", "elsewhere", "script", "given", "query",
                         "index"}
    /\ consulted \in Seq(Question)
    /\ ran \in Seq(Statement)
    /\ ~At({"done"}) => printed = NoAnswer

\* Until its end the process reads the snapshot that it has open, and nothing else.
\* What it has open it has read, unless it has only just been opened.
ReadsInv ==
    /\ At(Untouched \ {"generated"}) => reads = {}
    /\ ~At({"start", "done"}) => cli.conn # 0 /\ reads \subseteq {cli.conn}
    /\ \A i, j \in reads : i = j

\* The model knows its last answer and what was wrong with it.
DialogInv ==
    /\ At(Untouched) => consulted = <<>> /\ cli.attempt = 1 /\ cli.failure = <<>>
    /\ At({"ask"}) =>
         /\ Len(consulted) = cli.attempt - 1
         /\ cli.failure = IF cli.attempt = 1 THEN <<>>
                          ELSE <<cli.attempt - 1, consulted[cli.attempt - 1].reply>>
    /\ At({"explain", "execute"}) =>
         /\ Len(consulted) = cli.attempt /\ consulted[cli.attempt].reply = cli.sql
         /\ IsSafe(cli.sql)
    /\ At({"execute"}) => ran # <<>> /\ ran[Len(ran)] = <<"explain", cli.sql>>

\* Where the answer of the process will come from.
SourceInv ==
    /\ At({"scripts", "indexes", "predefined", "generated", "vector"}) =>
         request.mode = cli.at
    /\ At({"query"}) => request.mode = "predefined" /\ request.script \in Now.scripts
    /\ At(Speaking) => request.mode = "generated"
    /\ At({"embed", "payload"}) => request.index \in Declared /\ HasVectors

AnalyzerInv ==
    /\ AnalyzerTypeOK /\ ProcessInv /\ ReadsInv /\ DialogInv /\ SourceInv
    /\ SqlIsChecked /\ ModelIsCorrected /\ AnswersHaveReasons

-----------------------------------------------------------------------------
\* The processes that a step leaves behind.

LEMMA Moved ==
    ASSUME ProcessInv, NEW place, cli' = [cli EXCEPT !.at = place]
    PROVE  /\ DOMAIN cli' = DOMAIN cli
           /\ cli'.at = place /\ cli'.conn = cli.conn /\ cli'.attempt = cli.attempt
           /\ cli'.sql = cli.sql /\ cli'.failure = cli.failure
BY DEF ProcessInv

LEMMA Ended ==
    ASSUME NEW status, NEW what, NEW found, End(status, what, found)
    PROVE  /\ cli' = [cli EXCEPT !.at = "done", !.conn = 0]
           /\ printed' = [status |-> status, what |-> what, found |-> found]
           /\ printed'.status = status /\ printed'.what = what /\ printed'.found = found
BY DEF End

\* A process that has ended keeps the invariant if it has read one snapshot, and the
\* answer has its reason.
LEMMA EndKeeps ==
    ASSUME AnalyzerAssumption, AnalyzerInv,
           cli' = [cli EXCEPT !.at = "done", !.conn = 0],
           printed'.status \in {"success", "error"},
           printed'.found \subseteq Names \cup Indexes,
           UNCHANGED <<published, request>>,
           reads' \subseteq 1..Len(published), \A i, j \in reads' : i = j,
           consulted' \in Seq(Question), Len(consulted') <= MaxAttempts,
           ran' \in Seq(Statement),
           SqlIsChecked', ModelIsCorrected', AnswersHaveReasons'
    PROVE  AnalyzerInv'
<1>1. /\ DOMAIN cli' = DOMAIN cli
      /\ cli'.at = "done" /\ cli'.conn = 0 /\ cli'.attempt = cli.attempt
      /\ cli'.sql = cli.sql /\ cli'.failure = cli.failure
  BY DEF AnalyzerInv, ProcessInv
<1>2. AnalyzerTypeOK'
  BY <1>1 DEF AnalyzerInv, AnalyzerTypeOK, AnalyzerAssumption
<1>3. ProcessInv'
  BY <1>1 DEF AnalyzerInv, ProcessInv, At
<1>4. ReadsInv'
  BY <1>1 DEF ReadsInv, At, Untouched
<1>5. DialogInv' /\ SourceInv'
  BY <1>1 DEF DialogInv, SourceInv, At, Untouched, Speaking
<1> QED
  BY <1>2, <1>3, <1>4, <1>5 DEF AnalyzerInv

\* So it does if it fails.
LEMMA FailureKeeps ==
    ASSUME AnalyzerAssumption, AnalyzerInv, NEW what, Fails(what),
           UNCHANGED <<published, request>>,
           reads' \subseteq 1..Len(published), \A i, j \in reads' : i = j,
           consulted' \in Seq(Question), Len(consulted') <= MaxAttempts,
           ran' \in Seq(Statement), SqlIsChecked', ModelIsCorrected'
    PROVE  AnalyzerInv'
<1>1. /\ cli' = [cli EXCEPT !.at = "done", !.conn = 0]
      /\ printed'.status = "error" /\ printed'.found = {}
  BY Ended DEF Fails
<1>2. AnswersHaveReasons'
  BY <1>1 DEF AnswersHaveReasons
<1> QED
  BY <1>1, <1>2, EndKeeps

\* Before its end the process has said nothing.
LEMMA SilentBefore ==
    ASSUME AnalyzerInv, ~At({"done"})
    PROVE  printed.status = "none"
<1>1. printed = NoAnswer
  BY DEF AnalyzerInv, ProcessInv
<1> QED
  BY <1>1 DEF NoAnswer

\* What a query reads is in the snapshot that is open.
LEMMA ReadingReadsOne ==
    ASSUME AnalyzerInv, ~At({"start", "done"}),
           reads' \in {reads, reads \cup {Snapshot}}
    PROVE  /\ reads' \subseteq {cli.conn} /\ reads' \subseteq 1..Len(published)
           /\ \A i, j \in reads' : i = j
           /\ cli.conn \in 1..Len(published)
BY DEF AnalyzerInv, ReadsInv, AnalyzerTypeOK, Snapshot

-----------------------------------------------------------------------------
\* Every action keeps the invariant.

\* The actions that ask nothing and run nothing keep what is known of both.
LEMMA SilentKeeps ==
    ASSUME AnalyzerInv, UNCHANGED <<consulted, ran>>
    PROVE  /\ consulted' \in Seq(Question)
           /\ Len(consulted') <= MaxAttempts
           /\ ran' \in Seq(Statement)
           /\ SqlIsChecked' /\ ModelIsCorrected'
BY DEF AnalyzerInv, ProcessInv, SqlIsChecked, ModelIsCorrected

LEMMA InitKeeps ==
    ASSUME AnalyzerAssumption, AnalyzerInit
    PROVE  AnalyzerInv
<1> USE DEF AnalyzerInit, Fresh, StartProcess
<1>1. /\ DOMAIN request = {"mode", "registered", "elsewhere", "script", "given", "query",
                           "index"}
      /\ request.mode \in Modes /\ request.script \in Names \cup {Nothing}
  BY DEF Names
<1>2. printed.status = "none" /\ printed.found = {}
  BY DEF NoAnswer
<1>3. AnalyzerTypeOK
  <2>1. Modes \subseteq {"scripts", "indexes", "predefined", "generated", "vector"}
    BY DEF AnalyzerAssumption
  <2>2. request.mode \in {"scripts", "indexes", "predefined", "generated", "vector"}
    BY <1>1, <2>1
  <2>3. MaxAttempts \in Nat \ {0} /\ MaxSnapshots \in Nat
    BY DEF AnalyzerAssumption
  <2>4. published \in Seq(SnapshotContents) /\ Len(published) <= MaxSnapshots
    BY <2>3
  <2>5. Len(consulted) <= MaxAttempts
    BY <2>3
  <2> QED
    BY <1>1, <1>2, <2>2, <2>3, <2>4, <2>5 DEF AnalyzerTypeOK
<1>4. ProcessInv
  BY <1>1 DEF ProcessInv, At
<1>5. ReadsInv /\ SourceInv
  BY DEF ReadsInv, SourceInv, At, Untouched, Speaking
<1>6. DialogInv
  BY DEF DialogInv, At, Untouched
<1>7. SqlIsChecked /\ ModelIsCorrected
  BY DEF SqlIsChecked, ModelIsCorrected, AnalyzerAssumption
<1>8. AnswersHaveReasons
  BY <1>2 DEF AnswersHaveReasons
<1> QED
  BY <1>3, <1>4, <1>5, <1>6, <1>7, <1>8 DEF AnalyzerInv

LEMMA PublishKeeps ==
    ASSUME AnalyzerAssumption, AnalyzerInv, NEW c \in SnapshotContents, Publish(c)
    PROVE  AnalyzerInv'
<1> USE DEF AnalyzerInv, Publish
<1>1. /\ published' \in Seq(SnapshotContents) /\ Len(published') = Len(published) + 1
      /\ \A i \in 1..Len(published) : published'[i] = published[i]
  BY DEF AnalyzerTypeOK
<1>2. AnalyzerTypeOK'
  BY <1>1 DEF AnalyzerTypeOK, AnalyzerAssumption
<1>3. ProcessInv'
  BY DEF ProcessInv, At
<1>4. ReadsInv'
  BY DEF ReadsInv, At, Untouched
<1>5. DialogInv'
  BY DEF DialogInv, At, Untouched, IsSafe
<1>6. SourceInv'
  <2>1. cli.conn # 0 => Now' = Now
    BY <1>1 DEF Now, Snapshot, AnalyzerTypeOK
  <2> QED
    BY <2>1 DEF SourceInv, ReadsInv, At, Speaking, HasVectors
<1>7. SqlIsChecked' /\ ModelIsCorrected'
  BY SilentKeeps
<1>8. AnswersHaveReasons'
  <2>1. printed.status = "none"
    BY SilentBefore DEF At
  <2> QED
    BY <2>1 DEF AnswersHaveReasons
<1> QED
  BY <1>2, <1>3, <1>4, <1>5, <1>6, <1>7, <1>8

LEMMA OpenKeeps ==
    ASSUME AnalyzerAssumption, AnalyzerInv, Open
    PROVE  AnalyzerInv'
<1>0. /\ cli.at = "start" /\ reads = {} /\ consulted = <<>> /\ cli.attempt = 1
      /\ cli.failure = <<>> /\ UNCHANGED <<published, request, reads, consulted, ran>>
  BY DEF Open, AnalyzerInv, ReadsInv, DialogInv, At, Untouched
<1>1. CASE Fails("missing")
  BY <1>0, <1>1, SilentKeeps, FailureKeeps
<1>2. CASE /\ published # <<>> /\ UNCHANGED printed
           /\ cli' = [cli EXCEPT !.at = request.mode, !.conn = Len(published)]
  <2>1. /\ DOMAIN cli' = DOMAIN cli
        /\ cli'.at = request.mode /\ cli'.conn = Len(published)
        /\ cli'.attempt = cli.attempt /\ cli'.sql = cli.sql /\ cli'.failure = cli.failure
    BY <1>2 DEF AnalyzerInv, ProcessInv
  <2>2. request.mode \in {"scripts", "indexes", "predefined", "generated", "vector"}
    BY DEF AnalyzerInv, AnalyzerTypeOK, AnalyzerAssumption
  <2>3. Len(published) \in Nat \ {0}
    BY <1>2 DEF AnalyzerInv, AnalyzerTypeOK
  <2>4. AnalyzerTypeOK'
    BY <1>0, <1>2, <2>1, <2>2, <2>3 DEF AnalyzerInv, AnalyzerTypeOK
  <2>5. ProcessInv'
    BY <1>0, <1>2, <2>1, <2>2 DEF AnalyzerInv, ProcessInv, At
  <2>6. ReadsInv'
    BY <1>0, <2>1, <2>2, <2>3 DEF ReadsInv, At, Untouched
  <2>7. DialogInv' /\ SourceInv'
    BY <1>0, <2>1, <2>2 DEF DialogInv, SourceInv, At, Untouched, Speaking
  <2>8. AnswersHaveReasons'
    BY <1>0, <1>2 DEF AnalyzerInv, ProcessInv, At, AnswersHaveReasons, NoAnswer
  <2> QED
    BY <1>0, <2>4, <2>5, <2>6, <2>7, <2>8, SilentKeeps DEF AnalyzerInv
<1> QED
  BY <1>1, <1>2 DEF Open

LEMMA ListScriptsKeeps ==
    ASSUME AnalyzerAssumption, AnalyzerInv, ListScripts
    PROVE  AnalyzerInv'
<1>0. /\ At({"scripts"}) /\ ~At({"start", "done"})
      /\ UNCHANGED <<published, request, consulted, ran>>
      /\ reads' \in {reads, reads \cup {Snapshot}}
  BY DEF ListScripts, Reading, At
<1>1. CASE Fails("registry")
  BY <1>0, <1>1, SilentKeeps, ReadingReadsOne, FailureKeeps
<1>2. CASE Reading /\ \E found \in {Now.scripts, {}} : End("success", "scripts", found)
  <2> PICK found \in {Now.scripts, {}} : End("success", "scripts", found)
    BY <1>2
  <2>1. /\ cli' = [cli EXCEPT !.at = "done", !.conn = 0]
        /\ printed'.status = "success" /\ printed'.what = "scripts" /\ printed'.found = found
    BY Ended
  <2>2. cli.conn \in 1..Len(published) /\ cli.conn \in reads'
    BY <1>0, <1>2, ReadingReadsOne DEF Reading, Snapshot
  <2>3. Now \in SnapshotContents /\ Now = published[cli.conn]
    BY <2>2 DEF AnalyzerInv, AnalyzerTypeOK, Now, Snapshot
  <2>4. found \subseteq Names \cup Indexes
    BY <2>3 DEF AnalyzerAssumption, Names
  <2>5. AnswersHaveReasons'
    BY <1>0, <2>1, <2>2, <2>3 DEF AnswersHaveReasons
  <2> QED
    BY <1>0, <2>1, <2>4, <2>5, SilentKeeps, ReadingReadsOne, EndKeeps
<1> QED
  BY <1>1, <1>2 DEF ListScripts

LEMMA ListIndexesKeeps ==
    ASSUME AnalyzerAssumption, AnalyzerInv, ListIndexes
    PROVE  AnalyzerInv'
<1>0. /\ cli.at = "indexes" /\ reads = {} /\ reads' = {Len(published)}
      /\ UNCHANGED <<published, request, consulted, ran>>
  BY DEF ListIndexes, AnalyzerInv, ReadsInv, At, Untouched
<1>1. PICK found \in {ListedIndexes, {}} : End("success", "indexes", found)
  BY DEF ListIndexes
<1>2. /\ cli' = [cli EXCEPT !.at = "done", !.conn = 0]
      /\ printed'.status = "success" /\ printed'.what = "indexes" /\ printed'.found = found
  BY <1>1, Ended
<1>3. Len(published) \in Nat \ {0}
  BY <1>0 DEF AnalyzerInv, ReadsInv, AnalyzerTypeOK, At
<1>4. Last(published) \in SnapshotContents /\ Last(published) = published[Len(published)]
  BY <1>3 DEF AnalyzerInv, AnalyzerTypeOK, Last
<1>5. found \subseteq Last(published).indexes
  BY <1>1 DEF ListedIndexes
<1>6. found \subseteq Names \cup Indexes
  BY <1>4, <1>5 DEF AnalyzerAssumption
<1>7. AnswersHaveReasons'
  BY <1>0, <1>2, <1>4, <1>5 DEF AnswersHaveReasons
<1>8. reads' \subseteq 1..Len(published) /\ \A i, j \in reads' : i = j
  BY <1>0, <1>3
<1> QED
  BY <1>0, <1>2, <1>6, <1>7, <1>8, SilentKeeps, EndKeeps

LEMMA PredefinedKeeps ==
    ASSUME AnalyzerAssumption, AnalyzerInv, Predefined
    PROVE  AnalyzerInv'
<1>0. /\ cli.at = "predefined" /\ ~At({"start", "done"})
      /\ UNCHANGED <<published, request, consulted, ran>>
      /\ reads' \in {reads, reads \cup {Snapshot}}
  BY DEF Predefined, Reading, At
<1>1. CASE \E what \in {"script", "registry", "parameters", "build"} : Fails(what)
  BY <1>0, <1>1, SilentKeeps, ReadingReadsOne, FailureKeeps
<1>2. CASE /\ Reading /\ request.script \in Now.scripts /\ UNCHANGED printed
           /\ \E v, w : cli' = [cli EXCEPT !.at = "query", !.values = v, !.marks = w]
  <2>1. /\ DOMAIN cli' = DOMAIN cli
        /\ cli'.at = "query" /\ cli'.conn = cli.conn
        /\ cli'.attempt = cli.attempt /\ cli'.sql = cli.sql /\ cli'.failure = cli.failure
    BY <1>2 DEF AnalyzerInv, ProcessInv
  <2>2. cli.conn \in 1..Len(published) /\ reads' \subseteq {cli.conn}
    BY <1>0, ReadingReadsOne
  <2>3. AnalyzerTypeOK'
    BY <1>0, <1>2, <2>1, <2>2 DEF AnalyzerInv, AnalyzerTypeOK
  <2>4. ProcessInv'
    BY <1>0, <1>2, <2>1 DEF AnalyzerInv, ProcessInv, At
  <2>5. ReadsInv'
    BY <2>1, <2>2 DEF ReadsInv, At, Untouched
  <2>6. DialogInv'
    BY <2>1 DEF DialogInv, At, Untouched
  <2>7. SourceInv'
    <3>1. request.mode = "predefined"
      BY <1>0 DEF AnalyzerInv, SourceInv, At
    <3>2. Now' = Now
      BY <1>0, <2>1 DEF Now, Snapshot
    <3> QED
      BY <1>0, <1>2, <2>1, <3>1, <3>2 DEF SourceInv, At, Speaking
  <2>8. AnswersHaveReasons'
    <3>1. printed.status = "none"
      BY <1>0, SilentBefore DEF At
    <3> QED
      BY <1>2, <3>1 DEF AnswersHaveReasons
  <2> QED
    BY <1>0, <2>3, <2>4, <2>5, <2>6, <2>7, <2>8, SilentKeeps DEF AnalyzerInv
<1> QED
  BY <1>1, <1>2 DEF Predefined

LEMMA RunScriptKeeps ==
    ASSUME AnalyzerAssumption, AnalyzerInv, RunScript
    PROVE  AnalyzerInv'
<1>0. /\ cli.at = "query" /\ ~At({"start", "done"})
      /\ UNCHANGED <<published, request, consulted, ran>>
      /\ reads' = reads \cup {Snapshot}
  BY DEF RunScript, Reading, At
<1>1. CASE Fails("database")
  BY <1>0, <1>1, SilentKeeps, ReadingReadsOne, FailureKeeps
<1>2. CASE End("success", "rows", {})
  <2>1. /\ cli' = [cli EXCEPT !.at = "done", !.conn = 0]
        /\ printed'.status = "success" /\ printed'.what = "rows" /\ printed'.found = {}
    BY <1>2, Ended
  <2>2. cli.conn \in reads'
    BY <1>0 DEF Snapshot
  <2>3. request.mode = "predefined" /\ request.script \in published[cli.conn].scripts
    BY <1>0 DEF AnalyzerInv, SourceInv, At, Now, Snapshot
  <2>4. AnswersHaveReasons'
    BY <1>0, <2>1, <2>2, <2>3 DEF AnswersHaveReasons
  <2> QED
    BY <1>0, <2>1, <2>4, SilentKeeps, ReadingReadsOne, EndKeeps
<1> QED
  BY <1>1, <1>2 DEF RunScript

LEMMA GeneratedKeeps ==
    ASSUME AnalyzerAssumption, AnalyzerInv, Generated
    PROVE  AnalyzerInv'
<1>0. /\ cli.at = "generated" /\ ~At({"start", "done"})
      /\ UNCHANGED <<published, request, consulted, ran>>
      /\ reads' \in {reads, reads \cup {Snapshot}}
  BY DEF Generated, At
<1>1. CASE \E what \in {"request", "schema"} : Fails(what)
  BY <1>0, <1>1, SilentKeeps, ReadingReadsOne, FailureKeeps
<1>2. CASE GoTo("ask")
  <2>1. /\ DOMAIN cli' = DOMAIN cli /\ UNCHANGED printed
        /\ cli'.at = "ask" /\ cli'.conn = cli.conn
        /\ cli'.attempt = cli.attempt /\ cli'.sql = cli.sql /\ cli'.failure = cli.failure
    BY <1>2, Moved DEF AnalyzerInv, GoTo
  <2>2. cli.conn \in 1..Len(published) /\ reads' \subseteq {cli.conn}
    BY <1>0, ReadingReadsOne
  <2>3. consulted = <<>> /\ cli.attempt = 1 /\ cli.failure = <<>> /\ request.mode = "generated"
    BY <1>0 DEF AnalyzerInv, DialogInv, SourceInv, At, Untouched
  <2>4. AnalyzerTypeOK'
    BY <1>0, <2>1, <2>2 DEF AnalyzerInv, AnalyzerTypeOK
  <2>5. ProcessInv'
    BY <1>0, <2>1 DEF AnalyzerInv, ProcessInv, At
  <2>6. ReadsInv'
    BY <2>1, <2>2 DEF ReadsInv, At, Untouched
  <2>7. DialogInv' /\ SourceInv'
    BY <1>0, <2>1, <2>3 DEF DialogInv, SourceInv, At, Untouched, Speaking
  <2>8. AnswersHaveReasons'
    <3>1. printed.status = "none"
      BY <1>0, SilentBefore DEF At
    <3> QED
      BY <2>1, <3>1 DEF AnswersHaveReasons
  <2> QED
    BY <1>0, <2>4, <2>5, <2>6, <2>7, <2>8, SilentKeeps DEF AnalyzerInv
<1> QED
  BY <1>1, <1>2 DEF Generated

-----------------------------------------------------------------------------
\* The conversation with the model.

\* Another attempt knows the SQL of this one.
LEMMA RetryKeeps ==
    ASSUME AnalyzerAssumption, AnalyzerInv, NEW reply \in Replies, Retry(reply),
           At(Speaking), UNCHANGED <<published, request>>,
           reads' \in {reads, reads \cup {Snapshot}},
           consulted' \in Seq(Question),
           Len(consulted') = cli.attempt, consulted'[cli.attempt].reply = reply,
           ran' \in Seq(Statement),
           SqlIsChecked', ModelIsCorrected'
    PROVE  AnalyzerInv'
<1>1. ~At({"start", "done"}) /\ ~At({"scripts", "indexes", "predefined"})
  BY DEF At, Speaking
<1>2. /\ cli.attempt \in 1..MaxAttempts /\ MaxAttempts \in Nat
      /\ request.mode = "generated"
  BY DEF AnalyzerInv, AnalyzerTypeOK, AnalyzerAssumption, SourceInv
<1>3. /\ cli.conn \in 1..Len(published) /\ reads' \subseteq {cli.conn}
      /\ reads' \subseteq 1..Len(published) /\ \A i, j \in reads' : i = j
  BY <1>1, ReadingReadsOne
<1>4. CASE cli.attempt = MaxAttempts
  <2>1. Fails("attempts")
    BY <1>4 DEF Retry
  <2> QED
    BY <1>2, <1>3, <2>1, FailureKeeps
<1>5. CASE cli.attempt # MaxAttempts
  <2>1. /\ DOMAIN cli' = DOMAIN cli /\ UNCHANGED printed
        /\ cli'.at = "ask" /\ cli'.conn = cli.conn
        /\ cli'.attempt = cli.attempt + 1 /\ cli'.sql = cli.sql
        /\ cli'.failure = <<cli.attempt, reply>>
    BY <1>5 DEF AnalyzerInv, ProcessInv, Retry
  <2>2. AnalyzerTypeOK'
    BY <1>2, <1>3, <1>5, <2>1 DEF AnalyzerInv, AnalyzerTypeOK
  <2>3. ProcessInv'
    BY <1>1, <2>1 DEF AnalyzerInv, ProcessInv, At
  <2>4. ReadsInv'
    BY <1>3, <2>1 DEF ReadsInv, At, Untouched
  <2>5. DialogInv' /\ SourceInv'
    BY <1>2, <2>1 DEF DialogInv, SourceInv, At, Untouched, Speaking
  <2>6. AnswersHaveReasons'
    <3>1. printed.status = "none"
      BY <1>1, SilentBefore DEF At
    <3> QED
      BY <2>1, <3>1 DEF AnswersHaveReasons
  <2> QED
    BY <2>2, <2>3, <2>4, <2>5, <2>6 DEF AnalyzerInv
<1> QED
  BY <1>4, <1>5

\* A question to the model tells it of its last answer.
LEMMA AskingIsCorrect ==
    ASSUME AnalyzerAssumption, AnalyzerInv, NEW reply \in Replies, Ask(reply)
    PROVE  /\ consulted' \in Seq(Question)
           /\ Len(consulted') = cli.attempt /\ consulted'[cli.attempt].reply = reply
           /\ Last(consulted').reply = reply
           /\ Len(consulted') <= MaxAttempts
           /\ SqlIsChecked' /\ ModelIsCorrected'
<1> DEFINE new == [told |-> cli.failure, reply |-> reply]
<1>1. /\ consulted' = Append(consulted, new) /\ UNCHANGED ran
      /\ consulted \in Seq(Question)
      /\ cli.attempt \in 1..MaxAttempts /\ MaxAttempts \in Nat
      /\ Len(consulted) = cli.attempt - 1
      /\ cli.failure = IF cli.attempt = 1 THEN <<>>
                       ELSE <<cli.attempt - 1, consulted[cli.attempt - 1].reply>>
  BY DEF Ask, AnalyzerInv, ProcessInv, DialogInv, AnalyzerTypeOK, At, AnalyzerAssumption
<1>2. cli.failure \in Told
  <2>1. CASE cli.attempt = 1
    BY <1>1, <2>1 DEF Told
  <2>2. CASE cli.attempt # 1
    <3>1. cli.attempt - 1 \in 1..Len(consulted) /\ cli.attempt - 1 \in Nat
      BY <1>1, <2>2
    <3>2. consulted[cli.attempt - 1] \in Question
      BY <1>1, <3>1
    <3>3. consulted[cli.attempt - 1].reply \in Replies
      BY <3>2 DEF Question
    <3> QED
      BY <1>1, <2>2, <3>1, <3>3 DEF Told
  <2> QED
    BY <2>1, <2>2
<1>3. new \in Question
  BY <1>2 DEF Question
<1>4. /\ consulted' \in Seq(Question)
      /\ Len(consulted') = cli.attempt /\ consulted'[cli.attempt] = new
      /\ \A k \in 1..(cli.attempt - 1) : consulted'[k] = consulted[k]
  <2> HIDE DEF new
  <2> QED
    BY <1>1, <1>3
<1>5. ModelIsCorrected'
  <2> SUFFICES ASSUME NEW k \in DOMAIN consulted'
               PROVE  consulted'[k].told = IF k = 1 THEN <<>> ELSE <<k - 1, consulted'[k - 1].reply>>
    BY DEF ModelIsCorrected
  <2>1. k \in 1..cli.attempt
    BY <1>1, <1>4
  <2>2. CASE k = cli.attempt
    <3>1. consulted'[k].told = cli.failure
      BY <1>4, <2>2
    <3>2. k # 1 => k - 1 \in 1..(cli.attempt - 1)
      BY <1>1, <2>1, <2>2
    <3>3. k # 1 => consulted'[k - 1] = consulted[k - 1]
      BY <1>4, <3>2
    <3> QED
      BY <1>1, <2>2, <3>1, <3>3
  <2>3. CASE k # cli.attempt
    <3>1. k \in 1..(cli.attempt - 1) /\ (k # 1 => k - 1 \in 1..(cli.attempt - 1))
      BY <1>1, <2>1, <2>3
    <3>2. k \in DOMAIN consulted
      BY <1>1, <3>1
    <3> QED
      BY <1>4, <3>1, <3>2 DEF AnalyzerInv, ModelIsCorrected
  <2> QED
    BY <2>2, <2>3
<1>6. SqlIsChecked'
  BY <1>1, <1>4 DEF AnalyzerInv, SqlIsChecked
<1> QED
  BY <1>1, <1>4, <1>5, <1>6 DEF Last

LEMMA AskKeeps ==
    ASSUME AnalyzerAssumption, AnalyzerInv, NEW reply \in Replies, Ask(reply)
    PROVE  AnalyzerInv'
<1>0. /\ cli.at = "ask" /\ ~At({"start", "done"}) /\ At(Speaking)
      /\ UNCHANGED <<published, request, reads, ran>>
      /\ ran' \in Seq(Statement)
  BY DEF Ask, At, Speaking, AnalyzerInv, ProcessInv
<1>1. /\ consulted' \in Seq(Question)
      /\ Len(consulted') = cli.attempt /\ consulted'[cli.attempt].reply = reply
      /\ Last(consulted').reply = reply
      /\ Len(consulted') <= MaxAttempts
      /\ SqlIsChecked' /\ ModelIsCorrected'
  BY AskingIsCorrect
<1>2. CASE Declines(reply) /\ End("success", "no match", {})
  <2>1. /\ cli' = [cli EXCEPT !.at = "done", !.conn = 0]
        /\ printed'.status = "success" /\ printed'.what = "no match" /\ printed'.found = {}
    BY <1>2, Ended
  <2>2. Declines(Last(consulted').reply)
    BY <1>1, <1>2
  <2>3. AnswersHaveReasons'
    BY <2>1, <2>2 DEF AnswersHaveReasons, Declines
  <2> QED
    BY <1>0, <1>1, <2>1, <2>3, ReadingReadsOne, EndKeeps
<1>3. CASE Retry(reply)
  BY <1>0, <1>1, <1>3, RetryKeeps
<1>4. CASE /\ IsSafe(reply) /\ UNCHANGED printed
           /\ cli' = [cli EXCEPT !.at = "explain", !.sql = reply]
  <2>1. /\ DOMAIN cli' = DOMAIN cli
        /\ cli'.at = "explain" /\ cli'.conn = cli.conn
        /\ cli'.attempt = cli.attempt /\ cli'.sql = reply /\ cli'.failure = cli.failure
    BY <1>4 DEF AnalyzerInv, ProcessInv
  <2>2. AnalyzerTypeOK'
    BY <1>0, <1>1, <1>4, <2>1 DEF AnalyzerInv, AnalyzerTypeOK
  <2>3. ProcessInv'
    BY <1>0, <1>1, <1>4, <2>1 DEF AnalyzerInv, ProcessInv, At
  <2>4. ReadsInv'
    BY <1>0, <2>1 DEF AnalyzerInv, ReadsInv, At, Untouched
  <2>5. DialogInv'
    <3>1. IsSafe(cli'.sql)
      BY <1>4, <2>1
    <3> QED
      BY <1>1, <2>1, <3>1 DEF DialogInv, At, Untouched, IsSafe
  <2>6. SourceInv'
    BY <1>0, <2>1 DEF AnalyzerInv, SourceInv, At, Speaking
  <2>7. AnswersHaveReasons'
    <3>1. printed.status = "none"
      BY <1>0, SilentBefore DEF At
    <3> QED
      BY <1>4, <3>1 DEF AnswersHaveReasons
  <2> QED
    BY <1>1, <2>2, <2>3, <2>4, <2>5, <2>6, <2>7 DEF AnalyzerInv
<1> QED
  BY <1>2, <1>3, <1>4 DEF Ask

\* A statement that is given to the database has been checked.
LEMMA StatementIsChecked ==
    ASSUME AnalyzerAssumption, AnalyzerInv, NEW kind \in {"explain", "run"},
           kind = "explain" => cli.at = "explain",
           kind = "run" => cli.at = "execute",
           ran' = Append(ran, <<kind, cli.sql>>), UNCHANGED consulted
    PROVE  /\ consulted' \in Seq(Question) /\ Len(consulted') <= MaxAttempts
           /\ Len(consulted') = cli.attempt /\ consulted'[cli.attempt].reply = cli.sql
           /\ cli.sql \in Replies
           /\ ran' \in Seq(Statement) /\ ran' # <<>> /\ ran'[Len(ran')] = <<kind, cli.sql>>
           /\ SqlIsChecked' /\ ModelIsCorrected'
<1>1. /\ consulted \in Seq(Question) /\ ran \in Seq(Statement)
      /\ Len(consulted) <= MaxAttempts /\ ModelIsCorrected'
      /\ Len(consulted) = cli.attempt /\ consulted[cli.attempt].reply = cli.sql
      /\ IsSafe(cli.sql) /\ cli.attempt \in 1..MaxAttempts
  BY DEF AnalyzerInv, ProcessInv, DialogInv, AnalyzerTypeOK, At, ModelIsCorrected
<1>2. cli.sql \in Replies
  <2>1. consulted[cli.attempt] \in Question
    BY <1>1
  <2> QED
    BY <1>1, <2>1 DEF Question
<1>3. <<kind, cli.sql>> \in Statement
  BY <1>2 DEF Statement
<1>4. /\ ran' \in Seq(Statement) /\ Len(ran') = Len(ran) + 1 /\ Len(ran) \in Nat
      /\ ran'[Len(ran) + 1] = <<kind, cli.sql>>
      /\ \A i \in 1..Len(ran) : ran'[i] = ran[i]
  BY <1>1, <1>3
<1>5. SqlIsChecked'
  <2>1. Len(consulted') <= MaxAttempts
    BY <1>1
  <2>2. ASSUME NEW i \in DOMAIN ran'
        PROVE  /\ IsSafe(ran'[i][2])
               /\ ran'[i][1] = "run" => i > 1 /\ ran'[i - 1] = <<"explain", ran'[i][2]>>
    <3>1. i \in 1..(Len(ran) + 1)
      BY <1>4
    <3>2. CASE i \in 1..Len(ran)
      <4>1. i \in DOMAIN ran /\ ran'[i] = ran[i] /\ (i > 1 => ran'[i - 1] = ran[i - 1])
        BY <1>1, <1>4, <3>2
      <4>2. /\ IsSafe(ran[i][2])
            /\ ran[i][1] = "run" => i > 1 /\ ran[i - 1] = <<"explain", ran[i][2]>>
        BY <4>1 DEF AnalyzerInv, SqlIsChecked
      <4> QED
        BY <4>1, <4>2
    <3>3. CASE i = Len(ran) + 1
      <4>1. ran'[i] = <<kind, cli.sql>>
        BY <1>4, <3>3
      <4>2. kind = "run" => i > 1 /\ ran'[i - 1] = <<"explain", cli.sql>>
        <5> SUFFICES ASSUME cli.at = "execute"
                     PROVE  i > 1 /\ ran'[i - 1] = <<"explain", cli.sql>>
          OBVIOUS
        <5>1. ran # <<>> /\ ran[Len(ran)] = <<"explain", cli.sql>>
          BY DEF AnalyzerInv, DialogInv, At
        <5>2. Len(ran) \in 1..Len(ran)
          BY <1>1, <5>1
        <5> QED
          BY <1>4, <3>3, <5>1, <5>2
      <4> QED
        BY <1>1, <4>1, <4>2
    <3> QED
      BY <1>4, <3>1, <3>2, <3>3
  <2> QED
    BY <2>1, <2>2 DEF SqlIsChecked
<1> QED
  BY <1>1, <1>2, <1>4, <1>5

LEMMA ExplainKeeps ==
    ASSUME AnalyzerAssumption, AnalyzerInv, Explain
    PROVE  AnalyzerInv'
<1>0. /\ cli.at = "explain" /\ ~At({"start", "done"}) /\ At(Speaking)
      /\ UNCHANGED <<published, request, consulted>>
      /\ ran' = Append(ran, <<"explain", cli.sql>>)
      /\ reads' \in {reads, reads \cup {Snapshot}}
  BY DEF Explain, At, Speaking, Reading
<1>1. /\ consulted' \in Seq(Question) /\ Len(consulted') <= MaxAttempts
      /\ Len(consulted') = cli.attempt /\ consulted'[cli.attempt].reply = cli.sql
      /\ cli.sql \in Replies
      /\ ran' \in Seq(Statement) /\ ran' # <<>> /\ ran'[Len(ran')] = <<"explain", cli.sql>>
      /\ SqlIsChecked' /\ ModelIsCorrected'
  BY <1>0, StatementIsChecked
<1>2. CASE Retry(cli.sql)
  BY <1>0, <1>1, <1>2, RetryKeeps
<1>3. CASE GoTo("execute")
  <2>1. /\ DOMAIN cli' = DOMAIN cli /\ UNCHANGED printed
        /\ cli'.at = "execute" /\ cli'.conn = cli.conn
        /\ cli'.attempt = cli.attempt /\ cli'.sql = cli.sql /\ cli'.failure = cli.failure
    BY <1>3, Moved DEF AnalyzerInv, GoTo
  <2>2. /\ cli.conn \in 1..Len(published) /\ reads' \subseteq {cli.conn}
        /\ reads' \subseteq 1..Len(published)
    BY <1>0, ReadingReadsOne
  <2>3. AnalyzerTypeOK'
    BY <1>0, <1>1, <2>1, <2>2 DEF AnalyzerInv, AnalyzerTypeOK
  <2>4. ProcessInv'
    BY <1>0, <1>1, <2>1 DEF AnalyzerInv, ProcessInv, At
  <2>5. ReadsInv'
    BY <2>1, <2>2 DEF ReadsInv, At, Untouched
  <2>6. DialogInv'
    <3>1. IsSafe(cli.sql)
      BY <1>0 DEF AnalyzerInv, DialogInv, At
    <3> QED
      BY <1>1, <2>1, <3>1 DEF DialogInv, At, Untouched, IsSafe
  <2>7. SourceInv'
    BY <1>0, <2>1 DEF AnalyzerInv, SourceInv, At, Speaking
  <2>8. AnswersHaveReasons'
    <3>1. printed.status = "none"
      BY <1>0, SilentBefore DEF At
    <3> QED
      BY <2>1, <3>1 DEF AnswersHaveReasons
  <2> QED
    BY <1>1, <2>3, <2>4, <2>5, <2>6, <2>7, <2>8 DEF AnalyzerInv
<1> QED
  BY <1>2, <1>3 DEF Explain

LEMMA ExecuteKeeps ==
    ASSUME AnalyzerAssumption, AnalyzerInv, Execute
    PROVE  AnalyzerInv'
<1>0. /\ cli.at = "execute" /\ ~At({"start", "done"})
      /\ UNCHANGED <<published, request, consulted>>
      /\ ran' = Append(ran, <<"run", cli.sql>>)
      /\ reads' \in {reads, reads \cup {Snapshot}}
  BY DEF Execute, At, Reading
<1>1. /\ consulted' \in Seq(Question) /\ Len(consulted') <= MaxAttempts
      /\ Len(consulted') = cli.attempt /\ consulted'[cli.attempt].reply = cli.sql
      /\ ran' \in Seq(Statement) /\ ran' # <<>> /\ ran'[Len(ran')] = <<"run", cli.sql>>
      /\ SqlIsChecked' /\ ModelIsCorrected'
  BY <1>0, StatementIsChecked
<1>2. CASE Fails("database")
  BY <1>0, <1>1, <1>2, ReadingReadsOne, FailureKeeps
<1>3. CASE End("success", "rows", {})
  <2>1. /\ cli' = [cli EXCEPT !.at = "done", !.conn = 0]
        /\ printed'.status = "success" /\ printed'.what = "rows" /\ printed'.found = {}
    BY <1>3, Ended
  <2>2. request.mode = "generated"
    BY <1>0 DEF AnalyzerInv, SourceInv, At, Speaking
  <2>3. ran' # <<>> /\ Last(ran') = <<"run", Last(consulted').reply>>
    BY <1>1 DEF Last
  <2>4. AnswersHaveReasons'
    BY <1>0, <2>1, <2>2, <2>3 DEF AnswersHaveReasons
  <2> QED
    BY <1>0, <1>1, <2>1, <2>4, ReadingReadsOne, EndKeeps
<1> QED
  BY <1>2, <1>3 DEF Execute

-----------------------------------------------------------------------------
\* The search in an index.

\* A search that finds nothing is one of an index that is declared.
LEMMA NothingKeeps ==
    ASSUME AnalyzerAssumption, AnalyzerInv, ~At({"start", "done"}),
           End("success", "nothing", {}), request.index \in Declared,
           UNCHANGED <<published, request, consulted, ran>>,
           reads' \in {reads, reads \cup {Snapshot}}
    PROVE  AnalyzerInv'
<1>1. /\ cli' = [cli EXCEPT !.at = "done", !.conn = 0]
      /\ printed'.status = "success" /\ printed'.what = "nothing" /\ printed'.found = {}
  BY Ended
<1>2. AnswersHaveReasons'
  BY <1>1 DEF AnswersHaveReasons
<1> QED
  BY <1>1, <1>2, SilentKeeps, ReadingReadsOne, EndKeeps

\* The next step of a search in an index that the snapshot holds.
LEMMA SearchingKeeps ==
    ASSUME AnalyzerAssumption, AnalyzerInv, ~At({"start", "done"}),
           NEW place \in {"embed", "payload"}, GoTo(place),
           request.index \in Declared, HasVectors,
           UNCHANGED <<published, request, consulted, ran>>,
           reads' \in {reads, reads \cup {Snapshot}}
    PROVE  AnalyzerInv'
<1>1. /\ DOMAIN cli' = DOMAIN cli /\ UNCHANGED printed
      /\ cli'.at = place /\ cli'.conn = cli.conn
      /\ cli'.attempt = cli.attempt /\ cli'.sql = cli.sql /\ cli'.failure = cli.failure
  BY Moved DEF AnalyzerInv, GoTo
<1>2. /\ cli.conn \in 1..Len(published) /\ reads' \subseteq {cli.conn}
      /\ reads' \subseteq 1..Len(published)
  BY ReadingReadsOne
<1>3. AnalyzerTypeOK'
  BY <1>1, <1>2 DEF AnalyzerInv, AnalyzerTypeOK
<1>4. ProcessInv'
  BY <1>1 DEF AnalyzerInv, ProcessInv, At
<1>5. ReadsInv'
  BY <1>1, <1>2 DEF ReadsInv, At, Untouched
<1>6. DialogInv'
  BY <1>1 DEF DialogInv, At, Untouched
<1>7. SourceInv'
  <2>1. HasVectors'
    BY <1>1 DEF HasVectors, Now, Snapshot
  <2> QED
    BY <1>1, <2>1 DEF SourceInv, At, Speaking
<1>8. AnswersHaveReasons'
  <2>1. printed.status = "none"
    BY SilentBefore DEF At
  <2> QED
    BY <1>1, <2>1 DEF AnswersHaveReasons
<1> QED
  BY <1>3, <1>4, <1>5, <1>6, <1>7, <1>8, SilentKeeps DEF AnalyzerInv

LEMMA VectorKeeps ==
    ASSUME AnalyzerAssumption, AnalyzerInv, Vector
    PROVE  AnalyzerInv'
<1>0. /\ ~At({"start", "done"}) /\ UNCHANGED <<published, request, consulted, ran>>
      /\ reads' \in {reads, reads \cup {Snapshot}}
  BY DEF Vector, Reading, At
<1>1. CASE \E what \in {"request", "index"} : Fails(what)
  BY <1>0, <1>1, SilentKeeps, ReadingReadsOne, FailureKeeps
<1>2. CASE IsKnown /\ End("success", "nothing", {})
  BY <1>0, <1>2, NothingKeeps DEF IsKnown
<1>3. CASE IsKnown /\ HasVectors /\ GoTo("embed")
  BY <1>0, <1>3, SearchingKeeps DEF IsKnown
<1> QED
  BY <1>1, <1>2, <1>3 DEF Vector

LEMMA EmbedKeeps ==
    ASSUME AnalyzerAssumption, AnalyzerInv, Embed
    PROVE  AnalyzerInv'
<1>0. /\ ~At({"start", "done"}) /\ UNCHANGED <<published, request, consulted, ran>>
      /\ reads' \in {reads, reads \cup {Snapshot}}
      /\ request.index \in Declared /\ HasVectors
  BY DEF Embed, At, AnalyzerInv, SourceInv
<1>1. CASE GoTo("payload")
  BY <1>0, <1>1, SearchingKeeps
<1>2. CASE End("success", "nothing", {})
  BY <1>0, <1>2, NothingKeeps
<1> QED
  BY <1>1, <1>2 DEF Embed

LEMMA ShowHitsKeeps ==
    ASSUME AnalyzerAssumption, AnalyzerInv, ShowHits
    PROVE  AnalyzerInv'
<1>0. /\ ~At({"start", "done"}) /\ UNCHANGED <<published, request, consulted, ran>>
      /\ reads' = reads \cup {Snapshot}
      /\ request.index \in Declared /\ request.index \in published[cli.conn].indexes
  BY DEF ShowHits, Reading, At, AnalyzerInv, SourceInv, HasVectors, Now, Snapshot
<1>1. CASE End("success", "hits", {request.index})
  <2>1. /\ cli' = [cli EXCEPT !.at = "done", !.conn = 0]
        /\ printed'.status = "success" /\ printed'.what = "hits"
        /\ printed'.found = {request.index}
    BY <1>1, Ended
  <2>2. cli.conn \in reads'
    BY <1>0 DEF Snapshot
  <2>3. AnswersHaveReasons'
    BY <1>0, <2>1, <2>2 DEF AnswersHaveReasons
  <2>4. printed'.found \subseteq Names \cup Indexes
    BY <1>0, <2>1 DEF AnalyzerAssumption
  <2> QED
    BY <1>0, <2>1, <2>3, <2>4, SilentKeeps, ReadingReadsOne, EndKeeps
<1>2. CASE End("success", "nothing", {})
  BY <1>0, <1>2, NothingKeeps
<1>3. CASE Fails("search")
  BY <1>0, <1>3, SilentKeeps, ReadingReadsOne, FailureKeeps
<1> QED
  BY <1>1, <1>2, <1>3 DEF ShowHits

-----------------------------------------------------------------------------
\* The theorems.

\* A stuttering step changes nothing.
LEMMA StutterKeeps ==
    ASSUME AnalyzerInv, UNCHANGED analyzerVars
    PROVE  AnalyzerInv'
<1> USE DEF analyzerVars, AnalyzerInv
<1>1. AnalyzerTypeOK'
  BY DEF AnalyzerTypeOK
<1>2. ProcessInv' /\ ReadsInv'
  BY DEF ProcessInv, ReadsInv, At
<1>3. DialogInv'
  BY DEF DialogInv, At, IsSafe
<1>4. SourceInv'
  <2>1. Now' = Now /\ HasVectors' = HasVectors
    BY DEF Now, Snapshot, HasVectors
  <2> QED
    BY <2>1 DEF SourceInv, At
<1>5. SqlIsChecked' /\ ModelIsCorrected'
  BY SilentKeeps
<1>6. AnswersHaveReasons'
  BY DEF AnswersHaveReasons, Declines
<1> QED
  BY <1>1, <1>2, <1>3, <1>4, <1>5, <1>6

LEMMA StepKeeps ==
    ASSUME AnalyzerAssumption, AnalyzerInv, [AnalyzerNext]_analyzerVars
    PROVE  AnalyzerInv'
BY StutterKeeps, PublishKeeps, OpenKeeps, ListScriptsKeeps, ListIndexesKeeps,
   PredefinedKeeps, RunScriptKeeps, GeneratedKeeps, AskKeeps, ExplainKeeps, ExecuteKeeps,
   VectorKeeps, EmbedKeeps, ShowHitsKeeps
   DEF AnalyzerNext

LEMMA InvHolds ==
    ASSUME AnalyzerAssumption
    PROVE  AnalyzerSpec => []AnalyzerInv
<1>1. AnalyzerInit => AnalyzerInv
  BY InitKeeps
<1>2. AnalyzerInv /\ [AnalyzerNext]_analyzerVars => AnalyzerInv'
  BY StepKeeps
<1> QED
  BY <1>1, <1>2, PTL DEF AnalyzerSpec

\* At most one snapshot is read.
LEMMA OneIsRead ==
    ASSUME AnalyzerInv
    PROVE  OneSnapshot
<1>1. \A i, j \in reads : i = j
  BY DEF AnalyzerInv, ReadsInv
<1>2. CASE reads = {}
  BY <1>2, FS_EmptySet DEF OneSnapshot
<1>3. CASE reads # {}
  <2> PICK i \in reads : TRUE
    BY <1>3
  <2>1. reads = {i}
    BY <1>1
  <2>2. Cardinality({i}) = 1
    BY FS_Singleton
  <2> QED
    BY <2>1, <2>2 DEF OneSnapshot
<1> QED
  BY <1>2, <1>3

\* The state of a process of the analyzer is always well formed.
THEOREM TypeCorrect ==
    ASSUME AnalyzerAssumption
    PROVE  AnalyzerSpec => []AnalyzerTypeOK
<1>1. AnalyzerInv => AnalyzerTypeOK
  BY DEF AnalyzerInv
<1> QED
  BY <1>1, InvHolds, PTL

\* Whatever is published while the process runs, its answer comes from one snapshot;
\* no SQL of the model runs that was not checked and explained; the model is told the
\* error of its last answer; and every answer has its reason in what was read.
THEOREM AnswersStaySound ==
    ASSUME AnalyzerAssumption
    PROVE  AnalyzerSpec => []AnswersAreSound
<1>1. AnalyzerInv => AnswersAreSound
  BY OneIsRead DEF AnalyzerInv, AnswersAreSound
<1> QED
  BY <1>1, InvHolds, PTL

=============================================================================
