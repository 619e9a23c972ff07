----------------------------- MODULE Benchmark ------------------------------
(***************************************************************************)
(* The benchmarks of the agent (src/benchmarks): a runner writes its model *)
(* into config.json while it builds the agent, asks the agent the steps of *)
(* every item, checks and scores the answers, removes what the items left, *)
(* writes its reports and removes old ones.  Runners share config.json,    *)
(* the workspace and the directory of the reports.                         *)
(***************************************************************************)
EXTENDS Naturals, Sequences, FiniteSets, FiniteSetsExt, SequencesExt

CONSTANTS
    Runners,
    Overriding,       \* the runners started with --model
    Items,            \* a sequence of items; an item is [multi, steps, cleanup]
    Files,
    NoFile,
    Answers,          \* what the agent may do at a step of each item
    OldRuns,          \* the number of directories of earlier runs
    KeepRuns,
    MaxFaults

ConstantsAssumption ==
    /\ Overriding \subseteq Runners /\ NoFile \notin Files
    /\ OldRuns \in Nat /\ KeepRuns \in Nat /\ MaxFaults \in Nat
    /\ DOMAIN Answers = DOMAIN Items

Own == "own"
Broken == "broken"
Models == Runners \cup {Own, Broken}
NoText == "none"
Named(i) == Items[i].cleanup \cup ({s.file : s \in Range(Items[i].steps)} \ {NoFile})
Dirs == Runners \cup 1..OldRuns
Scores == 0..10000

VARIABLES
    config,     \* the model in config.json
    files,      \* for each file of the workspace the item that wrote it, or 0
    dirs,       \* for each directory of a run when it last changed, or 0
    clock,
    runner,
    spoilt,     \* config.json was lost: a kill, or a write that failed
    faults

vars == <<config, files, dirs, clock, runner, spoilt, faults>>

StepResults == [passed : BOOLEAN, score : Scores, met : BOOLEAN, writer : 0..Len(Items)]
ItemResults == [passed : BOOLEAN, score : Scores, steps : Seq(StepResults)]

TypeOK ==
    /\ config \in Models /\ files \in [Files -> 0..Len(Items)]
    /\ dirs \in [Dirs -> Nat] /\ clock \in Nat
    /\ \A r \in Runners :
         /\ runner[r].at \in {"begin", "read", "write", "create", "restore", "sync", "items",
                              "close", "report", "save", "clean", "done", "failed"}
         /\ runner[r].original \in Models \cup {NoText} /\ runner[r].model \in Models
         /\ runner[r].item \in 1..(Len(Items) + 1) /\ runner[r].raised \in BOOLEAN
         /\ \A s \in Range(runner[r].steps) : s \in StepResults
         /\ \A x \in Range(runner[r].results) : x \in ItemResults
    /\ spoilt \in BOOLEAN /\ faults \in 0..MaxFaults

-----------------------------------------------------------------------------
\* The checks of an answer (evaluator.py): a name, the outcome and a score in percent.
Check(name, passed, score) == [name |-> name, passed |-> passed, score |-> score]
AllOrNothing(name, passed) == Check(name, passed, IF passed THEN 100 ELSE 0)

CheckIterations(limit, n) ==
    IF n = 0 THEN Check("iterations", FALSE, 0)
    ELSE IF n > limit THEN Check("iterations", FALSE, (100 * limit) \div n)
    ELSE Check("iterations", TRUE, 100 - (100 * (n - 1)) \div (2 * limit))

CheckJudge(score) == Check("llm_judge", score >= 50, score)

\* The answer a to the step s in a workspace w.
Checks(s, a, w) ==
    <<AllOrNothing("tools", a.tools), AllOrNothing("skills", a.skills),
      CheckIterations(s.limit, a.iterations),
      AllOrNothing("keywords_include", a.include),
      AllOrNothing("keywords_exclude", a.exclude)>>
    \o (IF s.file = NoFile THEN <<>> ELSE <<AllOrNothing("file_exists", w[s.file] # 0)>>)
    \o (IF s.judge THEN <<CheckJudge(a.judge)>> ELSE <<>>)

Critical == {"tools", "keywords_include", "file_exists", "file_content", "llm_judge"}
Met(checks) == \A c \in Range(checks) : c.name \in Critical => c.passed

SumOf(numbers) == FoldLeft(LAMBDA sum, n : sum + n, 0, numbers)
ScoresOf(checks) == [k \in DOMAIN checks |-> checks[k].score]

\* evaluate: the plain average decides ...
Passes(checks) == 2 * SumOf(ScoresOf(checks)) >= 100 * Len(checks) /\ Met(checks)

\* ... and _weighted_score is what is reported, here in hundredths of a percent.
Weight(c) ==
    CASE c.name \in {"tools", "llm_judge"} -> 20
      [] c.name \in {"keywords_exclude", "skills"} -> 10
      [] OTHER -> 15
Weighted(checks) ==
    LET weights == [k \in DOMAIN checks |-> Weight(checks[k])]
    IN  (100 * SumOf([k \in DOMAIN checks |-> checks[k].score * weights[k]])) \div SumOf(weights)

\* score_single, score_step
Evaluated(s, a, w) ==
    LET checks == Checks(s, a, w)
    IN  [passed |-> Passes(checks), score |-> Weighted(checks), met |-> Met(checks),
         writer |-> IF s.file = NoFile THEN 0 ELSE w[s.file]]

\* A step that raised.
NoResult == [passed |-> FALSE, score |-> 0, met |-> FALSE, writer |-> 0]

\* score_multi_step: four fifths for the scores by weight, one for the steps that passed.
Together(i, steps) ==
    LET weights == [k \in DOMAIN steps |-> Items[i].steps[k].weight]
        total == SumOf(weights)
        sum == SumOf([k \in DOMAIN steps |-> steps[k].score * weights[k]])
        passed == Len(SelectSeq(steps, LAMBDA x : x.passed))
        by == IF total = 0 THEN 1 ELSE total
        score == (80 * sum * Len(steps) + 200000 * by * passed) \div (100 * by * Len(steps))
    IN  [passed |-> passed = Len(steps) /\ score >= 5000, score |-> score, steps |-> steps]

ItemResult(i, steps) ==
    IF Items[i].multi THEN Together(i, steps)
    ELSE [passed |-> steps[1].passed, score |-> steps[1].score, steps |-> steps]

-----------------------------------------------------------------------------
At(r, pc) == runner[r].at = pc
Goes(r, pc) == runner' = [runner EXCEPT ![r].at = pc]
CanFail == faults < MaxFaults
Fault == CanFail /\ faults' = faults + 1

\* The directory of the run.
Begin(r) ==
    /\ At(r, "begin")
    /\ clock' = clock + 1 /\ dirs' = [dirs EXCEPT ![r] = clock + 1]
    /\ Goes(r, IF r \in Overriding THEN "read" ELSE "create")
    /\ UNCHANGED <<config, files, spoilt, faults>>

ReadConfig(r) ==
    /\ At(r, "read")
    /\ runner' = [runner EXCEPT ![r].at = IF config = Broken THEN "create" ELSE "write",
                                ![r].original = IF config = Broken THEN NoText ELSE config]
    /\ UNCHANGED <<config, files, dirs, clock, spoilt, faults>>

\* A write that breaks off leaves half a file, and the original is forgotten.
WriteConfig(r) ==
    /\ At(r, "write")
    /\ \/ /\ config' = r /\ Goes(r, "create")
          /\ UNCHANGED <<spoilt, faults>>
       \/ /\ Fault /\ config' = Broken /\ spoilt' = TRUE
          /\ runner' = [runner EXCEPT ![r].at = "create", ![r].original = NoText]
    /\ UNCHANGED <<files, dirs, clock>>

\* ApplicationContext.create reads config.json, and may raise.
Create(r) ==
    /\ At(r, "create")
    /\ \/ /\ config # Broken
          /\ runner' = [runner EXCEPT ![r].at = "restore", ![r].model = config]
          /\ UNCHANGED faults
       \/ /\ IF config = Broken THEN UNCHANGED faults ELSE Fault
          /\ runner' = [runner EXCEPT ![r].at = "restore", ![r].raised = TRUE]
    /\ UNCHANGED <<config, files, dirs, clock, spoilt>>

\* The finally of create; a write that fails is only logged.
Restore(r) ==
    /\ At(r, "restore")
    /\ \/ /\ config' = IF runner[r].original = NoText THEN config ELSE runner[r].original
          /\ UNCHANGED <<spoilt, faults>>
       \/ Fault /\ runner[r].original # NoText /\ spoilt' = TRUE /\ UNCHANGED config
    /\ runner' = [runner EXCEPT ![r].at = IF runner[r].raised THEN "failed" ELSE "sync",
                                ![r].original = NoText]
    /\ UNCHANGED <<files, dirs, clock>>

\* The first synchronisation came, or 30 seconds are over; the indexes are built, or
\* that raises and the agent is closed.
Ready(r) ==
    /\ At(r, "sync")
    /\ \/ Goes(r, "items") /\ UNCHANGED faults
       \/ /\ Fault
          /\ runner' = [runner EXCEPT ![r].at = "close", ![r].raised = TRUE]
    /\ UNCHANGED <<config, files, dirs, clock, spoilt>>

\* A cleanup that knows only the patterns of the item.
CleanedByPattern(w, i) == [f \in Files |-> IF f \in Items[i].cleanup THEN 0 ELSE w[f]]

\* _cleanup_item: whatever the item names goes, whoever wrote it.
Cleaned(w, i) == [f \in Files |-> IF f \in Named(i) THEN 0 ELSE w[f]]

\* What follows the step whose result is x.
Counted(p, x) ==
    LET steps == Append(p.steps, x)
        more == Items[p.item].multi /\ Len(steps) < Len(Items[p.item].steps)
    IN  IF more THEN [p EXCEPT !.steps = steps]
        ELSE [p EXCEPT !.steps = <<>>, !.item = @ + 1,
                       !.results = Append(@, ItemResult(p.item, steps))]

\* The agent answers a step, or raises after it wrote what it wrote; a step that raises
\* does not end its item.
Answer(r) ==
    LET p == runner[r]
        s == Items[p.item].steps[Len(p.steps) + 1]
    IN  /\ At(r, "items") /\ p.item <= Len(Items)
        /\ \E a \in Answers[p.item] :
             LET w == [f \in Files |-> IF f \in a.writes THEN p.item ELSE files[f]]
                 q == Counted(p, IF a.raises THEN NoResult ELSE Evaluated(s, a, w))
             IN  /\ runner' = [runner EXCEPT ![r] = q]
                 /\ files' = IF q.item = p.item THEN w ELSE Cleaned(w, p.item)
        /\ UNCHANGED <<config, dirs, clock, spoilt, faults>>

\* A check raises: the item is cleaned up, and the run ends.
CheckRaises(r) ==
    /\ At(r, "items") /\ runner[r].item <= Len(Items)
    /\ Items[runner[r].item].steps[Len(runner[r].steps) + 1].file # NoFile
    /\ Fault
    /\ files' = Cleaned(files, runner[r].item)
    /\ runner' = [runner EXCEPT ![r].at = "close", ![r].raised = TRUE]
    /\ UNCHANGED <<config, dirs, clock, spoilt>>

AllAsked(r) ==
    /\ At(r, "items") /\ runner[r].item > Len(Items)
    /\ Goes(r, "close")
    /\ UNCHANGED <<config, files, dirs, clock, spoilt, faults>>

\* The agent is closed, its sessions are flushed, the context is stopped.
CloseAgent(r) ==
    /\ At(r, "close")
    /\ Goes(r, IF runner[r].raised THEN "failed" ELSE "report")
    /\ UNCHANGED <<config, files, dirs, clock, spoilt, faults>>

\* summary.json, detail and summary.md; a directory that was removed is made again.
Report(r) ==
    /\ At(r, "report")
    /\ clock' = clock + 1 /\ dirs' = [dirs EXCEPT ![r] = clock + 1]
    /\ Goes(r, "save")
    /\ UNCHANGED <<config, files, spoilt, faults>>

\* save_run writes the run and its results in one transaction; an error is logged.
SaveRun(r) ==
    /\ At(r, "save") /\ Goes(r, "clean")
    /\ UNCHANGED <<config, files, dirs, clock, spoilt, faults>>

\* cleanup_old_runs: all but the last by the time of their last change.
There == {d \in Dirs : dirs[d] # 0}
Kept(d) == Cardinality({e \in There : dirs[e] > dirs[d]}) < KeepRuns
CleanUp(r) ==
    /\ At(r, "clean")
    /\ dirs' = [d \in Dirs |-> IF KeepRuns > 0 /\ ~Kept(d) THEN 0 ELSE dirs[d]]
    /\ Goes(r, "done")
    /\ UNCHANGED <<config, files, clock, spoilt, faults>>

\* The process is killed: nothing is restored or cleaned up.
Kill(r) ==
    /\ runner[r].at \notin {"begin", "done", "failed"}
    /\ Fault /\ Goes(r, "failed")
    /\ spoilt' = (spoilt \/ runner[r].original # NoText)
    /\ UNCHANGED <<config, files, dirs, clock>>

Start == [at |-> "begin", original |-> NoText, model |-> Own, item |-> 1, steps |-> <<>>,
          results |-> <<>>, raised |-> FALSE]

Init ==
    /\ config = Own /\ files = [f \in Files |-> 0]
    /\ dirs = [d \in Dirs |-> IF d \in Runners THEN 0 ELSE d] /\ clock = OldRuns
    /\ runner = [r \in Runners |-> Start]
    /\ spoilt = FALSE /\ faults = 0

Next ==
    \E r \in Runners :
        \/ Begin(r) \/ ReadConfig(r) \/ WriteConfig(r) \/ Create(r) \/ Restore(r) \/ Ready(r)
        \/ Answer(r) \/ CheckRaises(r) \/ AllAsked(r) \/ CloseAgent(r) \/ Report(r)
        \/ SaveRun(r) \/ CleanUp(r) \/ Kill(r)

Spec == Init /\ [][Next]_vars

-----------------------------------------------------------------------------
\* An item that passed met its critical checks at every step and has at least half of
\* the score, though one average decides and another is reported; if it did not pass a
\* step did not, or no step has a weight.
PassedMeansMet ==
    \A r \in Runners : \A i \in DOMAIN runner[r].results :
        LET x == runner[r].results[i]
        IN  /\ x.passed => /\ x.score >= 5000
                           /\ \A s \in Range(x.steps) : s.met
                           /\ Len(x.steps) = Len(Items[i].steps)
            /\ ~x.passed => \/ \E s \in Range(x.steps) : ~s.passed
                            \/ \A s \in Range(Items[i].steps) : s.weight = 0

\* No item passes by a file that another item named and left.
FilesAreOwn ==
    \A r \in Runners : \A i \in DOMAIN runner[r].results :
        \A k \in DOMAIN runner[r].results[i].steps :
            LET w == runner[r].results[i].steps[k].writer
            IN  w \notin {0, i} => Items[i].steps[k].file \notin Named(w)

\* config.json holds its own model whenever no runner is about to restore it, and the
\* agent of a runner with --model was built on that model.
ConfigIsRestored ==
    ~spoilt =>
        /\ (\A r \in Runners : runner[r].original = NoText) => config = Own
        /\ \A r \in Overriding :
             runner[r].at \in {"sync", "items", "close", "report"} => runner[r].model = r

\* The reports of a run that ended are there, as long as more runs are kept than run.
ReportsStay ==
    KeepRuns >= Cardinality(Runners) =>
        \A r \in Runners : At(r, "done") => dirs[r] # 0

=============================================================================
