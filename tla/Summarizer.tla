----------------------------- MODULE Summarizer -----------------------------
(***************************************************************************)
(* The legal summarizer (workspace/skills/legal_summarizer/scripts): runs  *)
(* of different operations over one file, each a process of its own.  A    *)
(* run takes the parsed document from the cache of its session or parses   *)
(* and caches it (DocumentCache), summarises the chunks its operation has  *)
(* not yet, and leaves a result and a manifest (map_reduce, manifest), so  *)
(* that a run that died is resumed by the next one.  A batch is one chunk. *)
(***************************************************************************)
EXTENDS Integers

CONSTANTS
    Ops,           \* operations: a length and a question
    Questions,     \* those that ask a question
    NumChunks,     \* chunks, in every version of the document
    MaxEdits,      \* bound: edits of the file
    MaxKills,      \* bound: runs that die
    MaxRefusals    \* bound: calls of the language model that fail

ASSUME SummarizerAssumption ==
    /\ NumChunks \in Nat
    /\ MaxEdits \in Nat /\ MaxKills \in Nat /\ MaxRefusals \in Nat

Chunks == 1..NumChunks
NoVersion == 0
Versions == 1..(1 + MaxEdits)  \* of the file; its document_id
Parts == {"marker", "physical", "analysis"}

VARIABLES
    file,          \* the version on disk
    dir,           \* documents/<document_id>: the files, by version they show
    notes,         \* ... and chunks/: summaries that depend on no question
    op,            \* the files of every operation; its id covers the text
    run,           \* the process of every operation
    kills, refusals

summarizerVars == <<file, dir, notes, op, run, kills, refusals>>

NoDir == [p \in Parts |-> NoVersion]
NewOp == [manifest |-> "none", done |-> {}, parts |-> {}, result |-> {},
          partial |-> FALSE]
Idle == [at |-> "idle", text |-> NoVersion, id |-> NoVersion, physical |-> NoVersion,
         inspect |-> FALSE, todo |-> {}, ok |-> {}, failed |-> {}]
Stages == {"idle", "lookup", "physical", "analysis", "answer", "parse", "identify",
           "check", "install", "evict", "plan", "map", "persist", "reduce",
           "result", "manifest", "refused"}

\* What is on disk of an operation, and the process that works on it.
Operations == [manifest : {"none", "running", "partial", "completed"},
               done : SUBSET Chunks, parts : SUBSET Chunks,
               result : SUBSET Chunks, partial : BOOLEAN]
Processes == [at : Stages, text : Versions \cup {NoVersion},
              id : Versions \cup {NoVersion}, physical : Versions \cup {NoVersion},
              inspect : BOOLEAN, todo : SUBSET (Versions \X (Parts \cup {"notes"})),
              ok : SUBSET Chunks, failed : SUBSET Chunks]

SummarizerTypeOK ==
    /\ file \in Versions
    /\ dir \in [Versions -> [Parts -> Versions \cup {NoVersion}]]
    /\ notes \in [Versions -> SUBSET Chunks]
    /\ op \in [Ops \X Versions -> Operations]
    /\ run \in [Ops -> Processes]
    /\ kills \in 0..MaxKills /\ refusals \in 0..MaxRefusals

-----------------------------------------------------------------------------
At(o, place) == run[o].at = place
Goto(o, place) == run' = [run EXCEPT ![o].at = place]
Mine(o) == op[<<o, run[o].text>>]
Ends(o) == run' = [run EXCEPT ![o] = Idle]
Bounds == <<kills, refusals>>
Cache == <<dir, notes>>

Edit ==
    /\ file < 1 + MaxEdits
    /\ file' = file + 1
    /\ UNCHANGED <<Cache, op, run, Bounds>>

\* service.run: a completed operation is not run again.  A question looks for
\* the cached document before the pipeline (inspect) does.
BeginRun(o) ==
    /\ At(o, "idle")
    /\ ~(op[<<o, file>>].manifest = "completed" /\ op[<<o, file>>].result # {})
    /\ run' = [run EXCEPT ![o] = [Idle EXCEPT !.at = "lookup", !.text = file,
                                                !.inspect = o \notin Questions]]
    /\ UNCHANGED <<file, Cache, op, Bounds>>

-----------------------------------------------------------------------------
\* The document.

\* Without a document in the cache the pipeline looks again, then parses.
Miss(o) == run' = [run EXCEPT ![o].inspect = TRUE,
                              ![o].at = IF run[o].inspect THEN "parse" ELSE "lookup"]

\* is_complete for the document_id that the file has now.
Lookup(o) ==
    /\ At(o, "lookup")
    /\ IF dir[file]["marker"] = NoVersion THEN Miss(o)
       ELSE run' = [run EXCEPT ![o].id = file, ![o].at = "physical"]
    /\ UNCHANGED <<file, Cache, op, Bounds>>

\* read_snapshot reads one file after the other.
ReadPhysical(o) ==
    /\ At(o, "physical")
    /\ run' = [run EXCEPT ![o].physical = dir[run[o].id]["physical"],
                          ![o].at = "analysis"]
    /\ UNCHANGED <<file, Cache, op, Bounds>>

ReadAnalysis(o) ==
    /\ At(o, "analysis")
    /\ IF NoVersion \in {run[o].physical, dir[run[o].id]["analysis"]} THEN Miss(o)
       ELSE Goto(o, IF run[o].inspect THEN "plan" ELSE "answer")
    /\ UNCHANGED <<file, Cache, op, Bounds>>

\* A question is answered from the cached document with one call.
Answer(o) ==
    /\ At(o, "answer")
    /\ \/ run' = [run EXCEPT ![o].ok = Chunks, ![o].at = "result"] /\ UNCHANGED refusals
       \/ refusals < MaxRefusals /\ refusals' = refusals + 1 /\ Miss(o)
    /\ UNCHANGED <<file, Cache, op, kills>>

\* The loader reads the file; its identity is taken after that.
Parse(o) ==
    /\ At(o, "parse")
    /\ run' = [run EXCEPT ![o].physical = file, ![o].at = "identify"]
    /\ UNCHANGED <<file, Cache, op, Bounds>>

Identify(o) ==
    /\ At(o, "identify")
    /\ run' = [run EXCEPT ![o].id = file, ![o].at = "check"]
    /\ UNCHANGED <<file, Cache, op, Bounds>>

\* write_snapshot: a complete snapshot is left alone.
Check(o) ==
    /\ At(o, "check")
    /\ Goto(o, IF dir[run[o].id]["marker"] = NoVersion THEN "install" ELSE "plan")
    /\ UNCHANGED <<file, Cache, op, Bounds>>

\* os.replace of a directory: the target must be absent or empty.
Installable(d) == dir[d] = NoDir /\ notes[d] = {}

\* The staging directory becomes the snapshot, or the run fails.
Install(o) ==
    /\ At(o, "install")
    /\ IF Installable(run[o].id)
       THEN /\ dir' = [dir EXCEPT ![run[o].id] = [p \in Parts |-> run[o].physical]]
            /\ notes' = [notes EXCEPT ![run[o].id] = {}]
            /\ run' = [run EXCEPT ![o].at = "evict",
                 ![o].todo = {x \in Versions \X (Parts \cup {"notes"}) :
                                x[1] # run[o].id /\ dir[x[1]]["physical"] # NoVersion}]
       ELSE Goto(o, "refused") /\ UNCHANGED Cache
    /\ UNCHANGED <<file, op, Bounds>>

\* _evict_orphan_siblings: rmtree, in any order.
Evict(o) ==
    /\ At(o, "evict")
    /\ IF run[o].todo = {} THEN Goto(o, "plan") /\ UNCHANGED Cache
       ELSE \E x \in run[o].todo :
              /\ run' = [run EXCEPT ![o].todo = @ \ {x}]
              /\ IF x[2] = "notes"
                 THEN notes' = [notes EXCEPT ![x[1]] = {}] /\ UNCHANGED dir
                 ELSE dir' = [dir EXCEPT ![x[1]][x[2]] = NoVersion] /\ UNCHANGED notes
    /\ UNCHANGED <<file, op, Bounds>>

-----------------------------------------------------------------------------
\* The operation.

\* _queued_batches: chunks without a completed state or a file of their own.
Pending(o) == Chunks \ (Mine(o).done \cup Mine(o).parts)

\* The manifest of a new operation is saved before its first batch.
Plan(o) ==
    /\ At(o, "plan")
    /\ op' = [op EXCEPT ![<<o, run[o].text>>].manifest =
                          IF @ = "none" THEN "running" ELSE @]
    /\ Goto(o, "map")
    /\ UNCHANGED <<file, Cache, Bounds>>

\* All batches are run; what they return is written when all have ended.
Map(o) ==
    /\ At(o, "map")
    /\ \E failed \in SUBSET Pending(o) :
         /\ failed # {} => refusals < MaxRefusals
         /\ refusals' = refusals + (IF failed = {} THEN 0 ELSE 1)
         /\ run' = [run EXCEPT ![o].ok = Pending(o) \ failed, ![o].failed = failed,
                               ![o].at = "persist"]
    /\ UNCHANGED <<file, Cache, op, kills>>

\* _persist_batch_results: a summary goes to the operation and, unless it
\* answers a question, to the document, whose directory is made if need be.
Persist(o) ==
    /\ At(o, "persist")
    /\ LET rest == run[o].ok \ Mine(o).parts IN
       IF rest = {} THEN Goto(o, "reduce") /\ UNCHANGED <<op, notes>>
       ELSE \E c \in rest :
              /\ op' = [op EXCEPT ![<<o, run[o].text>>].parts = @ \cup {c}]
              /\ notes' = IF o \in Questions THEN notes
                          ELSE [notes EXCEPT ![run[o].id] = @ \cup {c}]
              /\ UNCHANGED run
    /\ UNCHANGED <<file, dir, Bounds>>

\* The reduction of what is on disk; without it or without an answer of the
\* model the run ends with an error and leaves the manifest as it is.
Reduce(o) ==
    /\ At(o, "reduce")
    /\ \/ Mine(o).parts # {} /\ Goto(o, "result") /\ UNCHANGED refusals
       \/ Mine(o).parts = {} /\ Ends(o) /\ UNCHANGED refusals
       \/ refusals < MaxRefusals /\ refusals' = refusals + 1 /\ Ends(o)
    /\ UNCHANGED <<file, Cache, op, kills>>

\* Variant: the result of the batches of this run.
CoveredNow(o) == run[o].ok
Covered(o) == run[o].ok \cup Mine(o).parts

WriteResult(o) ==
    /\ At(o, "result")
    /\ op' = [op EXCEPT ![<<o, run[o].text>>].result = Covered(o),
                        ![<<o, run[o].text>>].partial = run[o].failed # {}]
    /\ Goto(o, "manifest")
    /\ UNCHANGED <<file, Cache, Bounds>>

\* _persist_final_manifest after the result.
SaveManifest(o) ==
    /\ At(o, "manifest")
    /\ op' = [op EXCEPT
         ![<<o, run[o].text>>].manifest =
             IF run[o].failed = {} THEN "completed" ELSE "partial",
         ![<<o, run[o].text>>].done = (@ \cup Covered(o)) \ run[o].failed]
    /\ Ends(o)
    /\ UNCHANGED <<file, Cache, Bounds>>

\* The process is killed (the time limit of the tool) or gives up.
Kill(o) ==
    /\ ~At(o, "idle")
    /\ \/ At(o, "refused") /\ UNCHANGED kills
       \/ kills < MaxKills /\ kills' = kills + 1
    /\ Ends(o)
    /\ UNCHANGED <<file, Cache, op, refusals>>

-----------------------------------------------------------------------------
SummarizerInit ==
    /\ file = 1
    /\ dir = [d \in Versions |-> NoDir] /\ notes = [d \in Versions |-> {}]
    /\ op = [x \in Ops \X Versions |-> NewOp]
    /\ run = [o \in Ops |-> Idle]
    /\ kills = 0 /\ refusals = 0

Document(o) ==
    \/ Lookup(o) \/ ReadPhysical(o) \/ ReadAnalysis(o) \/ Answer(o) \/ Parse(o)
    \/ Identify(o) \/ Check(o) \/ Install(o) \/ Evict(o)
Operation(o) ==
    \/ Plan(o) \/ Map(o) \/ Persist(o) \/ Reduce(o) \/ WriteResult(o) \/ SaveManifest(o)

SummarizerNext ==
    Edit \/ \E o \in Ops : BeginRun(o) \/ Document(o) \/ Operation(o) \/ Kill(o)

SummarizerSpec == SummarizerInit /\ [][SummarizerNext]_summarizerVars

-----------------------------------------------------------------------------
\* Properties.

\* A completed operation has a result that covers every chunk, over runs that
\* died between any two files and batches that failed.
CompletedIsWhole ==
    \A x \in DOMAIN op : op[x].manifest = "completed" =>
      op[x].result = Chunks /\ ~op[x].partial

=============================================================================
