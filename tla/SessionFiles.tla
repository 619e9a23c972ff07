---------------------------- MODULE SessionFiles ----------------------------
(***************************************************************************)
(* The directory of one session: the large results of tools with their     *)
(* metadata and cleanup and the attachments of the user                    *)
(* (workspace/utils/session_file_store.py), and the files that the agent   *)
(* writes, which a hook moves there                                        *)
(* (workspace/hooks/session_file_redirect_hook.py).                        *)
(***************************************************************************)
EXTENDS Integers, Sequences, FiniteSets, SequencesExt

CONSTANTS
    NumContents,  \* results of tools: 1..NumContents
    MaxFiles,     \* persist_max_files
    MaxAge,       \* persist_max_age_hours, in units of the clock; 0 for none
    MaxSuffix,    \* 999: suffixes that _redirect tries
    MaxSaves, MaxAttachments, MaxWrites, MaxTime, MaxKills  \* bounds

\* The results of tools and the attachments have directories with metadata of
\* their own: the channel and the patches give the store different base_dirs.
Dirs == {"results", "attachments"}

\* The agent and a subagent of it.
Writers == {"agent", "subagent"}

VARIABLES
    now,
    results,      \* files: second of the name, order of tool and id, content's hash
    torn,         \* those that a kill left with less than their content
    attached,     \* number of attachments
    meta,         \* of each directory: metadata.json with its file_count
    op,           \* the call of the store that runs; it blocks the loop
    answer,       \* the file of the last save that returned
    own,          \* versions of one file of the agent: name, name__1, ...
    target,       \* of each writer: the version it was given
    sent,         \* media of messages: version wanted, version found
    written,      \* results, the torn ones too, in the order they were written
    saves, writes, kills, together, lost

store == <<results, torn, attached, meta, op, answer, written, saves>>
files == <<own, target, sent, writes, together, lost>>
vars == <<now, store, files, kills>>

Contents == 1..NumContents
File == [second : 0..MaxTime, rank : 1..2, content : Contents]
Idle == [step |-> "idle"]
NoFile == [second |-> 0, rank |-> 0, content |-> 0]

TypeOK ==
    /\ now \in 0..MaxTime /\ results \subseteq File /\ torn \subseteq results
    /\ attached \in 0..MaxAttachments
    /\ meta \in [Dirs -> [state : {"none", "whole", "broken"}, count : Nat]]
    /\ op = Idle \/ op \in [step : {"file", "meta", "cleanup"}, dir : Dirs,
                            file : File \cup {NoFile}]
    /\ answer \in File \cup {NoFile} /\ written \in Seq(File)
    /\ own \in Seq(0..MaxWrites) /\ Len(own) <= MaxSuffix + 1
    /\ target \in [Writers -> 0..MaxSuffix + 1]
    /\ sent \subseteq [wanted : 0..MaxWrites, found : 0..MaxWrites]

\* The order of the names of files.
Before(f, g) ==
    \/ f.second < g.second
    \/ f.second = g.second /\ f.rank < g.rank
    \/ f.second = g.second /\ f.rank = g.rank /\ f.content < g.content

-----------------------------------------------------------------------------
\* Files with the same hash in their names, torn or not: no content is read.
Existing(c) == {f \in results : f.content = c}

\* _ensure_metadata: a broken file exists.
Ensured(d) == IF meta[d].state = "none"
              THEN [meta EXCEPT ![d] = [state |-> "whole", count |-> 0]] ELSE meta

\* save: the reference of an older file, or a new name.
Save(c) ==
    /\ op = Idle /\ saves < MaxSaves
    /\ saves' = saves + 1 /\ meta' = Ensured("results")
    /\ \/ /\ Existing(c) # {}
          /\ \E f \in Existing(c) : answer' = f
          /\ UNCHANGED op
       \/ /\ Existing(c) = {}
          /\ \E r \in 1..2 :
               op' = [step |-> "file", dir |-> "results",
                      file |-> [second |-> now, rank |-> r, content |-> c]]
          /\ answer' = NoFile
    /\ UNCHANGED <<now, results, torn, attached, written, files, kills>>

\* save_attachment: always a new name.
Attach ==
    /\ op = Idle /\ attached < MaxAttachments
    /\ op' = [step |-> "file", dir |-> "attachments", file |-> NoFile]
    /\ UNCHANGED <<now, results, torn, attached, meta, answer, written, saves, files, kills>>

\* The content is written under the last name of the file, and the metadata of a
\* first attachment; Kill may come in between.
WriteFile ==
    /\ op.step = "file"
    /\ IF op.dir = "results"
       THEN /\ results' = results \cup {op.file} /\ written' = Append(written, op.file)
            /\ UNCHANGED <<attached, meta>>
       ELSE /\ attached' = attached + 1 /\ meta' = Ensured("attachments")
            /\ UNCHANGED <<results, written>>
    /\ op' = [op EXCEPT !.step = "meta"]
    /\ UNCHANGED <<now, torn, answer, saves, files, kills>>

\* json.loads raises on metadata that are not whole, and the call with it:
\* the file stays without a count and without a cleanup.
WriteMeta ==
    /\ op.step = "meta"
    /\ IF meta[op.dir].state = "broken"
       THEN op' = Idle /\ UNCHANGED meta
       ELSE /\ meta' = [meta EXCEPT ![op.dir].count = @ + 1]
            /\ op' = IF op.dir = "results" THEN [op EXCEPT !.step = "cleanup"] ELSE Idle
    /\ UNCHANGED <<now, results, torn, attached, answer, written, saves, files, kills>>

\* Variant: the names sort with the newest first.
SurplusNewest(S, n) == {f \in S : Cardinality({g \in S : Before(g, f)}) >= n}
\* Files that sort before all but n others.
Surplus(S, n) == {f \in S : Cardinality({g \in S : Before(f, g)}) >= n}

\* cleanup by age: the first name that is young enough ends it.
Aged(S) == IF MaxAge = 0 THEN {} ELSE {f \in S : f.second < now - MaxAge}

\* What cleanup removes: by age, then by number, both in the order of the names.
Unwanted ==
    LET old == Aged(results) IN
    old \cup IF MaxFiles = 0 THEN {} ELSE Surplus(results \ old, MaxFiles)

Unlink(gone) == results' = results \ gone /\ torn' = torn \ gone

\* cleanup, and the return of save.
Cleanup ==
    /\ op.step = "cleanup"
    /\ Unlink(Unwanted)
    /\ LET left == meta["results"].count - Cardinality(Unwanted)
       IN meta' = [meta EXCEPT !["results"].count = IF left > 0 THEN left ELSE 0]
    /\ answer' = op.file /\ op' = Idle
    /\ UNCHANGED <<now, attached, written, saves, files, kills>>

-----------------------------------------------------------------------------
\* The files of the agent.

\* _redirect: the first version that does not exist; after the last suffix the
\* name itself, which exists.
Version == IF Len(own) <= MaxSuffix THEN Len(own) + 1 ELSE 1

\* before_execute_tool of a writing tool.
Redirect(w) ==
    /\ op = Idle /\ target[w] = 0 /\ writes < MaxWrites
    /\ writes' = writes + 1
    /\ target' = [target EXCEPT ![w] = Version]
    /\ together' = (together \/ \E v \in Writers \ {w} : target[v] # 0)
    /\ UNCHANGED <<now, store, own, sent, lost, kills>>

\* The tool writes the file, or fails: an edit finds no file under the new name.
Write(w) ==
    /\ op = Idle /\ target[w] # 0
    /\ LET v == target[w] IN
       \/ v > Len(own) /\ own' = Append(own, writes) /\ UNCHANGED lost
       \/ v <= Len(own) /\ own' = [own EXCEPT ![v] = writes] /\ lost' = lost + 1
       \/ UNCHANGED <<own, lost>>
    /\ target' = [target EXCEPT ![w] = 0]
    /\ UNCHANGED <<now, store, sent, writes, together, kills>>

\* _redirect_media: a path that exists is kept; for a name that does not, the
\* session is searched for that name, never for its later versions.
Send ==
    /\ op = Idle /\ own # <<>>
    /\ \E v \in 1..Len(own), byName \in BOOLEAN :
         sent' = sent \cup {[wanted |-> own[v],
                             found |-> IF byName THEN own[1] ELSE own[v]]}
    /\ UNCHANGED <<now, store, own, target, writes, together, lost, kills>>

-----------------------------------------------------------------------------
\* The process is killed.  write_text truncates the file that it writes: what was
\* under way leaves a file or metadata that are not whole.
Broken(d) == [meta EXCEPT ![d].state = "broken"]

TornFile ==
    /\ op.step = "file" /\ op.dir = "results"
    /\ results' = results \cup {op.file} /\ torn' = torn \cup {op.file}
    /\ written' = Append(written, op.file)
    /\ UNCHANGED <<attached, meta>>

TornAttachment ==
    /\ op.step = "file" /\ op.dir = "attachments"
    /\ attached' = attached + 1
    /\ UNCHANGED <<results, torn, written, meta>>

\* The metadata of a first file, or of any.
TornMeta ==
    /\ \/ op = Idle /\ saves < MaxSaves /\ meta["results"].state = "none"
          /\ meta' = Broken("results") /\ UNCHANGED attached
       \/ op.step = "file" /\ op.dir = "attachments" /\ meta[op.dir].state = "none"
          /\ meta' = Broken(op.dir) /\ attached' = attached + 1
       \/ op.step = "meta" /\ meta' = Broken(op.dir) /\ UNCHANGED attached
    /\ UNCHANGED <<results, torn, written>>

\* The first of the files are removed, or all of them, and the metadata are not yet
\* written, or in part.
TornCleanup ==
    /\ op.step = "cleanup"
    /\ \E last \in Unwanted :
         LET gone == {f \in Unwanted : ~Before(last, f)} IN
         /\ Unlink(gone)
         /\ meta' \in {meta} \cup IF gone = Unwanted THEN {Broken("results")} ELSE {}
    /\ UNCHANGED <<attached, written>>

Kill ==
    /\ kills < MaxKills /\ kills' = kills + 1
    /\ op' = Idle /\ target' = [w \in Writers |-> 0] /\ answer' = NoFile
    /\ \/ UNCHANGED <<results, torn, attached, meta, written>>
       \/ TornFile \/ TornAttachment \/ TornMeta \/ TornCleanup
    /\ UNCHANGED <<now, saves, own, sent, writes, together, lost>>

Tick ==
    /\ op = Idle /\ now < MaxTime /\ now' = now + 1
    /\ UNCHANGED <<store, files, kills>>

Init ==
    /\ now = 0 /\ results = {} /\ torn = {} /\ attached = 0
    /\ meta = [d \in Dirs |-> [state |-> "none", count |-> 0]]
    /\ op = Idle /\ answer = NoFile
    /\ own = <<>> /\ target = [w \in Writers |-> 0] /\ sent = {}
    /\ written = <<>> /\ saves = 0 /\ writes = 0 /\ kills = 0
    /\ together = FALSE /\ lost = 0

Next ==
    \/ \E c \in Contents : Save(c)
    \/ Attach \/ WriteFile \/ WriteMeta \/ Cleanup
    \/ \E w \in Writers : Redirect(w) \/ Write(w)
    \/ Send \/ Kill \/ Tick

Spec == Init /\ [][Next]_vars

-----------------------------------------------------------------------------
\* Properties.

Whole(d) == op = Idle /\ meta[d].state # "broken"

\* Between calls a session has at most max_files results and those that killed
\* saves left, as long as its metadata can be read.
ResultsBounded ==
    Whole("results") /\ MaxFiles > 0 => Cardinality(results) <= MaxFiles + kills

\* file_count is the number of files, if no call was killed.
CountIsExact ==
    kills = 0 /\ op = Idle =>
      /\ meta["results"].count = Cardinality(results)
      /\ meta["attachments"].count = attached

\* A result is among the files as long as fewer than max_files were written after
\* it and it is not too old; results of one second stand in any order.
RecentAreKept ==
    \A i \in DOMAIN written :
      \/ written[i] \in results
      \/ MaxFiles > 0 /\ i <= Len(written) - MaxFiles
      \/ MaxAge > 0 /\ written[i].second < now - MaxAge
      \/ \E j \in DOMAIN written : j # i /\ written[j].second = written[i].second

\* What save has returned is there unless max_files others of its second are.  It may
\* be torn: see ResultIsWhole.
AnswerResolves ==
    op = Idle /\ answer # NoFile =>
      \/ answer \in results
      \/ Cardinality({f \in results : f.second = answer.second}) >= MaxFiles

\* No version of a file is written over, as long as there are suffixes left and no
\* two writers choose their names at once.
VersionsAreKept == lost = 0 \/ together \/ Len(own) > MaxSuffix

\* A message finds a file that was written, the right one unless it is a later
\* version that is named without its suffix.
MediaIsFound == \A s \in sent : s.found # 0 /\ (s.found <= s.wanted \/ lost > 0)

\* What save has returned holds the content that was saved.
ResultIsWhole == answer \notin torn

ResultsAreKept == ResultsBounded /\ CountIsExact /\ RecentAreKept /\ AnswerResolves

=============================================================================
