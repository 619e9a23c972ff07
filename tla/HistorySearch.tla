--------------------------- MODULE HistorySearch ----------------------------
(***************************************************************************)
(* The agent looks for what it did before, page by page                    *)
(* (workspace/tools/history_search_tool.py), while the log it reads goes   *)
(* on: the batches of other turns come late and with their own times, and  *)
(* old rows are removed.                                                   *)
(***************************************************************************)
EXTENDS Integers, Sequences, FiniteSets, SequencesExt, FiniteSetsExt

CONSTANTS
    MaxTime,      \* bound: times of events
    MaxRows,      \* tools.history_search.max_rows
    MaxChars,     \* max_result_chars
    MaxInserts, MaxPages, MaxFailures  \* bounds

VARIABLES
    log,       \* the rows: time, id, whether the scope of the search has it, length
    reader,    \* offset, has_more, and whether it is at work
    seen, first,  \* what it was shown; what was there when it began
    page,      \* the last answer
    inserts, pages, failures

vars == <<log, reader, seen, first, page, inserts, pages, failures>>

Event == [time : 1..MaxTime, id : 1..MaxInserts, own : BOOLEAN, length : {1, 2}]

TypeOK ==
    /\ log \subseteq Event /\ seen \subseteq Event /\ first \subseteq Event
    /\ reader \in [at : {"start", "read", "end"}, offset : Nat, more : BOOLEAN]
    /\ page \in Seq(Event) /\ inserts \in 0..MaxInserts /\ pages \in 0..MaxPages
    /\ failures \in 0..MaxFailures

-----------------------------------------------------------------------------
\* ORDER BY timestamp DESC, id DESC, of the rows of the session or the user.
Found ==
    SetToSortSeq({e \in log : e.own},
                 LAMBDA e, f : e.time > f.time \/ (e.time = f.time /\ e.id > f.id))

Length(s) == FoldLeft(LAMBDA n, e : n + e.length, 0, s)

\* Events are dropped from the end until the answer fits; the payload of the last
\* one is cut instead.
Fitting(s) ==
    LET fits == {n \in 1..Len(s) : n = 1 \/ Length(SubSeq(s, 1, n)) <= MaxChars}
    IN IF s = <<>> THEN <<>> ELSE SubSeq(s, 1, Max(fits))

\* Variant: the next page begins after the limit.
AfterLimit(offset, limit, shown) == offset + limit
NextOffset(offset, limit, shown) == offset + Len(shown)

\* execute, with the limit that was asked for or that of the configuration; the row
\* after the limit says that there is more.
Page(limit) ==
    /\ reader.at # "end" /\ pages < MaxPages
    /\ LET rows == SubSeq(Found, reader.offset + 1,
                          Min({reader.offset + limit + 1, Len(Found)}))
           taken == SubSeq(rows, 1, Min({limit, Len(rows)}))
           shown == Fitting(taken)
           more == Len(rows) > limit \/ Len(shown) < Len(taken)
       IN /\ page' = shown /\ seen' = seen \cup Range(shown)
          /\ reader' = [at |-> IF more THEN "read" ELSE "end", more |-> more,
                        offset |-> NextOffset(reader.offset, limit, shown)]
    /\ first' = IF reader.at = "start" THEN log ELSE first
    /\ pages' = pages + 1
    /\ UNCHANGED <<log, inserts, failures>>

\* No session or user in the request, or an error of the database: an error is
\* the answer, and the agent asks again.
PageFails ==
    /\ reader.at # "end" /\ failures < MaxFailures
    /\ failures' = failures + 1
    /\ UNCHANGED <<log, reader, seen, first, page, inserts, pages>>

\* _flush: the time is that of the event, the id is random.
Insert ==
    /\ reader.at # "end" /\ inserts < MaxInserts /\ inserts' = inserts + 1
    /\ \E t \in 1..MaxTime, i \in 1..MaxInserts, own \in BOOLEAN, n \in {1, 2} :
         /\ \A e \in log \cup first \cup seen : e.id # i
         /\ log' = log \cup {[time |-> t, id |-> i, own |-> own, length |-> n]}
    /\ UNCHANGED <<reader, seen, first, page, pages, failures>>

\* _purge_old
Purge ==
    /\ reader.at # "end"
    /\ \E t \in 2..MaxTime : log' = {e \in log : e.time >= t}
    /\ log' # log
    /\ UNCHANGED <<reader, seen, first, page, inserts, pages, failures>>

Init ==
    /\ log = {} /\ reader = [at |-> "start", offset |-> 0, more |-> TRUE]
    /\ seen = {} /\ first = {} /\ page = <<>>
    /\ inserts = 0 /\ pages = 0 /\ failures = 0

Next ==
    \/ \E limit \in 1..MaxRows : Page(limit)
    \/ PageFails \/ Insert \/ Purge

Spec == Init /\ [][Next]_vars

-----------------------------------------------------------------------------
\* Properties.

\* A reader that follows next_offset until has_more is false has seen every event
\* that was there when it began and was not removed.
HistoryIsRead == reader.at = "end" => {e \in first \cap log : e.own} \subseteq seen

\* An answer that says there is more shows at least one event, so the reader gets on.
PagesAdvance == reader.at = "read" => page # <<>>

=============================================================================
