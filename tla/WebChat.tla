------------------------------ MODULE WebChat -------------------------------
(***************************************************************************)
(* The page of the web chat (src/streamlit_app.py).  The script runs from  *)
(* its top whenever the user does something: it merges the rows of the     *)
(* chat into what it shows, waits for the answer if one is due, and writes *)
(* a question with the files that were chosen.  The channel that answers   *)
(* is the one of PgChannel, seen through the rows it leaves.               *)
(***************************************************************************)
EXTENDS Naturals, Sequences, FiniteSets, SequencesExt

CONSTANTS
    Files,
    ErrorWindow,    \* how many polls of an error the page waits
    MaxQuestions,
    MaxNotices,
    MaxErrors,      \* failed attempts of the channel
    MaxReloads,
    MaxBuffered,    \* uploads that are waiting
    MaxFaults       \* inserts that fail

ConstantsAssumption ==
    /\ IsFiniteSet(Files) /\ ErrorWindow \in Nat
    /\ {MaxQuestions, MaxNotices, MaxErrors, MaxReloads, MaxBuffered,
        MaxFaults} \subseteq Nat

NoRow == 0
Ids == 1..(2 * MaxQuestions + MaxNotices + MaxErrors)
Texts == {"prompt", "answer", "draft", "note", ""}

VARIABLES
    rows,       \* the rows of the chat in the order of created_at
    fresh,      \* the next id
    page,       \* the session state: what is shown, and the question waited for
    widget,     \* the files in the uploader
    pending,    \* _pending_uploads
    chosen,     \* every file in the uploader since the last question
    count       \* questions, notices, errors, reloads and faults so far

vars == <<rows, fresh, page, widget, pending, chosen, count>>

Statuses == {"pending", "processing", "completed", "error", "failed", "cancelled"}
RowsOf == [id : Ids, role : {"user", "assistant"}, reply : Ids \cup {NoRow},
           status : Statuses, text : Texts, files : SUBSET Files,
           uploader : SUBSET Files, chosen : SUBSET Files]
Entries == [of : Ids \cup {NoRow}, role : {"user", "assistant"}, text : Texts]

TypeOK ==
    /\ \A r \in Range(rows) : r \in RowsOf
    /\ fresh \in 1..(Cardinality(Ids) + 1)
    /\ \A e \in Range(page.shown) : e \in Entries
    /\ page.waits \in BOOLEAN /\ page.question \in Ids \cup {NoRow}
    /\ page.errors \in 0..(ErrorWindow + 1) /\ page.settled \in BOOLEAN
    /\ widget \subseteq Files /\ Range(pending) \subseteq Files /\ chosen \subseteq Files
    /\ count \in [{"questions", "notices", "errors", "reloads", "faults"} -> Nat]

May(what, max) == count[what] < max
Once(what) == count' = [count EXCEPT ![what] = @ + 1]

\* A row, and what the user had in the uploader then.
Row(role, reply, status, text, files) ==
    [id |-> fresh, role |-> role, reply |-> reply, status |-> status, text |-> text,
     files |-> files, uploader |-> widget, chosen |-> chosen]
RowOf(id) == SelectSeq(rows, LAMBDA r : r.id = id)[1]
Has(id) == \E r \in Range(rows) : r.id = id
With(all, S, change) ==
    [i \in DOMAIN all |->
        IF all[i].id \notin S THEN all[i]
        ELSE [f \in DOMAIN all[i] |-> IF f \in DOMAIN change THEN change[f] ELSE all[i][f]]]


-----------------------------------------------------------------------------
\* _load_chat_history; an entry is known by the question that it is or belongs to.
Entry(r) == [of |-> IF r.role = "user" THEN r.id ELSE r.reply, role |-> r.role,
             text |-> r.text]
History ==
    LET there == SelectSeq(rows, LAMBDA r : r.status \in {"completed", "pending", "processing"})
    IN  [i \in DOMAIN there |-> Entry(there[i])]

\* Two texts of different questions are the same only if there is none.
SameText(a, b) == a.text = b.text /\ (a.text = "" \/ a.of = b.of)

\* A page that only ever grows.
MergedGrowing(shown, waits) == IF Len(History) > Len(shown) THEN History ELSE shown

\* The merge at the top of the script: by length, then by the last message.
Merged(shown, waits) ==
    IF Len(History) > Len(shown) THEN History
    ELSE IF Len(History) = Len(shown)
         THEN IF shown # <<>> /\ ~SameText(Last(History), Last(shown)) THEN History ELSE shown
    ELSE IF waits THEN shown ELSE History

\* The script runs from its top with the session state p.
Runs(p) ==
    page' = [p EXCEPT !.shown = Merged(p.shown, p.waits), !.errors = 0, !.settled = TRUE]
Unsettled == page' = [page EXCEPT !.settled = FALSE]

\* A download or another widget: the script is interrupted and runs again.
Rerun ==
    /\ Runs(page)
    /\ UNCHANGED <<rows, fresh, widget, pending, chosen, count>>

\* A new session: the wait and the chosen files are gone, the input is open.
Reload ==
    /\ May("reloads", MaxReloads) /\ Once("reloads")
    /\ Runs([shown |-> <<>>, waits |-> FALSE, question |-> NoRow, errors |-> 0, settled |-> TRUE])
    /\ widget' = {} /\ pending' = <<>> /\ chosen' = {}
    /\ UNCHANGED <<rows, fresh>>

\* on_change gets the whole list of the uploader, and appends it.
Choose(f) ==
    /\ ~page.waits
    /\ widget' = IF f \in widget THEN widget \ {f} ELSE widget \cup {f}
    /\ pending' = pending \o SetToSeq(widget')
    /\ Len(pending') <= MaxBuffered
    /\ chosen' = chosen \cup widget'
    /\ Runs(page)
    /\ UNCHANGED <<rows, fresh, count>>

\* The buffer is emptied before the INSERT; without it the uploader is read.
Attached == IF pending = <<>> THEN widget ELSE Range(pending)

Submit ==
    /\ ~page.waits /\ May("questions", MaxQuestions) /\ Once("questions")
    /\ rows' = Append(rows, Row("user", NoRow, "pending", "prompt", Attached))
    /\ fresh' = fresh + 1
    /\ page' = [page EXCEPT
           !.shown = Append(@, [of |-> fresh, role |-> "user", text |-> "prompt"]),
           !.waits = TRUE, !.question = fresh, !.settled = FALSE]
    /\ widget' = {} /\ pending' = <<>> /\ chosen' = {}

\* The INSERT raises: the run of the script ends, the uploader keeps its files.
SubmitFails ==
    /\ ~page.waits /\ May("faults", MaxFaults) /\ Once("faults")
    /\ pending' = <<>>
    /\ UNCHANGED <<rows, fresh, page, widget, chosen>>

-----------------------------------------------------------------------------
\* One poll of the wait.
Status == IF Has(page.question) THEN RowOf(page.question).status ELSE "none"

\* _check_response: the newest answer.
Answers == SelectSeq(rows, LAMBDA r : r.role = "assistant" /\ r.reply = page.question)
Response ==
    [of |-> page.question, role |-> "assistant",
     text |-> IF Answers # <<>> /\ Last(Answers).status = "completed"
              THEN Last(Answers).text ELSE ""]

Answered ==
    /\ page.waits /\ Status = "completed"
    /\ Runs([page EXCEPT !.shown = Append(@, Response), !.waits = FALSE])
    /\ UNCHANGED <<rows, fresh, widget, pending, chosen, count>>

GivesUp ==
    /\ page.waits
    /\ Status = "failed" \/ (Status = "error" /\ page.errors >= ErrorWindow)
    /\ Runs([page EXCEPT !.waits = FALSE])
    /\ UNCHANGED <<rows, fresh, widget, pending, chosen, count>>

WaitsOn ==
    /\ page.waits
    /\ \/ Status = "error" /\ page.errors < ErrorWindow
          /\ page' = [page EXCEPT !.errors = @ + 1]
       \/ Status \notin {"completed", "failed", "error"} /\ page.errors > 0
          /\ page' = [page EXCEPT !.errors = 0]
    /\ UNCHANGED <<rows, fresh, widget, pending, chosen, count>>

-----------------------------------------------------------------------------
\* The channel: a claim of the oldest question, with a placeholder for the answer.
Busy == {r \in Range(rows) : r.role = "user" /\ r.status = "processing"}
Claim ==
    /\ Busy = {}
    /\ \E r \in Range(rows) :
         /\ r.role = "user" /\ r.status \in {"pending", "error"}
         /\ rows' = Append(With(rows, {r.id}, [status |-> "processing"]),
                           Row("assistant", r.id, "processing", "", {}))
    /\ fresh' = fresh + 1 /\ Unsettled
    /\ UNCHANGED <<widget, pending, chosen, count>>

\* A tool of the turn sends a message: it is written into the placeholder.
Draft ==
    /\ \E r \in Busy : \E a \in Range(rows) :
         /\ a.reply = r.id /\ a.text = ""
         /\ rows' = With(rows, {a.id}, [text |-> "draft"])
    /\ Unsettled /\ UNCHANGED <<fresh, widget, pending, chosen, count>>

\* Question and answer are completed in one transaction.
Complete ==
    /\ \E r \in Busy :
         LET answers == {a.id : a \in {a \in Range(rows) : a.reply = r.id}}
         IN  rows' = With(With(rows, answers \cup {r.id}, [status |-> "completed"]),
                          answers, [text |-> "answer"])
    /\ Unsettled /\ UNCHANGED <<fresh, widget, pending, chosen, count>>

\* An attempt fails: the placeholder goes, the question waits for a retry or is lost.
Fail ==
    /\ May("errors", MaxErrors) /\ Once("errors")
    /\ \E r \in Busy, s \in {"error", "failed"} :
         rows' = SelectSeq(With(rows, {r.id}, [status |-> s]),
                           LAMBDA x : x.reply # r.id)
    /\ Unsettled /\ UNCHANGED <<fresh, widget, pending, chosen>>

\* A note of a compaction.
Notice ==
    /\ May("notices", MaxNotices) /\ Once("notices")
    /\ rows' = Append(rows, Row("assistant", NoRow, "completed", "note", {}))
    /\ fresh' = fresh + 1 /\ Unsettled
    /\ UNCHANGED <<widget, pending, chosen>>

Channel == Claim \/ Draft \/ Complete \/ Fail \/ Notice

Init ==
    /\ rows = <<>> /\ fresh = 1
    /\ page = [shown |-> <<>>, waits |-> FALSE, question |-> NoRow, errors |-> 0, settled |-> TRUE]
    /\ widget = {} /\ pending = <<>> /\ chosen = {}
    /\ count = [k \in {"questions", "notices", "errors", "reloads", "faults"} |-> 0]

Next ==
    \/ Rerun \/ Reload \/ (\E f \in Files : Choose(f)) \/ Submit \/ SubmitFails
    \/ Answered \/ GivesUp \/ WaitsOn \/ Channel

Spec == Init /\ [][Next]_vars

-----------------------------------------------------------------------------
\* As long as no attempt failed, which takes a row away that was shown: after a run of
\* the script a page that waits for nothing shows the rows of the chat,
\* each once and in their order (the text of an earlier one may be old), and the last
\* as it is.
Owner(e) == <<e.role, e.of>>
PageShowsRows ==
    count.errors = 0 /\ page.settled /\ ~page.waits =>
        /\ [i \in DOMAIN page.shown |-> Owner(page.shown[i])]
             = [i \in DOMAIN History |-> Owner(History[i])]
        /\ page.shown # <<>> => Last(page.shown) = Last(History)

\* A question takes along every file that is in the uploader, and none that was not in
\* it since the last question.
FilesAreSent ==
    \A r \in Range(rows) :
        r.role = "user" => r.uploader \subseteq r.files /\ r.files \subseteq r.chosen

\* After a run of the script a page that waits no more for a question that was answered
\* shows an answer, and if no attempt failed its text.
AnswerIsShown ==
    page.settled /\ ~page.waits /\ Status = "completed" =>
        \E e \in Range(page.shown) :
            /\ e.role = "assistant" /\ e.of = page.question
            /\ count.errors = 0 => e.text = "answer"

=============================================================================
