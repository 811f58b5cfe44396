---- MODULE QuestionAnswers ----
(***************************************************************************)
(* The answer to one question on the Google profile (app/routers/qa.py):   *)
(* the list page syncs the question's row with Google, an answer can be    *)
(* generated as a draft, and posting sends it to Google before it is       *)
(* stored.  Google shows one answer, the last one it was given; the owner  *)
(* can also change it on Google itself.                                    *)
(*                                                                         *)
(* A request writes the columns that differ from what it loaded.  A row    *)
(* inserted by two requests fails the later on (location, question).       *)
(***************************************************************************)
EXTENDS Naturals

CONSTANTS Workers, Answers,
          NoAnswer,
          MaxRequests,  \* bound
          MaxEdits,     \* bound: changes on Google itself
          MaxFaults     \* bound: crashes and lost answers

\* What is assumed of the constants; the modules that instantiate this one state it.
QuestionAnswersAssumption ==
    NoAnswer \notin Answers /\ MaxRequests \in Nat /\ MaxEdits \in Nat /\ MaxFaults \in Nat

VARIABLES
    row,      \* the qa_drafts row: draft_status and posted_answer
    google,   \* external: the answer Google shows
    doing,    \* the request each worker serves
    drifted,  \* history: row and Google may differ until a sync runs alone
    requests, edits, faults  \* bounds

bounds == <<requests, edits, faults>>
vars == <<row, google, doing, drifted, bounds>>

AnswerOrNone == Answers \cup {NoAnswer}
Row == [status : {"none", "pending", "draft", "posted", "failed"}, posted : AnswerOrNone]
NoRow == [status |-> "none", posted |-> NoAnswer]
Idle == [pc |-> "idle", seen |-> NoRow, answer |-> NoAnswer, alone |-> FALSE]

Init ==
    /\ row = NoRow
    /\ google \in AnswerOrNone
    /\ doing = [w \in Workers |-> Idle]
    /\ drifted = FALSE
    /\ requests = 0 /\ edits = 0 /\ faults = 0

At(w, pc) == doing[w].pc = pc
Finish(w) == doing' = [doing EXCEPT ![w] = Idle]

Syncing == {"sync", "store_sync"}
Posting == {"answer", "posted", "failed"}
\* Google has answered and the outcome is not stored yet.
Unstored(w) == doing[w].pc \in {"posted", "failed"}
Others(w) == {v \in Workers \ {w} : doing[v].pc \in Syncing \cup Posting}

\* A free worker takes a request up; drafts may be generated beside any request, an
\* answer or a sync beside another of them makes the outcome a matter of timing.
Start(w, request) ==
    /\ At(w, "idle")
    /\ requests < MaxRequests
    /\ requests' = requests + 1
    /\ LET rival == request.pc # "generate" /\ Others(w) # {}
       IN  /\ doing' = [v \in Workers |->
                  IF v = w THEN [request EXCEPT !.alone = ~rival]
                  ELSE [doing[v] EXCEPT !.alone = @ /\ (request.pc = "generate")]]
           /\ drifted' = (drifted \/ rival)

Inserts(w) == doing[w].seen.status = "none"
\* The insert fails on the unique key, and with it all the request would store.
Raced(w) == Inserts(w) /\ row.status # "none"
\* The columns of new that differ from what the worker loaded are written.
Store(w, new) ==
    row' = IF Raced(w) THEN row
           ELSE [c \in DOMAIN new |-> IF new[c] = doing[w].seen[c] THEN row[c] ELSE new[c]]

-----------------------------------------------------------------------------
(* _sync_questions_for_location *)

\* Google is asked for the questions and their top answers.
Sync(w) ==
    /\ Start(w, [Idle EXCEPT !.pc = "sync", !.answer = google])
    /\ UNCHANGED <<row, google, edits, faults>>

Upsert(w) ==
    /\ At(w, "sync")
    /\ doing' = [doing EXCEPT ![w].pc = "store_sync", ![w].seen = row]
    /\ UNCHANGED <<row, google, drifted, bounds>>

\* Mutant: an answer the row already has is kept, as its time is.
SyncedRowKeepingAnswer(seen, answer) ==
    IF answer # NoAnswer
    THEN [status |-> "posted",
          posted |-> IF seen.posted # NoAnswer THEN seen.posted ELSE answer]
    ELSE [seen EXCEPT !.status = IF @ = "none" THEN "pending" ELSE @]

\* A question without an answer leaves an existing row as it is.
SyncedRow(seen, answer) ==
    IF answer # NoAnswer
    THEN [status |-> "posted", posted |-> answer]
    ELSE [seen EXCEPT !.status = IF @ = "none" THEN "pending" ELSE @]

CommitSync(w) ==
    /\ At(w, "store_sync")
    /\ Store(w, SyncedRow(doing[w].seen, doing[w].answer))
    /\ drifted' = (drifted /\ (~doing[w].alone \/ Raced(w) \/ doing[w].answer = NoAnswer))
    /\ Finish(w)
    /\ UNCHANGED <<google, bounds>>

-----------------------------------------------------------------------------
(* generate_answer *)

Generate(w) ==
    /\ Start(w, [Idle EXCEPT !.pc = "generate", !.seen = row])
    /\ UNCHANGED <<row, google, edits, faults>>

\* The model answered: recording its use commits the row, if that is allowed.
CommitUsage(w) ==
    /\ At(w, "generate")
    /\ Store(w, [doing[w].seen EXCEPT !.status = IF @ = "none" THEN "pending" ELSE @])
    /\ IF Raced(w) THEN Finish(w) ELSE doing' = [doing EXCEPT ![w].pc = "expired"]
    /\ UNCHANGED <<google, drifted, bounds>>

\* The draft is stored: on a row the commit expired in any case.
CommitDraft(w) ==
    /\ \/ /\ At(w, "expired")
          /\ row' = [row EXCEPT !.status = "draft"]
       \/ /\ At(w, "generate")
          /\ Store(w, [doing[w].seen EXCEPT !.status = "draft"])
    /\ Finish(w)
    /\ UNCHANGED <<google, drifted, bounds>>

-----------------------------------------------------------------------------
(* post_answer *)

PostAnswer(w, answer) ==
    /\ Start(w, [Idle EXCEPT !.pc = "answer", !.seen = row, !.answer = answer])
    /\ UNCHANGED <<row, google, edits, faults>>

GoogleAccepts(w) ==
    /\ At(w, "answer")
    /\ google' = doing[w].answer
    /\ doing' = [doing EXCEPT ![w].pc = "posted"]
    /\ UNCHANGED <<row, drifted, bounds>>

GoogleRefuses(w) ==
    /\ At(w, "answer")
    /\ doing' = [doing EXCEPT ![w].pc = "failed"]
    /\ UNCHANGED <<row, google, drifted, bounds>>

\* Google has the answer, its response does not come: stored as failed.
ResponseLost(w) ==
    /\ At(w, "answer")
    /\ faults < MaxFaults
    /\ faults' = faults + 1
    /\ google' = doing[w].answer
    /\ doing' = [doing EXCEPT ![w].pc = "failed"]
    /\ UNCHANGED <<row, drifted, requests, edits>>

CommitPosted(w) ==
    /\ At(w, "posted")
    /\ Store(w, [status |-> "posted", posted |-> doing[w].answer])
    /\ drifted' = (drifted \/ Raced(w))
    /\ Finish(w)
    /\ UNCHANGED <<google, bounds>>

CommitFailed(w) ==
    /\ At(w, "failed")
    /\ Store(w, [doing[w].seen EXCEPT !.status = "failed"])
    /\ Finish(w)
    /\ UNCHANGED <<google, drifted, bounds>>

-----------------------------------------------------------------------------
\* The owner changes or deletes the answer on Google.
EditOnGoogle ==
    /\ edits < MaxEdits
    /\ edits' = edits + 1
    /\ google' \in AnswerOrNone
    /\ drifted' = TRUE
    /\ doing' = [v \in Workers |-> [doing[v] EXCEPT !.alone = FALSE]]
    /\ UNCHANGED <<row, requests, faults>>

Crash(w) ==
    /\ ~At(w, "idle")
    /\ faults < MaxFaults
    /\ faults' = faults + 1
    /\ drifted' = (drifted \/ Unstored(w))
    /\ Finish(w)
    /\ UNCHANGED <<row, google, requests, edits>>

Next ==
    \/ \E w \in Workers :
          \/ Sync(w) \/ Upsert(w) \/ CommitSync(w)
          \/ Generate(w) \/ CommitUsage(w) \/ CommitDraft(w)
          \/ \E answer \in Answers : PostAnswer(w, answer)
          \/ GoogleAccepts(w) \/ GoogleRefuses(w) \/ ResponseLost(w)
          \/ CommitPosted(w) \/ CommitFailed(w)
          \/ Crash(w)
    \/ EditOnGoogle

Spec == Init /\ [][Next]_vars

-----------------------------------------------------------------------------
TypeOK ==
    /\ row \in Row
    /\ google \in AnswerOrNone
    /\ doing \in [Workers -> [pc : {"idle", "generate", "expired"} \cup Syncing \cup Posting,
                              seen : Row, answer : AnswerOrNone, alone : BOOLEAN]]
    /\ drifted \in BOOLEAN
    /\ requests \in 0..MaxRequests /\ edits \in 0..MaxEdits /\ faults \in 0..MaxFaults

\* A question shown as posted is shown with the answer Google has, after refusals,
\* lost responses, drafts generated beside and races to insert the row.  Two answers
\* at once, an answer beside a sync, a crash before the commit and a change on Google
\* itself can part them, until a sync that runs alone finds an answer.
PostedIsLive ==
    row.status = "posted" /\ ~drifted =>
        row.posted = google \/ \E w \in Workers : Unstored(w)
====
