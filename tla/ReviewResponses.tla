---- MODULE ReviewResponses ----
(***************************************************************************)
(* The reply to one review on Google (app/services/                        *)
(* review_responder_service.py): a draft is generated and stored once, the *)
(* owner approves, edits, rejects or retries it, and what is approved is   *)
(* published by the request that approved it.                              *)
(*                                                                         *)
(* Several processes serve requests.  A request reads the row, commits,    *)
(* loads it again, waits for Google and stores the outcome; columns that   *)
(* keep their loaded value are not written.  Google keeps the last reply.  *)
(***************************************************************************)
EXTENDS Integers

CONSTANTS Workers, Drafts,
          NoDraft,     \* nothing generated, edited or replied
          MaxRetries,  \* bound: retry and bulk retry
          MaxRejects,  \* bound: rejections
          MaxFaults    \* bound: crashes and lost answers

\* What is assumed of the constants; the modules that instantiate this one state it.
ReviewResponsesAssumption ==
    NoDraft \notin Drafts /\ MaxRetries \in Nat /\ MaxRejects \in Nat /\ MaxFaults \in Nat

VARIABLES
    row,        \* the review_responses row, unique by review_id
    live,       \* external: the reply Google shows
    doing,      \* the request each worker serves
    asked,      \* history: approvals and retries that were committed
    replies,    \* history: replies Google accepted
    rivals,     \* history: two requests that publish have overlapped
    lost,       \* history: an accepted reply whose answer was lost
    crashed,    \* history: a process died
    retries, rejects, faults  \* bounds

history == <<asked, replies, rivals, lost, crashed>>
bounds == <<retries, rejects, faults>>
vars == <<row, live, doing, history, bounds>>

Statuses == {"none", "pending", "approved", "rejected", "published", "failed"}
Row == [status : Statuses, draft : Drafts \cup {NoDraft}]
NoRow == [status |-> "none", draft |-> NoDraft]
Idle == [pc |-> "idle", seen |-> NoRow, edit |-> NoDraft]

Init ==
    /\ row = NoRow
    /\ live = NoDraft
    /\ doing = [w \in Workers |-> Idle]
    /\ asked = 0 /\ replies = 0
    /\ rivals = FALSE /\ lost = FALSE /\ crashed = FALSE
    /\ retries = 0 /\ rejects = 0 /\ faults = 0

At(w, pc) == doing[w].pc = pc
Go(w, pc) == doing' = [doing EXCEPT ![w].pc = pc]
Finish(w) == doing' = [doing EXCEPT ![w] = Idle]
\* A free worker takes a request up and reads the row.
Start(w, pc, edit) ==
    /\ At(w, "idle")
    /\ doing' = [doing EXCEPT ![w] = [pc |-> pc, seen |-> row, edit |-> edit]]

\* The columns of new that differ from what the worker loaded are written.
Store(w, new) ==
    row' = [c \in DOMAIN new |-> IF new[c] = doing[w].seen[c] THEN row[c] ELSE new[c]]

Publishing(v) == doing[v].pc \in {"approve", "retry", "load", "reply", "published", "failed"}
NoteRivals(w) == rivals' = (rivals \/ \E v \in Workers \ {w} : Publishing(v))

-----------------------------------------------------------------------------
(* create_review_response *)

\* An existing response is returned as it is.
Generate(w, draft) ==
    /\ row.status = "none"
    /\ Start(w, "insert", draft)
    /\ UNCHANGED <<row, live, history, bounds>>

\* Another request inserted it meanwhile: the unique review_id fails this one.
Insert(w) ==
    /\ At(w, "insert")
    /\ row' = IF row.status = "none"
              THEN [status |-> "pending", draft |-> doing[w].edit] ELSE row
    /\ Finish(w)
    /\ UNCHANGED <<live, history, bounds>>

-----------------------------------------------------------------------------
(* approve_response, retry_publish and bulk_retry, reject_response *)

Approve(w, edit) ==
    /\ row.status = "pending"
    /\ Start(w, "approve", edit)
    /\ NoteRivals(w)
    /\ UNCHANGED <<row, live, asked, replies, lost, crashed, bounds>>

CommitApproval(w) ==
    /\ At(w, "approve")
    /\ LET d == doing[w]
       IN  Store(w, [status |-> "approved",
                     draft |-> IF d.edit = NoDraft THEN d.seen.draft ELSE d.edit])
    /\ Go(w, "load")
    /\ asked' = asked + 1
    /\ UNCHANGED <<live, replies, rivals, lost, crashed, bounds>>

\* bulk_retry looks at each row in turn and retries those that failed.
Retry(w) ==
    /\ retries < MaxRetries
    /\ retries' = retries + 1
    /\ row.status = "failed"
    /\ Start(w, "retry", NoDraft)
    /\ NoteRivals(w)
    /\ UNCHANGED <<row, live, asked, replies, lost, crashed, rejects, faults>>

CommitRetry(w) ==
    /\ At(w, "retry")
    /\ Store(w, [doing[w].seen EXCEPT !.status = "approved"])
    /\ Go(w, "load")
    /\ asked' = asked + 1
    /\ UNCHANGED <<live, replies, rivals, lost, crashed, bounds>>

\* Nobody looks at the status of what is rejected.
Reject(w) ==
    /\ rejects < MaxRejects
    /\ rejects' = rejects + 1
    /\ row.status # "none"
    /\ Start(w, "reject", NoDraft)
    /\ UNCHANGED <<row, live, history, retries, faults>>

CommitRejection(w) ==
    /\ At(w, "reject")
    /\ Store(w, [doing[w].seen EXCEPT !.status = "rejected"])
    /\ Finish(w)
    /\ UNCHANGED <<live, history, bounds>>

-----------------------------------------------------------------------------
(* _publish_response *)

\* Mutant: what gets published is the draft the request had read first.
LoadOnlyStatus(w) ==
    /\ At(w, "load")
    /\ doing' = [doing EXCEPT ![w].pc = "reply", ![w].seen.status = row.status]
    /\ UNCHANGED <<row, live, history, bounds>>

\* The commit has expired the row; its status is not looked at again.
Load(w) ==
    /\ At(w, "load")
    /\ doing' = [doing EXCEPT ![w].pc = "reply", ![w].seen = row]
    /\ UNCHANGED <<row, live, history, bounds>>

\* external: Google replaces the reply it had.
AcceptReply(w) ==
    /\ live' = doing[w].seen.draft
    /\ replies' = replies + 1

ReplyAccepted(w) ==
    /\ At(w, "reply")
    /\ AcceptReply(w)
    /\ Go(w, "published")
    /\ UNCHANGED <<row, asked, rivals, lost, crashed, bounds>>

\* Also when no token of Google's is connected for the location.
ReplyRefused(w) ==
    /\ At(w, "reply")
    /\ Go(w, "failed")
    /\ UNCHANGED <<row, live, history, bounds>>

AnswerLost(w) ==
    /\ At(w, "reply")
    /\ faults < MaxFaults
    /\ faults' = faults + 1
    /\ AcceptReply(w)
    /\ lost' = TRUE
    /\ Go(w, "failed")
    /\ UNCHANGED <<row, asked, rivals, crashed, retries, rejects>>

RecordPublished(w) ==
    /\ At(w, "published")
    /\ Store(w, [doing[w].seen EXCEPT !.status = "published"])
    /\ Finish(w)
    /\ UNCHANGED <<live, history, bounds>>

RecordFailed(w) ==
    /\ At(w, "failed")
    /\ Store(w, [doing[w].seen EXCEPT !.status = "failed"])
    /\ Finish(w)
    /\ UNCHANGED <<live, history, bounds>>

Crash(w) ==
    /\ ~At(w, "idle")
    /\ faults < MaxFaults
    /\ faults' = faults + 1
    /\ Finish(w)
    /\ crashed' = TRUE
    /\ UNCHANGED <<row, live, asked, replies, rivals, lost, retries, rejects>>

-----------------------------------------------------------------------------
\* What a request that was taken up does next.
Serve(w) ==
    \/ Insert(w)
    \/ CommitApproval(w) \/ CommitRetry(w) \/ CommitRejection(w)
    \/ Load(w) \/ ReplyAccepted(w) \/ ReplyRefused(w)
    \/ RecordPublished(w) \/ RecordFailed(w)

Next == \E w \in Workers :
    \/ \E draft \in Drafts : Generate(w, draft)
    \/ \E edit \in Drafts \cup {NoDraft} : Approve(w, edit)
    \/ Retry(w)
    \/ Reject(w)
    \/ Serve(w)
    \/ AnswerLost(w)
    \/ Crash(w)

Spec == Init /\ [][Next]_vars

\* A process that has taken a request up goes on with it, unless it dies.
FairSpec == Spec /\ \A w \in Workers : WF_vars(Serve(w))

-----------------------------------------------------------------------------
TypeOK ==
    /\ row \in Row
    /\ row.status = "none" <=> row.draft = NoDraft
    /\ live \in Drafts \cup {NoDraft}
    /\ doing \in [Workers -> [pc : {"idle", "insert", "reject"} \cup
                                   {"approve", "retry", "load", "reply", "published", "failed"},
                              seen : Row, edit : Drafts \cup {NoDraft}]]
    /\ asked \in Nat /\ replies \in Nat
    /\ rivals \in BOOLEAN /\ lost \in BOOLEAN /\ crashed \in BOOLEAN
    /\ retries \in 0..MaxRetries /\ rejects \in 0..MaxRejects /\ faults \in 0..MaxFaults

\* Google is sent a reply only for an approval or a retry of the owner's that was
\* committed, and one reply for each, whatever overlaps or dies.
Delivery == INSTANCE Deliveries WITH
    Items <- {"response"},
    reasons <- [i \in {"response"} |-> asked],
    delivered <- [i \in {"response"} |-> replies]
RepliesAreApproved == Delivery!Spec

\* "Once approved, the response is published": what is shown as published is what
\* Google shows, and what is shown as failed is not there, unless two requests that
\* publish have overlapped or Google's answer was lost.  Rejections may overlap.
StatusTellsWhatIsLive ==
    ~rivals =>
        /\ row.status = "published" => live = row.draft
        /\ row.status \in {"pending", "failed"} => live = NoDraft \/ lost

\* An approved response does not stay approved: it is published, failed (and may be
\* retried) or rejected, if no process dies.
ApprovedIsAnswered == row.status = "approved" ~> row.status # "approved" \/ crashed

====
