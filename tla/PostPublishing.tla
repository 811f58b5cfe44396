---- MODULE PostPublishing ----
(***************************************************************************)
(* Posts from creation to publication or deletion: the approval workflow   *)
(* (app/routers/posts.py, app/services/approval.py), the links that decide *)
(* without a login (app/services/magic_link.py), the publish and retry     *)
(* buttons, and the publisher job of the scheduler worker, which publishes *)
(* every approved or queued post that is due (app/services/publisher.py).  *)
(*                                                                         *)
(* A handler reads the post's row, decides, and commits later; publishing  *)
(* awaits the platform in between.  Nothing locks the row, but for the     *)
(* publish job's foreign key, which keeps it from being deleted while a    *)
(* publication is not committed.  The job reads its list of posts once and *)
(* does not look at their status again.                                    *)
(***************************************************************************)
EXTENDS Integers, FiniteSets

CONSTANTS Posts,
          Workers,         \* requests that may be active at once
          Scheduler,       \* the publisher job, one at a time
          MaxRequests,     \* bound: approval requests and uses of signed links
          MaxPublishes,    \* bound: uses of the publish and retry buttons
          MaxEdits,        \* bound: changes of a schedule, deletions, links sent
          MaxFaults        \* bound: crashes and lost answers of the platform

Actors == Workers \cup {Scheduler}

\* What is assumed of the constants; the modules that instantiate this one state it.
PostPublishingAssumption ==
    /\ Scheduler \notin Workers
    /\ MaxRequests \in Nat /\ MaxPublishes \in Nat
    /\ MaxEdits \in Nat /\ MaxFaults \in Nat

VARIABLES
    status, token, schedule,   \* Post.status, approval_token (0: none), scheduled_at
    completed,                 \* publish_jobs rows COMPLETED, per post
    links,                     \* posts for which signed links were sent
    pc, task, batch,           \* an actor's place and work; what the job's list still holds
    copies,                    \* publications on the platform, per post
    lost,                      \* history: publications whose commit never came
    overlapped,                \* history: posts two actors have worked on at once
    reopened,                  \* history: published posts a signed link decided on
    requests, publishes, edits, faults   \* bounds

row == <<status, token, schedule, completed>>
history == <<copies, lost, overlapped, reopened>>
bounds == <<requests, publishes, edits, faults>>
vars == <<row, links, pc, task, batch, history, bounds>>

Statuses == {"draft", "pending_approval", "approved", "rejected", "queued",
             "posted", "failed"}
Gone == {"absent", "deleted"}     \* no row: not yet, or not any more
NoTask == [kind |-> "none"]
Decisions == {"approve", "approve_later", "reject"}
LinkDecisions == {"link_approve", "link_reject"}
Tasks == [kind : {"request", "publish"} \cup Decisions \cup LinkDecisions, post : Posts]
            \cup {NoTask}

Init ==
    /\ status = [p \in Posts |-> "absent"]
    /\ token = [p \in Posts |-> 0]
    /\ schedule = [p \in Posts |-> "none"]
    /\ completed = [p \in Posts |-> 0]
    /\ links = {}
    /\ pc = [a \in Actors |-> "idle"]
    /\ task = [a \in Actors |-> NoTask]
    /\ batch = {}
    /\ copies = [p \in Posts |-> 0]
    /\ lost = [p \in Posts |-> 0]
    /\ overlapped = {} /\ reopened = {}
    /\ requests = 0 /\ publishes = 0 /\ edits = 0 /\ faults = 0

WorksOn(a, p) == task[a] # NoTask /\ task[a].post = p
Busy(p) == p \in batch \/ \E a \in Actors : WorksOn(a, p)
NotePosts(ps) == overlapped' = overlapped \cup {p \in ps : Busy(p)}

Begin(w, kind, p, place) ==
    /\ pc[w] = "idle"
    /\ pc' = [pc EXCEPT ![w] = place]
    /\ task' = [task EXCEPT ![w] = [kind |-> kind, post |-> p]]
    /\ NotePosts({p})
    /\ UNCHANGED <<row, links, batch, copies, lost, reopened>>

\* A request ends; the job goes on with its list.
Finish(a) ==
    /\ pc' = [pc EXCEPT ![a] = IF a = Scheduler THEN "batch" ELSE "idle"]
    /\ task' = [task EXCEPT ![a] = NoTask]
    /\ UNCHANGED batch

-----------------------------------------------------------------------------
(* Approval. *)

\* create_post as the content pages use it: a draft, with a schedule or without.
CreatePost(p) ==
    /\ status[p] = "absent"
    /\ status' = [status EXCEPT ![p] = "draft"]
    /\ \E time \in {"none", "future"} : schedule' = [schedule EXCEPT ![p] = time]
    /\ UNCHANGED <<token, completed, links, pc, task, batch, history, bounds>>

\* create_draft_with_approval: a generated post is submitted at once.
CreateForApproval(p) ==
    /\ requests < MaxRequests
    /\ requests' = requests + 1
    /\ status[p] = "absent"
    /\ status' = [status EXCEPT ![p] = "pending_approval"]
    /\ token' = [token EXCEPT ![p] = requests']
    /\ UNCHANGED <<schedule, completed, links, pc, task, batch, history,
                   publishes, edits, faults>>

\* request_post_approval
RequestApproval(w, p) ==
    /\ requests < MaxRequests
    /\ requests' = requests + 1
    /\ status[p] \in {"draft", "rejected"}
    /\ Begin(w, "request", p, "commit")
    /\ UNCHANGED <<publishes, edits, faults>>

\* approve_post (with or without schedule_at) and reject_post: the link's token
\* must be the post's.
Decide(w, p, kind) ==
    /\ token[p] # 0
    /\ status[p] = "pending_approval"
    /\ Begin(w, kind, p, "commit")
    /\ UNCHANGED bounds

\* send_approval_notification: a post that has no token is mailed signed links,
\* whatever its status.  They are valid for 72 hours: nobody need follow them later.
SendLink(p) ==
    /\ edits < MaxEdits
    /\ edits' = edits + 1
    /\ status[p] \notin Gone
    /\ token[p] = 0
    /\ links' = links \cup {p}
    /\ UNCHANGED <<row, pc, task, batch, history, requests, publishes, faults>>

Outcome(kind) ==
    CASE kind = "request"                      -> "pending_approval"
      [] kind \in {"approve", "link_approve"}  -> "approved"
      [] kind = "approve_later"                -> "queued"
      [] kind \in {"reject", "link_reject"}    -> "rejected"

\* process_approval_action and save_edited_content: the signature is checked and
\* the status is not.  A status that is set to what it was is not written.
FollowLink(w, p, kind) ==
    /\ requests < MaxRequests
    /\ requests' = requests + 1
    /\ p \in links
    /\ status[p] \notin Gone \cup {Outcome(kind)}
    /\ Begin(w, kind, p, "commit")
    /\ UNCHANGED <<publishes, edits, faults>>

\* A signed link leaves the token alone.
Commit(w) ==
    /\ pc[w] = "commit"
    /\ LET p == task[w].post
           kind == task[w].kind
       IN  /\ status[p] # "deleted"
           /\ status' = [status EXCEPT ![p] = Outcome(kind)]
           /\ token' = [token EXCEPT ![p] = CASE kind = "request"         -> requests
                                              [] kind \in Decisions     -> 0
                                              [] kind \in LinkDecisions -> @]
           /\ schedule' = IF kind = "approve_later"
                          THEN [schedule EXCEPT ![p] = "future"] ELSE schedule
           /\ reopened' = IF kind \in LinkDecisions /\ copies[p] > 0
                          THEN reopened \cup {p} ELSE reopened
    /\ Finish(w)
    /\ UNCHANGED <<completed, links, copies, lost, overlapped, bounds>>

\* update_post, as the content page uses it: a new schedule or none.
Edit(p, time) ==
    /\ edits < MaxEdits
    /\ edits' = edits + 1
    /\ status[p] \notin Gone
    /\ schedule' = [schedule EXCEPT ![p] = time]
    /\ NotePosts({p})
    /\ UNCHANGED <<status, token, completed, links, pc, task, batch, copies, lost, reopened,
                   requests, publishes, faults>>

\* delete_post: the publish jobs go with the post.  A publication that is not
\* committed holds its job's reference to the row, and the deletion waits for it.
Delete(p) ==
    /\ edits < MaxEdits
    /\ edits' = edits + 1
    /\ status[p] \notin Gone
    /\ \A a \in Actors : WorksOn(a, p) => pc[a] \notin {"call", "posted", "failed"}
    /\ status' = [status EXCEPT ![p] = "deleted"]
    /\ token' = [token EXCEPT ![p] = 0]
    /\ schedule' = [schedule EXCEPT ![p] = "none"]
    /\ completed' = [completed EXCEPT ![p] = 0]
    /\ NotePosts({p})
    /\ UNCHANGED <<links, pc, task, batch, copies, lost, reopened,
                   requests, publishes, faults>>

ScheduleComes(p) ==
    /\ schedule[p] = "future"
    /\ schedule' = [schedule EXCEPT ![p] = "past"]
    /\ UNCHANGED <<status, token, completed, links, pc, task, batch, history, bounds>>

-----------------------------------------------------------------------------
(* Publishing. *)

\* Mutant: a posted post may be published again.
PublishAnyPost(w, p) ==
    /\ publishes < MaxPublishes
    /\ publishes' = publishes + 1
    /\ status[p] \notin Gone
    /\ Begin(w, "publish", p, "call")
    /\ UNCHANGED <<requests, edits, faults>>

\* publish_post of the router
PublishNow(w, p) ==
    /\ publishes < MaxPublishes
    /\ publishes' = publishes + 1
    /\ status[p] \notin Gone \cup {"posted"}
    /\ Begin(w, "publish", p, "call")
    /\ UNCHANGED <<requests, edits, faults>>

\* retry_publish_post
RetryPublish(w, p) ==
    /\ status[p] \in {"failed", "approved", "queued"}
    /\ PublishNow(w, p)

\* Mutant: posts that wait for their approval are published when their time comes.
IsDueUnapproved(p) ==
    \/ status[p] \in {"queued", "pending_approval"} /\ schedule[p] = "past"
    \/ status[p] = "approved" /\ schedule[p] \in {"none", "past"}

\* Mutant: an approved post without a schedule is not taken at once.
IsDueScheduled(p) ==
    /\ status[p] \in {"queued", "approved"}
    /\ schedule[p] = "past"

\* The query of publish_queued_posts.
IsDue(p) ==
    \/ status[p] = "queued" /\ schedule[p] = "past"
    \/ status[p] = "approved" /\ schedule[p] \in {"none", "past"}

StartBatch ==
    /\ pc[Scheduler] = "idle"
    /\ \E p \in Posts : IsDue(p)
    /\ batch' = {p \in Posts : IsDue(p)}
    /\ pc' = [pc EXCEPT ![Scheduler] = "batch"]
    /\ NotePosts(batch')
    /\ UNCHANGED <<row, links, task, copies, lost, reopened, bounds>>

\* The next post of the list, in no particular order.
NextOfBatch ==
    /\ pc[Scheduler] = "batch"
    /\ \E p \in batch :
          /\ status[p] # "deleted"
          /\ batch' = batch \ {p}
          /\ task' = [task EXCEPT ![Scheduler] = [kind |-> "publish", post |-> p]]
    /\ pc' = [pc EXCEPT ![Scheduler] = "call"]
    /\ UNCHANGED <<row, links, history, bounds>>

EndBatch ==
    /\ pc[Scheduler] = "batch"
    /\ batch = {}
    /\ pc' = [pc EXCEPT ![Scheduler] = "idle"]
    /\ UNCHANGED <<row, links, task, batch, history, bounds>>

\* The platform's answer: published, refused (or no channel to publish to), or
\* published with the answer lost.
Call(a, published, answer) ==
    /\ pc[a] = "call"
    /\ pc' = [pc EXCEPT ![a] = answer]
    /\ copies' = IF published THEN [copies EXCEPT ![task[a].post] = @ + 1] ELSE copies
    /\ UNCHANGED <<row, links, task, batch, overlapped, reopened, requests, publishes, edits>>

PlatformPublishes(a) == Call(a, TRUE, "posted") /\ UNCHANGED <<lost, faults>>
PlatformRefuses(a) == Call(a, FALSE, "failed") /\ UNCHANGED <<lost, faults>>
AnswerLost(a) ==
    /\ faults < MaxFaults
    /\ faults' = faults + 1
    /\ Call(a, TRUE, "failed")
    /\ lost' = [lost EXCEPT ![task[a].post] = @ + 1]

\* Mutant: one publish job per post, however often it is published.
CommitPostedOneJob(a) ==
    /\ pc[a] = "posted"
    /\ status' = [status EXCEPT ![task[a].post] = "posted"]
    /\ completed' = [completed EXCEPT ![task[a].post] = 1]
    /\ Finish(a)
    /\ UNCHANGED <<token, schedule, links, history, bounds>>

CommitPosted(a) ==
    /\ pc[a] = "posted"
    /\ status' = [status EXCEPT ![task[a].post] = "posted"]
    /\ completed' = [completed EXCEPT ![task[a].post] = @ + 1]
    /\ Finish(a)
    /\ UNCHANGED <<token, schedule, links, history, bounds>>

\* Mutant: the job, too, comes back to the post after its alert.
CommitFailedThenAlert(a) ==
    /\ pc[a] = "failed"
    /\ status' = [status EXCEPT ![task[a].post] = "failed"]
    /\ pc' = [pc EXCEPT ![a] = "alert"]
    /\ UNCHANGED <<task, batch>>
    /\ UNCHANGED <<token, schedule, completed, links, history, bounds>>

CommitFailed(a) ==
    /\ pc[a] = "failed"
    /\ status' = [status EXCEPT ![task[a].post] = "failed"]
    /\ IF a = Scheduler
       THEN Finish(a)
       ELSE pc' = [pc EXCEPT ![a] = "alert"] /\ UNCHANGED <<task, batch>>
    /\ UNCHANGED <<token, schedule, completed, links, history, bounds>>

\* After the alert about the failure the router stores FAILED once more, over
\* whatever the row has become; an alert that was not stored leaves it alone.
CommitFailedAgain(w) ==
    /\ pc[w] = "alert"
    /\ status[task[w].post] # "deleted"
    /\ \/ status' = [status EXCEPT ![task[w].post] = "failed"]
       \/ UNCHANGED status
    /\ Finish(w)
    /\ UNCHANGED <<token, schedule, completed, links, history, bounds>>

Abandon(a) ==
    /\ pc' = [pc EXCEPT ![a] = "idle"]
    /\ task' = [task EXCEPT ![a] = NoTask]
    /\ batch' = IF a = Scheduler THEN {} ELSE batch

\* Writing a row that was deleted fails; the job does not get past such a post in
\* its list, and leaves the others to its next run.
RowIsGone(a) ==
    /\ \/ pc[a] \in {"commit", "alert"} /\ status[task[a].post] = "deleted"
       \/ pc[a] = "batch" /\ \E p \in batch : status[p] = "deleted"
    /\ Abandon(a)
    /\ UNCHANGED <<row, links, history, bounds>>

\* The process dies: the session is rolled back, the publish job's row too.
Crash(a) ==
    /\ pc[a] # "idle"
    /\ faults < MaxFaults
    /\ faults' = faults + 1
    /\ Abandon(a)
    /\ lost' = IF pc[a] = "posted"
               THEN [lost EXCEPT ![task[a].post] = @ + 1] ELSE lost
    /\ UNCHANGED <<row, links, copies, overlapped, reopened, requests, publishes, edits>>

-----------------------------------------------------------------------------
Publish(a) ==
    \/ PlatformPublishes(a)
    \/ PlatformRefuses(a)
    \/ AnswerLost(a)
    \/ CommitPosted(a)
    \/ CommitFailed(a)

Job == StartBatch \/ NextOfBatch \/ EndBatch \/ Publish(Scheduler) \/ RowIsGone(Scheduler)
Request(w) == Commit(w) \/ Publish(w) \/ CommitFailedAgain(w) \/ RowIsGone(w)

Next ==
    \/ Job
    \/ \E w \in Workers :
          \/ Request(w)
          \/ \E p \in Posts :
                \/ RequestApproval(w, p)
                \/ \E kind \in Decisions : Decide(w, p, kind)
                \/ \E kind \in LinkDecisions : FollowLink(w, p, kind)
                \/ PublishNow(w, p)
                \/ RetryPublish(w, p)
    \/ \E p \in Posts :
          \/ CreatePost(p)
          \/ CreateForApproval(p)
          \/ SendLink(p)
          \/ Delete(p)
          \/ ScheduleComes(p)
          \/ \E time \in {"none", "future"} : Edit(p, time)
    \/ \E a \in Actors : Crash(a)

Spec == Init /\ [][Next]_vars

\* The job runs three times a week, a request runs to its end, time passes.
FairSpec ==
    /\ Spec
    /\ WF_vars(Job)
    /\ \A w \in Workers : WF_vars(Request(w))
    /\ \A p \in Posts : WF_vars(ScheduleComes(p))

-----------------------------------------------------------------------------
TypeOK ==
    /\ status \in [Posts -> Statuses \cup Gone]
    /\ token \in [Posts -> 0..MaxRequests]
    /\ schedule \in [Posts -> {"none", "future", "past"}]
    /\ completed \in [Posts -> Nat]
    /\ links \subseteq Posts
    /\ pc \in [Actors -> {"idle", "commit", "batch", "call", "posted", "failed", "alert"}]
    /\ pc[Scheduler] \notin {"commit", "alert"}
    /\ \A w \in Workers : pc[w] # "batch"
    /\ task \in [Actors -> Tasks]
    /\ batch \subseteq Posts
    /\ copies \in [Posts -> Nat]
    /\ lost \in [Posts -> Nat]
    /\ overlapped \subseteq Posts
    /\ reopened \subseteq {p \in Posts : copies[p] > 0}
    /\ requests \in 0..MaxRequests
    /\ publishes \in 0..MaxPublishes
    /\ edits \in 0..MaxEdits
    /\ faults \in 0..MaxFaults

\* "Post already published": as long as no two actors work on a post at once, no
\* commit was lost and no signed link took it back, the platform has it at most
\* once, however often it was refused, retried, rejected and submitted again.
PublishedOnce ==
    \A p \in Posts \ (overlapped \cup reopened) : lost[p] = 0 => copies[p] <= 1

\* The publish jobs account for every publication of a post that has not been
\* deleted, also when actors overlap: one COMPLETED row each, but for those whose
\* commit is still to come or never came.
PublicationsAreRecorded ==
    \A p \in Posts :
        status[p] # "deleted" => copies[p] = completed[p] + lost[p]
                    + Cardinality({a \in Actors : pc[a] = "posted" /\ WorksOn(a, p)})

\* "If approved, post is queued for publishing": the job, with its old list, never
\* publishes a post that is not approved, unless two actors worked on it at once.
JobPublishesApproved ==
    [][\A p \in Posts \ overlapped :
          pc[Scheduler] = "call" /\ WorksOn(Scheduler, p) /\ copies'[p] > copies[p]
              => status[p] \in {"approved", "queued"}]_vars

\* "Publish all queued/approved posts that are due": an approved post, and a queued
\* one that still has a schedule, is published or reported as failed.
ApprovedIsHandled ==
    \A p \in Posts :
        status[p] \in {"approved", "queued"} ~>
            \/ status[p] \notin {"approved", "queued"}
            \/ status[p] = "queued" /\ schedule[p] = "none"
====
