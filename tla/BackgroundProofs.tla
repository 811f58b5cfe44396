---- MODULE BackgroundProofs ----
(***************************************************************************)
(* The posts and the audits keep what is promised of them for any posts,   *)
(* requests, audits, tasks and places, and any bounds.                     *)
(*                                                                         *)
(* A composed step is a step of one component and leaves the other alone:  *)
(* an invariant is proved of its component (the lemmas ...Step) and carried *)
(* over to the composition at the end.                                     *)
(***************************************************************************)
EXTENDS MCBackground, FiniteSetTheorems, TLAPS

\* What the components assume of the constants.
LEMMA Constants ==
    /\ Scheduler \notin Workers
    /\ MaxRequests \in Nat /\ MaxPublishes \in Nat
    /\ MaxEdits \in Nat /\ MaxFaults \in Nat
    /\ NoPlace \notin Places
    /\ MaxSelects \in Nat /\ MaxDeaths \in Nat
BY BackgroundAssumption
   DEF Post!PostPublishingAssumption, Audit!OnboardingAuditsAssumption

-----------------------------------------------------------------------------
(* Posts: the types, and which task fits which place of an actor.          *)

\* An actor has a task exactly while its place says so, and of a kind that fits.
TaskFits == \A a \in Post!Actors :
    /\ pc[a] \in {"idle", "batch"} => task[a] = Post!NoTask
    /\ pc[a] = "commit" =>
          task[a].kind \in {"request"} \cup Post!Decisions \cup Post!LinkDecisions
    /\ pc[a] \in {"call", "posted", "failed", "alert"} => task[a].kind = "publish"

\* The row of a post that is being published is not deleted under the publication.
RowIsHeld == \A a \in Post!Actors :
    pc[a] \in {"call", "posted", "failed"} => status[task[a].post] # "deleted"

Typed == Post!TypeOK /\ TaskFits /\ RowIsHeld

\* Every step keeps the types and the places.
LEMMA TypedStep == ASSUME Typed, [Post!Next]_(Post!vars)
                   PROVE  Typed'
<1> USE Constants DEF Post!row, Post!history, Post!bounds, Post!Actors, Post!Gone,
        Typed, Post!TypeOK, TaskFits, RowIsHeld,
        Post!NoTask, Post!Tasks, Post!Decisions, Post!LinkDecisions, Post!Statuses
<1>1. CASE Post!StartBatch
    BY <1>1 DEF Post!StartBatch, Post!IsDue, Post!NotePosts, Post!Busy
<1>2. CASE Post!NextOfBatch
    BY <1>2 DEF Post!NextOfBatch
<1>3. CASE Post!EndBatch
    BY <1>3 DEF Post!EndBatch
<1>4. ASSUME NEW w \in Workers, Post!Commit(w) PROVE Typed'
    BY <1>4 DEF Post!Commit, Post!Finish, Post!Outcome
<1>5. ASSUME NEW w \in Workers, Post!CommitFailedAgain(w) PROVE Typed'
    BY <1>5 DEF Post!CommitFailedAgain, Post!Finish
<1>6. ASSUME NEW a \in Post!Actors, Post!PlatformPublishes(a) PROVE Typed'
    BY <1>6 DEF Post!PlatformPublishes, Post!Call
<1>7. ASSUME NEW a \in Post!Actors, Post!PlatformRefuses(a) PROVE Typed'
    BY <1>7 DEF Post!PlatformRefuses, Post!Call
<1>8. ASSUME NEW a \in Post!Actors, Post!AnswerLost(a) PROVE Typed'
    BY <1>8 DEF Post!AnswerLost, Post!Call
<1>9. ASSUME NEW a \in Post!Actors, Post!CommitPosted(a) PROVE Typed'
    BY <1>9 DEF Post!CommitPosted, Post!Finish
<1>10. ASSUME NEW a \in Post!Actors, Post!CommitFailed(a) PROVE Typed'
    BY <1>10 DEF Post!CommitFailed, Post!Finish
<1>11. ASSUME NEW a \in Post!Actors, Post!RowIsGone(a) PROVE Typed'
    BY <1>11 DEF Post!RowIsGone, Post!Abandon
<1>12. ASSUME NEW a \in Post!Actors, Post!Crash(a) PROVE Typed'
    BY <1>12 DEF Post!Crash, Post!Abandon
<1>13. ASSUME NEW w \in Workers, NEW p \in Posts, Post!RequestApproval(w, p) PROVE Typed'
    BY <1>13 DEF Post!RequestApproval, Post!Begin, Post!NotePosts, Post!Busy
<1>14. ASSUME NEW w \in Workers, NEW p \in Posts, NEW kind \in Post!Decisions, Post!Decide(w,
              p, kind)
       PROVE  Typed'
    BY <1>14 DEF Post!Decide, Post!Begin, Post!NotePosts, Post!Busy
<1>15. ASSUME NEW w \in Workers, NEW p \in Posts, NEW kind \in Post!LinkDecisions,
              Post!FollowLink(w, p, kind)
       PROVE  Typed'
    BY <1>15 DEF Post!FollowLink, Post!Begin, Post!NotePosts, Post!Busy, Post!Outcome
<1>16. ASSUME NEW w \in Workers, NEW p \in Posts, Post!PublishNow(w, p) PROVE Typed'
    BY <1>16 DEF Post!PublishNow, Post!Begin, Post!NotePosts, Post!Busy
<1>17. ASSUME NEW p \in Posts, Post!CreatePost(p) PROVE Typed'
    BY <1>17 DEF Post!CreatePost
<1>18. ASSUME NEW p \in Posts, Post!CreateForApproval(p) PROVE Typed'
    BY <1>18 DEF Post!CreateForApproval
<1>19. ASSUME NEW p \in Posts, Post!SendLink(p) PROVE Typed'
    BY <1>19 DEF Post!SendLink
<1>20. ASSUME NEW p \in Posts, Post!Delete(p) PROVE Typed'
    BY <1>20 DEF Post!Delete, Post!NotePosts, Post!Busy, Post!WorksOn
<1>21. ASSUME NEW p \in Posts, Post!ScheduleComes(p) PROVE Typed'
    BY <1>21 DEF Post!ScheduleComes
<1>22. ASSUME NEW p \in Posts, NEW time \in {"none", "future"}, Post!Edit(p, time)
       PROVE  Typed'
    BY <1>22 DEF Post!Edit, Post!NotePosts, Post!Busy
<1>23. CASE UNCHANGED Post!vars
    BY <1>23 DEF Post!vars
<1> HIDE DEF Typed, Post!TypeOK, TaskFits, RowIsHeld
<1> QED BY <1>1, <1>2, <1>3, <1>4, <1>5, <1>6, <1>7, <1>8, <1>9, <1>10, <1>11, <1>12, <1>13,
           <1>14, <1>15, <1>16, <1>17, <1>18, <1>19, <1>20, <1>21, <1>22, <1>23
    DEF Post!Next, Post!Job, Post!Request, Post!Publish, Post!RetryPublish

-----------------------------------------------------------------------------
(* Posts: at most one actor at work on a post that is not in overlapped.    *)

\* A post that two actors have not worked on at once has one at most, and none
\* while it is on the job's list.
OneAtATime == \A p \in Posts \ overlapped : \A a \in Post!Actors :
    Post!WorksOn(a, p) =>
        /\ p \notin batch
        /\ \A b \in Post!Actors : Post!WorksOn(b, p) => a = b

\* Whoever turns to a post somebody is at work on puts it into overlapped.
LEMMA OneAtATimeStep == ASSUME Typed, OneAtATime, [Post!Next]_(Post!vars)
                        PROVE  OneAtATime'
<1> USE Constants DEF Post!row, Post!history, Post!bounds, Post!Actors, Post!Gone,
        Typed, Post!TypeOK, TaskFits, OneAtATime, Post!WorksOn,
        Post!NoTask, Post!Tasks, Post!Decisions, Post!LinkDecisions, Post!Statuses
<1>1. CASE Post!StartBatch
    BY <1>1 DEF Post!StartBatch, Post!IsDue, Post!NotePosts, Post!Busy
<1>2. CASE Post!NextOfBatch
    BY <1>2 DEF Post!NextOfBatch
<1>3. CASE Post!EndBatch
    BY <1>3 DEF Post!EndBatch
<1>4. ASSUME NEW w \in Workers, Post!Commit(w) PROVE OneAtATime'
    BY <1>4 DEF Post!Commit, Post!Finish
<1>5. ASSUME NEW w \in Workers, Post!CommitFailedAgain(w) PROVE OneAtATime'
    BY <1>5 DEF Post!CommitFailedAgain, Post!Finish
<1>6. ASSUME NEW a \in Post!Actors, Post!PlatformPublishes(a) PROVE OneAtATime'
    BY <1>6 DEF Post!PlatformPublishes, Post!Call
<1>7. ASSUME NEW a \in Post!Actors, Post!PlatformRefuses(a) PROVE OneAtATime'
    BY <1>7 DEF Post!PlatformRefuses, Post!Call
<1>8. ASSUME NEW a \in Post!Actors, Post!AnswerLost(a) PROVE OneAtATime'
    BY <1>8 DEF Post!AnswerLost, Post!Call
<1>9. ASSUME NEW a \in Post!Actors, Post!CommitPosted(a) PROVE OneAtATime'
    BY <1>9 DEF Post!CommitPosted, Post!Finish
<1>10. ASSUME NEW a \in Post!Actors, Post!CommitFailed(a) PROVE OneAtATime'
    BY <1>10 DEF Post!CommitFailed, Post!Finish
<1>11. ASSUME NEW a \in Post!Actors, Post!RowIsGone(a) PROVE OneAtATime'
    BY <1>11 DEF Post!RowIsGone, Post!Abandon
<1>12. ASSUME NEW a \in Post!Actors, Post!Crash(a) PROVE OneAtATime'
    BY <1>12 DEF Post!Crash, Post!Abandon
<1>13. ASSUME NEW w \in Workers, NEW p \in Posts, Post!RequestApproval(w, p) PROVE OneAtATime'
    BY <1>13 DEF Post!RequestApproval, Post!Begin, Post!NotePosts, Post!Busy
<1>14. ASSUME NEW w \in Workers, NEW p \in Posts, NEW kind \in Post!Decisions, Post!Decide(w,
              p, kind)
       PROVE  OneAtATime'
    BY <1>14 DEF Post!Decide, Post!Begin, Post!NotePosts, Post!Busy
<1>15. ASSUME NEW w \in Workers, NEW p \in Posts, NEW kind \in Post!LinkDecisions,
              Post!FollowLink(w, p, kind)
       PROVE  OneAtATime'
    BY <1>15 DEF Post!FollowLink, Post!Begin, Post!NotePosts, Post!Busy
<1>16. ASSUME NEW w \in Workers, NEW p \in Posts, Post!PublishNow(w, p) PROVE OneAtATime'
    BY <1>16 DEF Post!PublishNow, Post!Begin, Post!NotePosts, Post!Busy
<1>17. ASSUME NEW p \in Posts, Post!CreatePost(p) PROVE OneAtATime'
    BY <1>17 DEF Post!CreatePost
<1>18. ASSUME NEW p \in Posts, Post!CreateForApproval(p) PROVE OneAtATime'
    BY <1>18 DEF Post!CreateForApproval
<1>19. ASSUME NEW p \in Posts, Post!SendLink(p) PROVE OneAtATime'
    BY <1>19 DEF Post!SendLink
<1>20. ASSUME NEW p \in Posts, Post!Delete(p) PROVE OneAtATime'
    BY <1>20 DEF Post!Delete, Post!NotePosts, Post!Busy
<1>21. ASSUME NEW p \in Posts, Post!ScheduleComes(p) PROVE OneAtATime'
    BY <1>21 DEF Post!ScheduleComes
<1>22. ASSUME NEW p \in Posts, NEW time \in {"none", "future"}, Post!Edit(p, time)
       PROVE  OneAtATime'
    BY <1>22 DEF Post!Edit, Post!NotePosts, Post!Busy
<1>23. CASE UNCHANGED Post!vars
    BY <1>23 DEF Post!vars
<1> HIDE DEF Typed, Post!TypeOK, TaskFits, OneAtATime
<1> QED BY <1>1, <1>2, <1>3, <1>4, <1>5, <1>6, <1>7, <1>8, <1>9, <1>10, <1>11, <1>12, <1>13,
           <1>14, <1>15, <1>16, <1>17, <1>18, <1>19, <1>20, <1>21, <1>22, <1>23
    DEF Post!Next, Post!Job, Post!Request, Post!Publish, Post!RetryPublish

-----------------------------------------------------------------------------
(* Posts: what the job's list holds is still approved.                      *)

\* The job does not look at a post's status again, but as long as nobody else works
\* on the post the status it was listed with is the one it has.
ListIsApproved == \A p \in Posts \ overlapped :
    \/ p \in batch
    \/ pc[Scheduler] = "call" /\ Post!WorksOn(Scheduler, p)
    => status[p] \in {"approved", "queued"}

\* Only who works on a post changes its status, and that is not while it is listed.
LEMMA ListIsApprovedStep == ASSUME Typed, OneAtATime, ListIsApproved, [Post!Next]_(Post!vars)
                            PROVE  ListIsApproved'
<1> USE Constants DEF Post!row, Post!history, Post!bounds, Post!Actors, Post!Gone,
        Typed, Post!TypeOK, TaskFits, OneAtATime, ListIsApproved, Post!WorksOn,
        Post!NoTask, Post!Tasks, Post!Decisions, Post!LinkDecisions, Post!Statuses
<1>1. CASE Post!StartBatch
    BY <1>1 DEF Post!StartBatch, Post!IsDue, Post!NotePosts, Post!Busy
<1>2. CASE Post!NextOfBatch
    BY <1>2 DEF Post!NextOfBatch
<1>3. CASE Post!EndBatch
    BY <1>3 DEF Post!EndBatch
<1>4. ASSUME NEW w \in Workers, Post!Commit(w) PROVE ListIsApproved'
    BY <1>4 DEF Post!Commit, Post!Finish
<1>5. ASSUME NEW w \in Workers, Post!CommitFailedAgain(w) PROVE ListIsApproved'
    BY <1>5 DEF Post!CommitFailedAgain, Post!Finish
<1>6. ASSUME NEW a \in Post!Actors, Post!PlatformPublishes(a) PROVE ListIsApproved'
    BY <1>6 DEF Post!PlatformPublishes, Post!Call
<1>7. ASSUME NEW a \in Post!Actors, Post!PlatformRefuses(a) PROVE ListIsApproved'
    BY <1>7 DEF Post!PlatformRefuses, Post!Call
<1>8. ASSUME NEW a \in Post!Actors, Post!AnswerLost(a) PROVE ListIsApproved'
    BY <1>8 DEF Post!AnswerLost, Post!Call
<1>9. ASSUME NEW a \in Post!Actors, Post!CommitPosted(a) PROVE ListIsApproved'
    BY <1>9 DEF Post!CommitPosted, Post!Finish
<1>10. ASSUME NEW a \in Post!Actors, Post!CommitFailed(a) PROVE ListIsApproved'
    BY <1>10 DEF Post!CommitFailed, Post!Finish
<1>11. ASSUME NEW a \in Post!Actors, Post!RowIsGone(a) PROVE ListIsApproved'
    BY <1>11 DEF Post!RowIsGone, Post!Abandon
<1>12. ASSUME NEW a \in Post!Actors, Post!Crash(a) PROVE ListIsApproved'
    BY <1>12 DEF Post!Crash, Post!Abandon
<1>13. ASSUME NEW w \in Workers, NEW p \in Posts, Post!RequestApproval(w, p)
       PROVE  ListIsApproved'
    BY <1>13 DEF Post!RequestApproval, Post!Begin, Post!NotePosts, Post!Busy
<1>14. ASSUME NEW w \in Workers, NEW p \in Posts, NEW kind \in Post!Decisions, Post!Decide(w,
              p, kind)
       PROVE  ListIsApproved'
    BY <1>14 DEF Post!Decide, Post!Begin, Post!NotePosts, Post!Busy
<1>15. ASSUME NEW w \in Workers, NEW p \in Posts, NEW kind \in Post!LinkDecisions,
              Post!FollowLink(w, p, kind)
       PROVE  ListIsApproved'
    BY <1>15 DEF Post!FollowLink, Post!Begin, Post!NotePosts, Post!Busy
<1>16. ASSUME NEW w \in Workers, NEW p \in Posts, Post!PublishNow(w, p) PROVE ListIsApproved'
    BY <1>16 DEF Post!PublishNow, Post!Begin, Post!NotePosts, Post!Busy
<1>17. ASSUME NEW p \in Posts, Post!CreatePost(p) PROVE ListIsApproved'
    BY <1>17 DEF Post!CreatePost
<1>18. ASSUME NEW p \in Posts, Post!CreateForApproval(p) PROVE ListIsApproved'
    BY <1>18 DEF Post!CreateForApproval
<1>19. ASSUME NEW p \in Posts, Post!SendLink(p) PROVE ListIsApproved'
    BY <1>19 DEF Post!SendLink
<1>20. ASSUME NEW p \in Posts, Post!Delete(p) PROVE ListIsApproved'
    BY <1>20 DEF Post!Delete, Post!NotePosts, Post!Busy
<1>21. ASSUME NEW p \in Posts, Post!ScheduleComes(p) PROVE ListIsApproved'
    BY <1>21 DEF Post!ScheduleComes
<1>22. ASSUME NEW p \in Posts, NEW time \in {"none", "future"}, Post!Edit(p, time)
       PROVE  ListIsApproved'
    BY <1>22 DEF Post!Edit, Post!NotePosts, Post!Busy
<1>23. CASE UNCHANGED Post!vars
    BY <1>23 DEF Post!vars
<1> HIDE DEF Typed, Post!TypeOK, TaskFits, OneAtATime, ListIsApproved
<1> QED BY <1>1, <1>2, <1>3, <1>4, <1>5, <1>6, <1>7, <1>8, <1>9, <1>10, <1>11, <1>12, <1>13,
           <1>14, <1>15, <1>16, <1>17, <1>18, <1>19, <1>20, <1>21, <1>22, <1>23
    DEF Post!Next, Post!Job, Post!Request, Post!Publish, Post!RetryPublish

-----------------------------------------------------------------------------
(* Posts: whoever may still publish a post finds it unpublished.            *)

\* Of a post of which no commit was lost, no two actors worked at once and no link
\* took back: it is on the platform once at most; nobody but the follower of a link
\* or the one whose commit is to come is at work on it once it is there; and a
\* publication shows in the status or is about to.
UnpublishedIfWorkedOn == \A p \in Posts \ (overlapped \cup reopened) :
    lost[p] = 0 =>
        /\ copies[p] <= 1
        /\ p \in batch => copies[p] = 0
        /\ \A a \in Post!Actors :
              /\ Post!WorksOn(a, p)
              /\ pc[a] # "posted"
              /\ task[a].kind \notin Post!LinkDecisions
              => copies[p] = 0
        /\ \/ copies[p] = 0
           \/ status[p] \in {"posted", "deleted"}
           \/ \E a \in Post!Actors : pc[a] = "posted" /\ Post!WorksOn(a, p)

\* A post is published by the one actor at work on it, who found it unpublished.
LEMMA UnpublishedStep == ASSUME Typed, OneAtATime, ListIsApproved, UnpublishedIfWorkedOn,
                                [Post!Next]_(Post!vars)
                         PROVE  UnpublishedIfWorkedOn'
<1> USE Constants DEF Post!row, Post!history, Post!bounds, Post!Actors, Post!Gone,
        Typed, Post!TypeOK, TaskFits, RowIsHeld, OneAtATime, ListIsApproved,
        UnpublishedIfWorkedOn, Post!WorksOn,
        Post!NoTask, Post!Tasks, Post!Decisions, Post!LinkDecisions, Post!Statuses
<1>1. CASE Post!StartBatch
    BY <1>1 DEF Post!StartBatch, Post!IsDue, Post!NotePosts, Post!Busy
<1>2. CASE Post!NextOfBatch
    BY <1>2 DEF Post!NextOfBatch
<1>3. CASE Post!EndBatch
    BY <1>3 DEF Post!EndBatch
<1>4. ASSUME NEW w \in Workers, Post!Commit(w) PROVE UnpublishedIfWorkedOn'
    BY <1>4 DEF Post!Commit, Post!Finish
<1>5. ASSUME NEW w \in Workers, Post!CommitFailedAgain(w) PROVE UnpublishedIfWorkedOn'
    BY <1>5 DEF Post!CommitFailedAgain, Post!Finish
<1>6. ASSUME NEW a \in Post!Actors, Post!PlatformPublishes(a) PROVE UnpublishedIfWorkedOn'
    BY <1>6 DEF Post!PlatformPublishes, Post!Call
<1>7. ASSUME NEW a \in Post!Actors, Post!PlatformRefuses(a) PROVE UnpublishedIfWorkedOn'
    BY <1>7 DEF Post!PlatformRefuses, Post!Call
<1>8. ASSUME NEW a \in Post!Actors, Post!AnswerLost(a) PROVE UnpublishedIfWorkedOn'
    BY <1>8 DEF Post!AnswerLost, Post!Call
<1>9. ASSUME NEW a \in Post!Actors, Post!CommitPosted(a) PROVE UnpublishedIfWorkedOn'
    BY <1>9 DEF Post!CommitPosted, Post!Finish
<1>10. ASSUME NEW a \in Post!Actors, Post!CommitFailed(a) PROVE UnpublishedIfWorkedOn'
    BY <1>10 DEF Post!CommitFailed, Post!Finish
<1>11. ASSUME NEW a \in Post!Actors, Post!RowIsGone(a) PROVE UnpublishedIfWorkedOn'
    BY <1>11 DEF Post!RowIsGone, Post!Abandon
<1>12. ASSUME NEW a \in Post!Actors, Post!Crash(a) PROVE UnpublishedIfWorkedOn'
    BY <1>12 DEF Post!Crash, Post!Abandon
<1>13. ASSUME NEW w \in Workers, NEW p \in Posts, Post!RequestApproval(w, p)
       PROVE  UnpublishedIfWorkedOn'
    BY <1>13 DEF Post!RequestApproval, Post!Begin, Post!NotePosts, Post!Busy
<1>14. ASSUME NEW w \in Workers, NEW p \in Posts, NEW kind \in Post!Decisions, Post!Decide(w,
              p, kind)
       PROVE  UnpublishedIfWorkedOn'
    BY <1>14 DEF Post!Decide, Post!Begin, Post!NotePosts, Post!Busy
<1>15. ASSUME NEW w \in Workers, NEW p \in Posts, NEW kind \in Post!LinkDecisions,
              Post!FollowLink(w, p, kind)
       PROVE  UnpublishedIfWorkedOn'
    BY <1>15 DEF Post!FollowLink, Post!Begin, Post!NotePosts, Post!Busy
<1>16. ASSUME NEW w \in Workers, NEW p \in Posts, Post!PublishNow(w, p)
       PROVE  UnpublishedIfWorkedOn'
    BY <1>16 DEF Post!PublishNow, Post!Begin, Post!NotePosts, Post!Busy
<1>17. ASSUME NEW p \in Posts, Post!CreatePost(p) PROVE UnpublishedIfWorkedOn'
    BY <1>17 DEF Post!CreatePost
<1>18. ASSUME NEW p \in Posts, Post!CreateForApproval(p) PROVE UnpublishedIfWorkedOn'
    BY <1>18 DEF Post!CreateForApproval
<1>19. ASSUME NEW p \in Posts, Post!SendLink(p) PROVE UnpublishedIfWorkedOn'
    BY <1>19 DEF Post!SendLink
<1>20. ASSUME NEW p \in Posts, Post!Delete(p) PROVE UnpublishedIfWorkedOn'
    BY <1>20 DEF Post!Delete, Post!NotePosts, Post!Busy
<1>21. ASSUME NEW p \in Posts, Post!ScheduleComes(p) PROVE UnpublishedIfWorkedOn'
    BY <1>21 DEF Post!ScheduleComes
<1>22. ASSUME NEW p \in Posts, NEW time \in {"none", "future"}, Post!Edit(p, time)
       PROVE  UnpublishedIfWorkedOn'
    BY <1>22 DEF Post!Edit, Post!NotePosts, Post!Busy
<1>23. CASE UNCHANGED Post!vars
    BY <1>23 DEF Post!vars
<1> HIDE DEF Typed, Post!TypeOK, TaskFits, RowIsHeld, OneAtATime, ListIsApproved,
             UnpublishedIfWorkedOn
<1> QED BY <1>1, <1>2, <1>3, <1>4, <1>5, <1>6, <1>7, <1>8, <1>9, <1>10, <1>11, <1>12, <1>13,
           <1>14, <1>15, <1>16, <1>17, <1>18, <1>19, <1>20, <1>21, <1>22, <1>23
    DEF Post!Next, Post!Job, Post!Request, Post!Publish, Post!RetryPublish

-----------------------------------------------------------------------------
(* Posts: the publish jobs account for every publication.                   *)

\* The publications of a post whose commit is still to come.
PostedBy(p) == {a \in Post!Actors : pc[a] = "posted" /\ Post!WorksOn(a, p)}

\* There are finitely many of them, whatever the number of workers, and with the
\* completed jobs and the lost commits they are all there is.
Recorded == \A p \in Posts :
    /\ IsFiniteSet(PostedBy(p))
    /\ status[p] # "deleted" => copies[p] = completed[p] + lost[p] + Cardinality(PostedBy(p))

\* The module's own Cardinality is the one the library's facts are about.
LEMMA SameCardinality == ASSUME NEW S PROVE Post!Cardinality(S) = Cardinality(S)
BY DEF Post!Cardinality, Cardinality

\* A publication is pending until its commit, which stores a job, or until it is lost.
LEMMA RecordedStep == ASSUME Typed, Recorded, [Post!Next]_(Post!vars)
                      PROVE  Recorded'
<1> USE Constants DEF Post!row, Post!history, Post!bounds, Post!Actors, Post!Gone,
        Typed, Post!TypeOK, TaskFits, RowIsHeld, Recorded, Post!WorksOn,
        Post!NoTask, Post!Tasks, Post!Decisions, Post!LinkDecisions, Post!Statuses
<1>1. CASE Post!StartBatch
    BY <1>1 DEF Post!StartBatch, Post!IsDue, Post!NotePosts, Post!Busy, PostedBy
<1>2. CASE Post!NextOfBatch
    <2>1. \A q \in Posts : PostedBy(q)' = PostedBy(q)
          BY <1>2 DEF Post!NextOfBatch, PostedBy
    <2> QED BY <1>2, <2>1 DEF Post!NextOfBatch
<1>3. CASE Post!EndBatch
    BY <1>3 DEF Post!EndBatch, PostedBy
<1>4. ASSUME NEW w \in Workers, Post!Commit(w) PROVE Recorded'
    <2>1. \A q \in Posts : PostedBy(q)' = PostedBy(q)
          BY <1>4 DEF Post!Commit, Post!Finish, PostedBy
    <2> QED BY <1>4, <2>1 DEF Post!Commit, Post!Finish
<1>5. ASSUME NEW w \in Workers, Post!CommitFailedAgain(w) PROVE Recorded'
    <2>1. \A q \in Posts : PostedBy(q)' = PostedBy(q)
          BY <1>5 DEF Post!CommitFailedAgain, Post!Finish, PostedBy
    <2> QED BY <1>5, <2>1 DEF Post!CommitFailedAgain, Post!Finish
<1>6. ASSUME NEW a \in Post!Actors, Post!PlatformPublishes(a) PROVE Recorded'
    <2>1. PICK p \in Posts : Post!WorksOn(a, p) /\ task[a].post = p /\ pc[a] = "call"
          BY <1>6 DEF Post!PlatformPublishes, Post!Call
    <2>2. PostedBy(p)' = PostedBy(p) \cup {a} /\ a \notin PostedBy(p)
          BY <1>6, <2>1 DEF Post!PlatformPublishes, Post!Call, PostedBy
    <2>3. \A q \in Posts \ {p} : PostedBy(q)' = PostedBy(q)
          BY <1>6, <2>1 DEF Post!PlatformPublishes, Post!Call, PostedBy
    <2>4. /\ IsFiniteSet(PostedBy(p)) /\ Cardinality(PostedBy(p)) \in Nat
          /\ IsFiniteSet(PostedBy(p)') /\ Cardinality(PostedBy(p)') = Cardinality(PostedBy(p)) + 1
          BY <2>1, <2>2, FS_AddElement, FS_CardinalityType
    <2> QED BY <1>6, <2>1, <2>3, <2>4 DEF Post!PlatformPublishes, Post!Call
<1>7. ASSUME NEW a \in Post!Actors, Post!PlatformRefuses(a) PROVE Recorded'
    <2>1. \A q \in Posts : PostedBy(q)' = PostedBy(q)
          BY <1>7 DEF Post!PlatformRefuses, Post!Call, PostedBy
    <2> QED BY <1>7, <2>1 DEF Post!PlatformRefuses, Post!Call
<1>8. ASSUME NEW a \in Post!Actors, Post!AnswerLost(a) PROVE Recorded'
    <2>1. \A q \in Posts : PostedBy(q)' = PostedBy(q)
          BY <1>8 DEF Post!AnswerLost, Post!Call, PostedBy
    <2>2. \A q \in Posts : Cardinality(PostedBy(q)) \in Nat
          BY FS_CardinalityType
    <2>3. \A q \in Posts :
              /\ copies'[q] - lost'[q] = copies[q] - lost[q]
              /\ lost'[q] \in Nat /\ copies'[q] \in Nat
          BY <1>8 DEF Post!AnswerLost, Post!Call
    <2>4. UNCHANGED <<status, completed>>
          BY <1>8 DEF Post!AnswerLost, Post!Call
    <2>5. ASSUME NEW q \in Posts
          PROVE  /\ IsFiniteSet(PostedBy(q)')
                 /\ status'[q] # "deleted" =>
                       copies'[q] = completed'[q] + lost'[q] + Cardinality(PostedBy(q)')
          <3>1. IsFiniteSet(PostedBy(q)) /\ Cardinality(PostedBy(q)) \in Nat
                BY <2>2
          <3>2. PostedBy(q)' = PostedBy(q)
                BY <2>1
          <3>3. status[q] # "deleted" =>
                    copies[q] = completed[q] + lost[q] + Cardinality(PostedBy(q))
                OBVIOUS
          <3>4. /\ copies[q] \in Nat /\ completed[q] \in Nat /\ lost[q] \in Nat
                /\ status'[q] = status[q] /\ completed'[q] = completed[q]
                BY <2>4
          <3> HIDE DEF Typed, Post!TypeOK, TaskFits, RowIsHeld, Recorded
          <3> QED BY <3>1, <3>2, <3>3, <3>4, <2>3
    <2> QED BY <2>5
<1>9. ASSUME NEW a \in Post!Actors, Post!CommitPosted(a) PROVE Recorded'
    <2>1. PICK p \in Posts : Post!WorksOn(a, p) /\ task[a].post = p /\ pc[a] = "posted"
          BY <1>9 DEF Post!CommitPosted, Post!Finish
    <2>2. PostedBy(p)' = PostedBy(p) \ {a} /\ a \in PostedBy(p)
          BY <1>9, <2>1 DEF Post!CommitPosted, Post!Finish, PostedBy
    <2>3. \A q \in Posts \ {p} : PostedBy(q)' = PostedBy(q)
          BY <1>9, <2>1 DEF Post!CommitPosted, Post!Finish, PostedBy
    <2>4. /\ IsFiniteSet(PostedBy(p)) /\ Cardinality(PostedBy(p)) \in Nat
          /\ IsFiniteSet(PostedBy(p)') /\ Cardinality(PostedBy(p)') = Cardinality(PostedBy(p)) - 1
          BY <2>1, <2>2, FS_RemoveElement, FS_CardinalityType
    <2> QED BY <1>9, <2>1, <2>3, <2>4 DEF Post!CommitPosted, Post!Finish
<1>10. ASSUME NEW a \in Post!Actors, Post!CommitFailed(a) PROVE Recorded'
    <2>1. \A q \in Posts : PostedBy(q)' = PostedBy(q)
          BY <1>10 DEF Post!CommitFailed, Post!Finish, PostedBy
    <2> QED BY <1>10, <2>1 DEF Post!CommitFailed, Post!Finish
<1>11. ASSUME NEW a \in Post!Actors, Post!RowIsGone(a) PROVE Recorded'
    <2>1. \A q \in Posts : PostedBy(q)' = PostedBy(q)
          BY <1>11 DEF Post!RowIsGone, Post!Abandon, PostedBy
    <2> QED BY <1>11, <2>1 DEF Post!RowIsGone, Post!Abandon
<1>12. ASSUME NEW a \in Post!Actors, Post!Crash(a) PROVE Recorded'
    <2>1. CASE pc[a] = "posted"
      <3>1. PICK p \in Posts : Post!WorksOn(a, p) /\ task[a].post = p /\ pc[a] = "posted"
            BY <1>12, <2>1 DEF Post!Crash, Post!Abandon
      <3>2. PostedBy(p)' = PostedBy(p) \ {a} /\ a \in PostedBy(p)
            BY <1>12, <2>1, <3>1 DEF Post!Crash, Post!Abandon, PostedBy
      <3>3. \A q \in Posts \ {p} : PostedBy(q)' = PostedBy(q)
            BY <1>12, <2>1, <3>1 DEF Post!Crash, Post!Abandon, PostedBy
      <3>4. /\ IsFiniteSet(PostedBy(p)) /\ Cardinality(PostedBy(p)) \in Nat
            /\ IsFiniteSet(PostedBy(p)') /\ Cardinality(PostedBy(p)') = Cardinality(PostedBy(p)) - 1
            BY <3>1, <3>2, FS_RemoveElement, FS_CardinalityType
      <3> QED BY <1>12, <2>1, <3>1, <3>3, <3>4 DEF Post!Crash, Post!Abandon
    <2>2. CASE pc[a] # "posted"
          <3>1. \A q \in Posts : PostedBy(q)' = PostedBy(q)
                BY <1>12, <2>2 DEF Post!Crash, Post!Abandon, PostedBy
          <3> QED BY <1>12, <2>2, <3>1 DEF Post!Crash, Post!Abandon
    <2> QED BY <2>1, <2>2
<1>13. ASSUME NEW w \in Workers, NEW p \in Posts, Post!RequestApproval(w, p) PROVE Recorded'
    BY <1>13 DEF Post!RequestApproval, Post!Begin, Post!NotePosts, Post!Busy, PostedBy
<1>14. ASSUME NEW w \in Workers, NEW p \in Posts, NEW kind \in Post!Decisions, Post!Decide(w,
              p, kind)
       PROVE  Recorded'
    BY <1>14 DEF Post!Decide, Post!Begin, Post!NotePosts, Post!Busy, PostedBy
<1>15. ASSUME NEW w \in Workers, NEW p \in Posts, NEW kind \in Post!LinkDecisions,
              Post!FollowLink(w, p, kind)
       PROVE  Recorded'
    BY <1>15 DEF Post!FollowLink, Post!Begin, Post!NotePosts, Post!Busy, PostedBy
<1>16. ASSUME NEW w \in Workers, NEW p \in Posts, Post!PublishNow(w, p) PROVE Recorded'
    BY <1>16 DEF Post!PublishNow, Post!Begin, Post!NotePosts, Post!Busy, PostedBy
<1>17. ASSUME NEW p \in Posts, Post!CreatePost(p) PROVE Recorded'
    BY <1>17 DEF Post!CreatePost, PostedBy
<1>18. ASSUME NEW p \in Posts, Post!CreateForApproval(p) PROVE Recorded'
    BY <1>18 DEF Post!CreateForApproval, PostedBy
<1>19. ASSUME NEW p \in Posts, Post!SendLink(p) PROVE Recorded'
    BY <1>19 DEF Post!SendLink, PostedBy
<1>20. ASSUME NEW p \in Posts, Post!Delete(p) PROVE Recorded'
    BY <1>20 DEF Post!Delete, Post!NotePosts, Post!Busy, PostedBy
<1>21. ASSUME NEW p \in Posts, Post!ScheduleComes(p) PROVE Recorded'
    <2>1. \A q \in Posts : PostedBy(q)' = PostedBy(q)
          BY <1>21 DEF Post!ScheduleComes, PostedBy
    <2> QED BY <1>21, <2>1 DEF Post!ScheduleComes
<1>22. ASSUME NEW p \in Posts, NEW time \in {"none", "future"}, Post!Edit(p, time)
       PROVE  Recorded'
    BY <1>22 DEF Post!Edit, Post!NotePosts, Post!Busy, PostedBy
<1>23. CASE UNCHANGED Post!vars
    BY <1>23 DEF Post!vars, PostedBy
<1> HIDE DEF Typed, Post!TypeOK, TaskFits, RowIsHeld, Recorded
<1> QED BY <1>1, <1>2, <1>3, <1>4, <1>5, <1>6, <1>7, <1>8, <1>9, <1>10, <1>11, <1>12, <1>13,
           <1>14, <1>15, <1>16, <1>17, <1>18, <1>19, <1>20, <1>21, <1>22, <1>23
    DEF Post!Next, Post!Job, Post!Request, Post!Publish, Post!RetryPublish

-----------------------------------------------------------------------------
(* Posts: the invariant and what follows from it.                           *)

PostInv == Typed /\ OneAtATime /\ ListIsApproved /\ UnpublishedIfWorkedOn /\ Recorded

\* There are no posts at the start, and nobody is at work.
LEMMA PostInit == ASSUME Post!Init PROVE PostInv
<1> USE Constants DEF Post!Init, Post!Actors, Post!Gone, Post!WorksOn, Post!NoTask, Post!Tasks
<1>1. Typed
      BY DEF Typed, Post!TypeOK, TaskFits, RowIsHeld
<1>2. OneAtATime /\ ListIsApproved /\ UnpublishedIfWorkedOn
      BY DEF OneAtATime, ListIsApproved, UnpublishedIfWorkedOn
<1>3. \A p \in Posts : PostedBy(p) = {}
      BY DEF PostedBy
<1>4. Recorded
      BY <1>3, FS_EmptySet DEF Recorded
<1> QED BY <1>1, <1>2, <1>4 DEF PostInv

LEMMA PostStep == ASSUME PostInv, [Post!Next]_(Post!vars)
                  PROVE  PostInv'
BY TypedStep, OneAtATimeStep, ListIsApprovedStep, UnpublishedStep, RecordedStep DEF PostInv

LEMMA PostPromises == ASSUME PostInv
                      PROVE  Post!TypeOK /\ Post!PublishedOnce /\ Post!PublicationsAreRecorded
<1>1. Post!TypeOK
      BY DEF PostInv, Typed
<1>2. Post!PublishedOnce
      BY DEF PostInv, UnpublishedIfWorkedOn, Post!PublishedOnce
<1>3. Post!PublicationsAreRecorded
      BY SameCardinality DEF PostInv, Recorded, PostedBy, Post!PublicationsAreRecorded
<1> QED BY <1>1, <1>2, <1>3

\* Only the platform's answers add a copy, and the job calls the platform with a post
\* that is approved.
LEMMA JobPublishesApprovedStep ==
    ASSUME PostInv, [Post!Next]_(Post!vars), NEW p \in Posts \ overlapped,
           pc[Scheduler] = "call", Post!WorksOn(Scheduler, p), copies'[p] > copies[p]
    PROVE  status[p] \in {"approved", "queued"}
BY DEF PostInv, ListIsApproved

-----------------------------------------------------------------------------
(* Audits.                                                                  *)

\* A task under way: what it does, the audit it is for, and the place it is about.
Work == [pc : {"search", "searching", "analyse", "details", "rivals"},
         audit : Audits, place : Places \cup {NoPlace}]

AuditTyped ==
    /\ audit \in [Audits -> Audit!Row]
    /\ auditing \in [Workers -> {Audit!Idle} \cup Work]
    /\ raced \subseteq Audits /\ died \subseteq Audits /\ alone \subseteq Audits
    /\ selects \in 0..MaxSelects

\* Completing an audit keeps the types.
LEMMA CompletedTyped == ASSUME AuditTyped, NEW t \in Workers, auditing[t] \in Work,
                               NEW found \in BOOLEAN, Audit!Completed(t, found)
                        PROVE  AuditTyped'
<1>1. auditing[t].audit \in Audits /\ auditing[t].place \in Places \cup {NoPlace}
    BY DEF Work
<1>2. PICK a \in Audits, row \in Audit!Row : auditing[t].audit = a /\ audit[a] = row
    BY <1>1 DEF AuditTyped
<1> DEFINE rivals == IF found THEN auditing[t].place ELSE row.rivals
           new == [row EXCEPT !.status = "completed", !.facts = auditing[t].place,
                              !.rivals = rivals]
<1>3. audit' = [audit EXCEPT ![a] = new]
    BY <1>2 DEF Audit!Completed, AuditTyped
<1>4. rivals \in Places \cup {NoPlace}
    BY <1>1 DEF Audit!Row
<1>5. new \in Audit!Row
    <2> HIDE DEF rivals
    <2> QED BY <1>1, <1>4 DEF Audit!Row, Audit!Statuses
<1>6. audit' \in [Audits -> Audit!Row]
    <2> HIDE DEF new
    <2> QED BY <1>3, <1>5 DEF AuditTyped
<1>7. auditing' \in [Workers -> {Audit!Idle} \cup Work]
    BY DEF Audit!Completed, Audit!End, AuditTyped
<1>8. alone' \subseteq Audits /\ UNCHANGED <<raced, died, selects>>
    BY <1>1 DEF Audit!Completed, AuditTyped
<1> QED BY <1>6, <1>7, <1>8 DEF AuditTyped

\* Every step keeps the types.
LEMMA AuditTypedStep == ASSUME AuditTyped, [Audit!Next]_(Audit!vars)
                        PROVE  AuditTyped'
<1> USE Constants
<1>1. ASSUME NEW t \in Workers, NEW a \in Audits, Audit!Start(t, a) PROVE AuditTyped'
    <2>1. audit' \in [Audits -> Audit!Row]
          BY <1>1 DEF Audit!Start, Audit!AddTask, AuditTyped, Audit!Row, Audit!Statuses
    <2>2. auditing' \in [Workers -> {Audit!Idle} \cup Work]
          BY <1>1 DEF Audit!Start, Audit!AddTask, AuditTyped, Work
    <2> QED BY <1>1, <2>1, <2>2 DEF Audit!Start, Audit!AddTask, AuditTyped
<1>2. ASSUME NEW t \in Workers, NEW a \in Audits, NEW p \in Places, Audit!Select(t, a, p)
      PROVE  AuditTyped'
    <2>1. audit' \in [Audits -> Audit!Row]
          BY <1>2 DEF Audit!Select, Audit!AddTask, AuditTyped, Audit!Row, Audit!Statuses
    <2>2. auditing' \in [Workers -> {Audit!Idle} \cup Work]
          BY <1>2 DEF Audit!Select, Audit!AddTask, AuditTyped, Work
    <2> QED BY <1>2, <2>1, <2>2 DEF Audit!Select, Audit!AddTask, AuditTyped
<1>3. ASSUME NEW t \in Workers, Audit!Search(t) PROVE AuditTyped'
    <2>1. audit \in [Audits -> Audit!Row] /\ auditing[t] \in Work
          BY <1>3 DEF Audit!Search, Audit!At, Audit!Go, AuditTyped, Audit!Idle
    <2>2. audit' \in [Audits -> Audit!Row]
          BY <1>3, <2>1 DEF Audit!Search, Audit!At, Audit!Go, Work, Audit!Row, Audit!Statuses
    <2>3. auditing' \in [Workers -> {Audit!Idle} \cup Work]
          BY <1>3, <2>1 DEF Audit!Search, Audit!At, Audit!Go, Work, AuditTyped
    <2> QED BY <1>3, <2>2, <2>3 DEF Audit!Search, AuditTyped
<1>4. ASSUME NEW t \in Workers, Audit!SearchUnavailable(t) PROVE AuditTyped'
    <2>1. audit \in [Audits -> Audit!Row] /\ auditing[t] \in Work
          BY <1>4 DEF Audit!SearchUnavailable, Audit!At, Audit!End, AuditTyped, Audit!Idle
    <2>2. audit' \in [Audits -> Audit!Row]
          BY <1>4, <2>1
             DEF Audit!SearchUnavailable, Audit!At, Audit!End, Work, Audit!Row, Audit!Statuses
    <2>3. auditing' \in [Workers -> {Audit!Idle} \cup Work]
          BY <1>4, <2>1 DEF Audit!SearchUnavailable, Audit!At, Audit!End, Work, AuditTyped
    <2> QED BY <1>4, <2>2, <2>3 DEF Audit!SearchUnavailable, AuditTyped
<1>5. ASSUME NEW t \in Workers, Audit!NoMatch(t) PROVE AuditTyped'
    <2>1. audit \in [Audits -> Audit!Row] /\ auditing[t] \in Work
          BY <1>5 DEF Audit!NoMatch, Audit!At, Audit!End, AuditTyped, Audit!Idle
    <2>2. audit' \in [Audits -> Audit!Row]
          BY <1>5, <2>1
             DEF Audit!NoMatch, Audit!At, Audit!End, Work, Audit!Row, Audit!Statuses
    <2>3. auditing' \in [Workers -> {Audit!Idle} \cup Work]
          BY <1>5, <2>1 DEF Audit!NoMatch, Audit!At, Audit!End, Work, AuditTyped
    <2> QED BY <1>5, <2>2, <2>3 DEF Audit!NoMatch, AuditTyped
<1>6. ASSUME NEW t \in Workers, NEW candidates \in SUBSET Places, Audit!ManyMatches(t, candidates)
      PROVE  AuditTyped'
    <2>1. audit \in [Audits -> Audit!Row] /\ auditing[t] \in Work
          BY <1>6 DEF Audit!ManyMatches, Audit!At, Audit!End, AuditTyped, Audit!Idle
    <2>2. audit' \in [Audits -> Audit!Row]
          BY <1>6, <2>1
             DEF Audit!ManyMatches, Audit!At, Audit!End, Work, Audit!Row, Audit!Statuses
    <2>3. auditing' \in [Workers -> {Audit!Idle} \cup Work]
          BY <1>6, <2>1 DEF Audit!ManyMatches, Audit!At, Audit!End, Work, AuditTyped
    <2> QED BY <1>6, <2>2, <2>3 DEF Audit!ManyMatches, AuditTyped
<1>7. ASSUME NEW t \in Workers, NEW p \in Places, Audit!OneMatch(t, p) PROVE AuditTyped'
    <2>1. audit \in [Audits -> Audit!Row] /\ auditing[t] \in Work
          BY <1>7 DEF Audit!OneMatch, Audit!At, AuditTyped, Audit!Idle
    <2>2. audit' \in [Audits -> Audit!Row]
          <3>1. PICK a \in Audits, row \in Audit!Row : auditing[t].audit = a /\ audit[a] = row
                BY <2>1 DEF Work
          <3>2. audit' = [audit EXCEPT ![a] = [row EXCEPT !.candidates = {p}, !.place = p,
                                                          !.status = "analyzing"]]
                BY <1>7, <2>1, <3>1 DEF Audit!OneMatch
          <3>3. [row EXCEPT !.candidates = {p}, !.place = p, !.status = "analyzing"] \in Audit!Row
                BY DEF Audit!Row, Audit!Statuses
          <3> QED BY <2>1, <3>2, <3>3
    <2>3. PICK work \in Work : auditing[t] = work
          BY <2>1
    <2>4. auditing' = [auditing EXCEPT ![t] = [work EXCEPT !.pc = "details", !.place = p]]
          BY <1>7, <2>3 DEF Audit!OneMatch, Audit!At
    <2>5. auditing' \in [Workers -> {Audit!Idle} \cup Work]
          BY <2>3, <2>4 DEF Work, AuditTyped
    <2> QED BY <1>7, <2>2, <2>5 DEF Audit!OneMatch, AuditTyped
<1>8. ASSUME NEW t \in Workers, Audit!Analyse(t) PROVE AuditTyped'
    <2>1. audit \in [Audits -> Audit!Row] /\ auditing[t] \in Work
          BY <1>8 DEF Audit!Analyse, Audit!At, Audit!Go, AuditTyped, Audit!Idle
    <2>2. audit' \in [Audits -> Audit!Row]
          BY <1>8, <2>1 DEF Audit!Analyse, Audit!At, Audit!Go, Work, Audit!Row, Audit!Statuses
    <2>3. auditing' \in [Workers -> {Audit!Idle} \cup Work]
          BY <1>8, <2>1 DEF Audit!Analyse, Audit!At, Audit!Go, Work, AuditTyped
    <2> QED BY <1>8, <2>2, <2>3 DEF Audit!Analyse, AuditTyped
<1>9. ASSUME NEW t \in Workers, Audit!DetailsUnavailable(t) PROVE AuditTyped'
    <2>1. audit \in [Audits -> Audit!Row] /\ auditing[t] \in Work
          BY <1>9 DEF Audit!DetailsUnavailable, Audit!At, Audit!End, AuditTyped, Audit!Idle
    <2>2. audit' \in [Audits -> Audit!Row]
          BY <1>9, <2>1
             DEF Audit!DetailsUnavailable, Audit!At, Audit!End, Work, Audit!Row,
                 Audit!Statuses
    <2>3. auditing' \in [Workers -> {Audit!Idle} \cup Work]
          BY <1>9, <2>1 DEF Audit!DetailsUnavailable, Audit!At, Audit!End, Work, AuditTyped
    <2> QED BY <1>9, <2>2, <2>3 DEF Audit!DetailsUnavailable, AuditTyped
<1>10. ASSUME NEW t \in Workers, Audit!Located(t) PROVE AuditTyped'
    <2>1. audit \in [Audits -> Audit!Row] /\ auditing[t] \in Work
          BY <1>10 DEF Audit!Located, Audit!At, Audit!Go, AuditTyped, Audit!Idle
    <2>2. audit' \in [Audits -> Audit!Row]
          BY <1>10, <2>1
             DEF Audit!Located, Audit!At, Audit!Go, Work, Audit!Row, Audit!Statuses
    <2>3. auditing' \in [Workers -> {Audit!Idle} \cup Work]
          BY <1>10, <2>1 DEF Audit!Located, Audit!At, Audit!Go, Work, AuditTyped
    <2> QED BY <1>10, <2>2, <2>3 DEF Audit!Located, AuditTyped
<1>11. ASSUME NEW t \in Workers, Audit!NotLocated(t) PROVE AuditTyped'
    <2>1. auditing[t] \in Work
          BY <1>11 DEF Audit!NotLocated, Audit!At, AuditTyped, Audit!Idle
    <2> QED BY <1>11, <2>1, CompletedTyped DEF Audit!NotLocated
<1>12. ASSUME NEW t \in Workers, Audit!RivalsUnavailable(t) PROVE AuditTyped'
    <2>1. audit \in [Audits -> Audit!Row] /\ auditing[t] \in Work
          BY <1>12 DEF Audit!RivalsUnavailable, Audit!At, Audit!End, AuditTyped, Audit!Idle
    <2>2. audit' \in [Audits -> Audit!Row]
          BY <1>12, <2>1
             DEF Audit!RivalsUnavailable, Audit!At, Audit!End, Work, Audit!Row, Audit!Statuses
    <2>3. auditing' \in [Workers -> {Audit!Idle} \cup Work]
          BY <1>12, <2>1 DEF Audit!RivalsUnavailable, Audit!At, Audit!End, Work, AuditTyped
    <2> QED BY <1>12, <2>2, <2>3 DEF Audit!RivalsUnavailable, AuditTyped
<1>13. ASSUME NEW t \in Workers, Audit!NoRivals(t) PROVE AuditTyped'
    <2>1. auditing[t] \in Work
          BY <1>13 DEF Audit!NoRivals, Audit!At, AuditTyped, Audit!Idle
    <2> QED BY <1>13, <2>1, CompletedTyped DEF Audit!NoRivals
<1>14. ASSUME NEW t \in Workers, Audit!SomeRivals(t) PROVE AuditTyped'
    <2>1. auditing[t] \in Work
          BY <1>14 DEF Audit!SomeRivals, Audit!At, AuditTyped, Audit!Idle
    <2> QED BY <1>14, <2>1, CompletedTyped DEF Audit!SomeRivals
<1>15. ASSUME NEW t \in Workers, Audit!Dies(t) PROVE AuditTyped'
    <2>1. audit \in [Audits -> Audit!Row] /\ auditing[t] \in Work
          BY <1>15 DEF Audit!Dies, Audit!End, AuditTyped, Audit!Idle
    <2>2. audit' \in [Audits -> Audit!Row]
          BY <1>15, <2>1 DEF Audit!Dies, Audit!End, Work, Audit!Row, Audit!Statuses
    <2>3. auditing' \in [Workers -> {Audit!Idle} \cup Work]
          BY <1>15, <2>1 DEF Audit!Dies, Audit!End, Work, AuditTyped
    <2>4. auditing[t].audit \in Audits
          BY <2>1 DEF Work
    <2> QED BY <1>15, <2>2, <2>3, <2>4 DEF Audit!Dies, AuditTyped
<1>16. CASE UNCHANGED Audit!vars
    BY <1>16 DEF Audit!vars, AuditTyped
<1> QED BY <1>1, <1>2, <1>3, <1>4, <1>5, <1>6, <1>7, <1>8, <1>9, <1>10, <1>11, <1>12, <1>13,
           <1>14, <1>15, <1>16
    DEF Audit!Next, Audit!Step

\* A task is under way for the audit.
For(t, a) == auditing[t] # Audit!Idle /\ auditing[t].audit = a

\* An audit that is not in raced has one task under way at most, and none before it
\* is started or once it is completed; while the task reads and stores what it
\* found, the row names the place the task is about.
OneTask == \A a \in Audits \ raced : \A t \in Workers :
    For(t, a) =>
        /\ \A s \in Workers : For(s, a) => s = t
        /\ audit[a].status \notin {"none", "completed"}
        /\ auditing[t].pc = "analyse" => auditing[t].place # NoPlace
        /\ auditing[t].pc \in {"details", "rivals"} =>
              audit[a].place = auditing[t].place /\ auditing[t].place # NoPlace

AuditInv == AuditTyped /\ OneTask /\ Audit!ResultIsOfThePlace

\* No audit is started and no task is under way.
LEMMA AuditInit == ASSUME Audit!Init PROVE AuditInv
BY Constants
   DEF Audit!Init, AuditInv, AuditTyped, OneTask, For,
       Audit!ResultIsOfThePlace, Audit!Row, Audit!NoRow, Audit!Statuses, Audit!Idle

\* A single task that completes its audit leaves the numbers of the place the row names.
LEMMA CompletedFits == ASSUME AuditInv, NEW t \in Workers, auditing[t] \in Work,
                              auditing[t].pc \in {"details", "rivals"},
                              NEW found \in BOOLEAN, Audit!Completed(t, found)
                       PROVE  (OneTask /\ Audit!ResultIsOfThePlace)'
<1>1. PICK a \in Audits : For(t, a)
    BY DEF Work, For, Audit!Idle
<1>2. /\ audit'[a].status = "completed"
      /\ audit'[a].facts = auditing[t].place
      /\ a \notin alone' => audit'[a].rivals = auditing[t].place
      /\ audit'[a].place = audit[a].place
      /\ \A b \in Audits \ {a} : audit'[b] = audit[b] /\ (b \notin alone' => b \notin alone)
    BY <1>1 DEF Audit!Completed, AuditInv, AuditTyped, Audit!Row, For
<1>3. /\ auditing'[t] = Audit!Idle
      /\ \A s \in Workers \ {t} : auditing'[s] = auditing[s]
    BY DEF Audit!Completed, Audit!End, AuditInv, AuditTyped
<1>4. UNCHANGED raced
    BY DEF Audit!Completed
<1>5. OneTask'
    BY <1>1, <1>2, <1>3, <1>4 DEF AuditInv, OneTask, For
<1>6. a \notin raced => audit[a].place = auditing[t].place /\ auditing[t].place # NoPlace
    BY <1>1 DEF AuditInv, OneTask
<1>7. Audit!ResultIsOfThePlace'
    BY <1>2, <1>4, <1>6 DEF AuditInv, Audit!ResultIsOfThePlace
<1> QED BY <1>5, <1>7

\* A second task for an audit puts it into raced; a single one ends with the place, the
\* details and the competitors of the business it was started for.
LEMMA AuditStep == ASSUME AuditInv, [Audit!Next]_(Audit!vars)
                   PROVE  (OneTask /\ Audit!ResultIsOfThePlace)'
<1> USE Constants DEF AuditInv, AuditTyped, Work, OneTask, For,
        Audit!ResultIsOfThePlace, Audit!Row, Audit!Statuses, Audit!Idle
<1>1. ASSUME NEW t \in Workers, NEW a \in Audits, Audit!Start(t, a)
      PROVE  (OneTask /\ Audit!ResultIsOfThePlace)'
    BY <1>1 DEF Audit!Start, Audit!AddTask
<1>2. ASSUME NEW t \in Workers, NEW a \in Audits, NEW p \in Places, Audit!Select(t, a, p)
      PROVE  (OneTask /\ Audit!ResultIsOfThePlace)'
    BY <1>2 DEF Audit!Select, Audit!AddTask, Audit!TaskOf
<1>3. ASSUME NEW t \in Workers, Audit!Search(t) PROVE (OneTask /\ Audit!ResultIsOfThePlace)'
    BY <1>3 DEF Audit!Search, Audit!At, Audit!Go
<1>4. ASSUME NEW t \in Workers, Audit!SearchUnavailable(t)
      PROVE  (OneTask /\ Audit!ResultIsOfThePlace)'
    BY <1>4 DEF Audit!SearchUnavailable, Audit!At, Audit!End
<1>5. ASSUME NEW t \in Workers, Audit!NoMatch(t) PROVE (OneTask /\ Audit!ResultIsOfThePlace)'
    BY <1>5 DEF Audit!NoMatch, Audit!At, Audit!End
<1>6. ASSUME NEW t \in Workers, NEW candidates \in SUBSET Places, Audit!ManyMatches(t,
             candidates)
      PROVE  (OneTask /\ Audit!ResultIsOfThePlace)'
    BY <1>6 DEF Audit!ManyMatches, Audit!At, Audit!End
<1>7. ASSUME NEW t \in Workers, NEW p \in Places, Audit!OneMatch(t, p)
      PROVE  (OneTask /\ Audit!ResultIsOfThePlace)'
    <2>1. PICK a \in Audits : For(t, a)
          BY <1>7 DEF Audit!OneMatch, Audit!At
    <2>2. /\ audit'[a].status = "analyzing" /\ audit'[a].place = p
          /\ \A b \in Audits \ {a} : audit'[b] = audit[b]
          BY <1>7, <2>1 DEF Audit!OneMatch
    <2>3. /\ auditing'[t].audit = a /\ auditing'[t].place = p /\ auditing'[t].pc = "details"
          /\ \A s \in Workers \ {t} : auditing'[s] = auditing[s]
          BY <1>7, <2>1 DEF Audit!OneMatch
    <2>4. p # NoPlace /\ UNCHANGED <<raced, alone>>
          BY <1>7 DEF Audit!OneMatch
    <2>5. OneTask'
          BY <2>1, <2>2, <2>3, <2>4
    <2>6. Audit!ResultIsOfThePlace'
          BY <2>1, <2>2, <2>4
    <2> QED BY <2>5, <2>6
<1>8. ASSUME NEW t \in Workers, Audit!Analyse(t) PROVE (OneTask /\ Audit!ResultIsOfThePlace)'
    BY <1>8 DEF Audit!Analyse, Audit!At, Audit!Go
<1>9. ASSUME NEW t \in Workers, Audit!DetailsUnavailable(t)
      PROVE  (OneTask /\ Audit!ResultIsOfThePlace)'
    BY <1>9 DEF Audit!DetailsUnavailable, Audit!At, Audit!End
<1>10. ASSUME NEW t \in Workers, Audit!Located(t) PROVE (OneTask /\ Audit!ResultIsOfThePlace)'
    BY <1>10 DEF Audit!Located, Audit!At, Audit!Go
<1>11. ASSUME NEW t \in Workers, Audit!NotLocated(t)
       PROVE  (OneTask /\ Audit!ResultIsOfThePlace)'
    <2>1. auditing[t] \in Work /\ auditing[t].pc \in {"details", "rivals"}
          BY <1>11 DEF Audit!NotLocated, Audit!At
    <2> QED BY <1>11, <2>1, CompletedFits DEF Audit!NotLocated
<1>12. ASSUME NEW t \in Workers, Audit!RivalsUnavailable(t)
       PROVE  (OneTask /\ Audit!ResultIsOfThePlace)'
    BY <1>12 DEF Audit!RivalsUnavailable, Audit!At, Audit!End
<1>13. ASSUME NEW t \in Workers, Audit!NoRivals(t)
       PROVE  (OneTask /\ Audit!ResultIsOfThePlace)'
    <2>1. auditing[t] \in Work /\ auditing[t].pc \in {"details", "rivals"}
          BY <1>13 DEF Audit!NoRivals, Audit!At
    <2> QED BY <1>13, <2>1, CompletedFits DEF Audit!NoRivals
<1>14. ASSUME NEW t \in Workers, Audit!SomeRivals(t)
       PROVE  (OneTask /\ Audit!ResultIsOfThePlace)'
    <2>1. auditing[t] \in Work /\ auditing[t].pc \in {"details", "rivals"}
          BY <1>14 DEF Audit!SomeRivals, Audit!At
    <2> QED BY <1>14, <2>1, CompletedFits DEF Audit!SomeRivals
<1>15. ASSUME NEW t \in Workers, Audit!Dies(t) PROVE (OneTask /\ Audit!ResultIsOfThePlace)'
    BY <1>15 DEF Audit!Dies, Audit!End
<1>16. CASE UNCHANGED Audit!vars
    BY <1>16 DEF Audit!vars
<1> HIDE DEF AuditInv, AuditTyped, OneTask, Audit!ResultIsOfThePlace
<1> QED BY <1>1, <1>2, <1>3, <1>4, <1>5, <1>6, <1>7, <1>8, <1>9, <1>10, <1>11, <1>12, <1>13,
           <1>14, <1>15, <1>16
    DEF Audit!Next, Audit!Step

-----------------------------------------------------------------------------
(* The composition.                                                         *)

\* A step of the composition is a step of each component or leaves it alone.
LEMMA StepIsOfComponents ==
    ASSUME [Next]_vars
    PROVE  [Post!Next]_(Post!vars) /\ [Audit!Next]_(Audit!vars)
<1>1. CASE NextPost
  <2>1. Post!Next
        <3> USE DEF Post!Next, Post!Job, Post!Request, Post!Publish, Post!Actors
        <3>1. \A a \in Post!Actors :
                 Post!Publish(a) \/ Post!RowIsGone(a) \/ Post!Crash(a) => Post!Next
              OBVIOUS
        <3> QED BY <1>1, <3>1 DEF NextPost, OnlyPost
  <2>2. UNCHANGED Audit!vars
        BY <1>1 DEF NextPost, OnlyPost, auditVars, Audit!vars
  <2> QED BY <2>1, <2>2
<1>2. CASE NextAudit
  <2>1. Audit!Next
        BY <1>2 DEF NextAudit, OnlyAudit, Audit!Next, Audit!Step
  <2>2. UNCHANGED Post!vars
        BY <1>2
           DEF NextAudit, OnlyAudit, postVars, Post!vars, Post!row, Post!history, Post!bounds
  <2> QED BY <2>1, <2>2
<1>3. CASE UNCHANGED vars
      BY <1>3 DEF vars, postVars, auditVars, Post!vars, Post!row, Post!history,
                  Post!bounds, Audit!vars
<1> QED BY <1>1, <1>2, <1>3 DEF Next

\* Posts and audits keep their invariants.
LEMMA Invariants == FairSpec => [](PostInv /\ AuditInv)
<1>1. Init => PostInv /\ AuditInv
      BY PostInit, AuditInit DEF Init
<1>2. PostInv /\ AuditInv /\ [Next]_vars => (PostInv /\ AuditInv)'
      BY StepIsOfComponents, PostStep, AuditTypedStep, AuditStep DEF AuditInv
<1> QED BY <1>1, <1>2, PTL DEF FairSpec

\* The rows, the places of the actors and the tasks have their types.
THEOREM TypesCorrect == FairSpec => []TypeOK
<1>1. PostInv /\ AuditInv => TypeOK
      BY DEF TypeOK, PostInv, Typed, AuditInv, AuditTyped, Audit!TypeOK, Work
<1> QED BY <1>1, Invariants, PTL

\* "Post already published": a post that no two actors worked on at once, of which no
\* commit was lost and that no signed link took back is on the platform at most once,
\* for any number of posts, workers, retries and rejections.
THEOREM PostsPublishedOnce == FairSpec => []PublishedOnce
<1>1. PostInv => PublishedOnce
      BY PostPromises DEF PublishedOnce
<1> QED BY <1>1, Invariants, PTL

\* The COMPLETED publish jobs of a post that is not deleted account for every copy on the
\* platform, but for those whose commit is to come or was lost, for any interleaving.
THEOREM AllPublicationsRecorded == FairSpec => []PublicationsAreRecorded
<1>1. PostInv => PublicationsAreRecorded
      BY PostPromises DEF PublicationsAreRecorded
<1> QED BY <1>1, Invariants, PTL

\* "If approved, post is queued for publishing": the job, which read its list long ago,
\* publishes no post that is not approved unless two actors worked on it at once.
THEOREM OnlyApprovedPublished == FairSpec => JobPublishesApproved
<1>1. PostInv /\ [Next]_vars =>
          [\A p \in Posts \ overlapped :
              pc[Scheduler] = "call" /\ Post!WorksOn(Scheduler, p) /\ copies'[p] > copies[p]
                  => status[p] \in {"approved", "queued"}]_(Post!vars)
      BY StepIsOfComponents, JobPublishesApprovedStep
<1> QED BY <1>1, Invariants, PTL DEF FairSpec, JobPublishesApproved, Post!JobPublishesApproved

\* A completed audit shows the details of the business it names and, unless its last
\* analysis found or sought none, that business's competitors, whatever was chosen, found
\* and interrupted, unless two of its tasks raced.
THEOREM AuditResultsFit == FairSpec => []ResultIsOfThePlace
<1>1. AuditInv => ResultIsOfThePlace
      BY DEF AuditInv, ResultIsOfThePlace
<1> QED BY <1>1, Invariants, PTL
====
