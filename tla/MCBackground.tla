---- MODULE MCBackground ----
(***************************************************************************)
(* The work done in the background, for TLC: posts, which the publisher's  *)
(* job takes up (Post), and audits, which tasks started by requests carry  *)
(* out (Audit).  They share no state, so each behaviour is one             *)
(* component's; the other stays in its initial state.                      *)
(***************************************************************************)
EXTENDS Integers

CONSTANTS Workers, Posts, Scheduler, MaxRequests, MaxPublishes, MaxEdits, MaxFaults,
          Audits, Places, NoPlace, MaxSelects, MaxDeaths

VARIABLES
    subject,  \* whose behaviour this is
    status, token, schedule, completed, links, pc, task, batch, copies, lost,
    overlapped, reopened, requests, publishes, edits, faults,
    audit, auditing, raced, died, alone, selects

postVars == <<status, token, schedule, completed, links, pc, task, batch, copies, lost,
              overlapped, reopened, requests, publishes, edits, faults>>
auditVars == <<audit, auditing, raced, died, alone, selects>>
vars == <<subject, postVars, auditVars>>

Post == INSTANCE PostPublishing
Audit == INSTANCE OnboardingAudits WITH Tasks <- Workers, doing <- auditing

ASSUME BackgroundAssumption ==
    Post!PostPublishingAssumption /\ Audit!OnboardingAuditsAssumption

Init == subject \in {"post", "audit"} /\ Post!Init /\ Audit!Init

OnlyPost == subject = "post" /\ UNCHANGED <<subject, auditVars>>
OnlyAudit == subject = "audit" /\ UNCHANGED <<subject, postVars>>

NextPost ==
    \/ OnlyPost /\ Post!StartBatch
    \/ OnlyPost /\ Post!NextOfBatch
    \/ OnlyPost /\ Post!EndBatch
    \/ \E p \in Posts : OnlyPost /\ Post!ScheduleComes(p)
    \/ \E p \in Posts, time \in {"none", "future"} : OnlyPost /\ Post!Edit(p, time)
    \/ \E w \in Workers, p \in Posts :
          \/ OnlyPost /\ Post!RequestApproval(w, p)
          \/ \E kind \in Post!Decisions : OnlyPost /\ Post!Decide(w, p, kind)
          \/ \E kind \in Post!LinkDecisions : OnlyPost /\ Post!FollowLink(w, p, kind)
          \/ OnlyPost /\ Post!PublishNow(w, p)
          \/ OnlyPost /\ Post!RetryPublish(w, p)
    \/ \E p \in Posts :
          \/ OnlyPost /\ Post!CreatePost(p)
          \/ OnlyPost /\ Post!CreateForApproval(p)
          \/ OnlyPost /\ Post!SendLink(p)
          \/ OnlyPost /\ Post!Delete(p)
    \/ \E w \in Workers :
          \/ OnlyPost /\ Post!Commit(w)
          \/ OnlyPost /\ Post!CommitFailedAgain(w)
    \/ \E a \in Post!Actors :
          \/ OnlyPost /\ Post!PlatformPublishes(a)
          \/ OnlyPost /\ Post!PlatformRefuses(a)
          \/ OnlyPost /\ Post!AnswerLost(a)
          \/ OnlyPost /\ Post!CommitPosted(a)
          \/ OnlyPost /\ Post!CommitFailed(a)
          \/ OnlyPost /\ Post!RowIsGone(a)
          \/ OnlyPost /\ Post!Crash(a)

NextAudit == \E t \in Workers :
    \/ \E a \in Audits : OnlyAudit /\ Audit!Start(t, a)
    \/ \E a \in Audits, p \in Places : OnlyAudit /\ Audit!Select(t, a, p)
    \/ OnlyAudit /\ Audit!Search(t)
    \/ OnlyAudit /\ Audit!SearchUnavailable(t)
    \/ OnlyAudit /\ Audit!NoMatch(t)
    \/ \E candidates \in SUBSET Places : OnlyAudit /\ Audit!ManyMatches(t, candidates)
    \/ \E p \in Places : OnlyAudit /\ Audit!OneMatch(t, p)
    \/ OnlyAudit /\ Audit!Analyse(t)
    \/ OnlyAudit /\ Audit!DetailsUnavailable(t)
    \/ OnlyAudit /\ Audit!Located(t)
    \/ OnlyAudit /\ Audit!NotLocated(t)
    \/ OnlyAudit /\ Audit!RivalsUnavailable(t)
    \/ OnlyAudit /\ Audit!NoRivals(t)
    \/ OnlyAudit /\ Audit!SomeRivals(t)
    \/ OnlyAudit /\ Audit!Dies(t)

Next == NextPost \/ NextAudit

\* The components' own fairness, of the component whose behaviour this is; a
\* worker serves a request or carries out a task.
Serve(w) == (OnlyPost /\ Post!Request(w)) \/ (OnlyAudit /\ Audit!Step(w))
FairSpec ==
    /\ Init /\ [][Next]_vars
    /\ WF_vars(OnlyPost /\ Post!Job)
    /\ \A w \in Workers : WF_vars(Serve(w))
    /\ \A p \in Posts : WF_vars(OnlyPost /\ Post!ScheduleComes(p))

-----------------------------------------------------------------------------
\* The components' types.
TypeOK == Post!TypeOK /\ Audit!TypeOK

\* The components' other properties, under their own names.
PublishedOnce == Post!PublishedOnce
PublicationsAreRecorded == Post!PublicationsAreRecorded
JobPublishesApproved == Post!JobPublishesApproved
ApprovedIsHandled == Post!ApprovedIsHandled
ResultIsOfThePlace == Audit!ResultIsOfThePlace
AuditsEnd == Audit!AuditsEnd
====
