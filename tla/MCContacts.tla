---- MODULE MCContacts ----
(***************************************************************************)
(* The components that write to customers, for TLC: review requests        *)
(* (Request), texts after missed calls (Call), replies to reviews (Reply), *)
(* answers to messages (Social).  They share no state, so each behaviour   *)
(* is one component's; the others stay in their initial state.             *)
(***************************************************************************)
EXTENDS Integers

CONSTANTS Requests, TwilioStatuses, MaxAttempts, MaxAgain,
          Workers, Calls, NoCall, MaxMessages, MaxReads,
          Drafts, NoDraft, MaxRetries, MaxRejects,
          Messages, NoMessage, MaxAnswering, MaxUpdates, MaxFaults

VARIABLES
    subject,  \* whose behaviour this is
    request, archived, totalSent, optouts, pc, batch, current, seen, callbacks,
    texts, again, told, excused, faults,
    logged, texted, missed, smsSent, thread, unread, doing,
    callTexts, alerted, callExcused, unseen, overlapped, messages, reads, callFaults,
    row, live, replying, asked, replies, rivals, lost, crashed, retries, rejects, replyFaults,
    settings, arrived, socialReplies, socialLog, serving, socialAsked, unlogged, afterOff,
    answering, updates, socialFaults

requestVars == <<request, archived, totalSent, optouts, pc, batch, current, seen, callbacks,
                 texts, again, told, excused, faults>>
callVars == <<logged, texted, missed, smsSent, thread, unread, doing, callTexts, alerted,
              callExcused, unseen, overlapped, messages, reads, callFaults>>
replyVars == <<row, live, replying, asked, replies, rivals, lost, crashed, retries, rejects,
               replyFaults>>
socialVars == <<settings, arrived, socialReplies, socialLog, serving, socialAsked, unlogged,
                afterOff, answering, updates, socialFaults>>
vars == <<subject, requestVars, callVars, replyVars, socialVars>>

Request == INSTANCE ReviewRequests
Call == INSTANCE MissedCalls WITH
    texts <- callTexts, excused <- callExcused, faults <- callFaults
Reply == INSTANCE ReviewResponses WITH doing <- replying, faults <- replyFaults
Social == INSTANCE SocialReplies WITH
    replies <- socialReplies, logged <- socialLog, doing <- serving, asked <- socialAsked,
    faults <- socialFaults

ASSUME ContactsAssumption ==
    /\ Request!ReviewRequestsAssumption
    /\ Call!MissedCallsAssumption
    /\ Reply!ReviewResponsesAssumption
    /\ Social!SocialRepliesAssumption

Init ==
    /\ subject \in {"request", "call", "reply", "social"}
    /\ Request!Init /\ Call!Init /\ Reply!Init /\ Social!Init

OnlyRequest == /\ subject = "request"
               /\ UNCHANGED <<subject, callVars, replyVars, socialVars>>
OnlyCall == /\ subject = "call"
            /\ UNCHANGED <<subject, requestVars, replyVars, socialVars>>
OnlyReply == /\ subject = "reply"
             /\ UNCHANGED <<subject, requestVars, callVars, socialVars>>
OnlySocial == /\ subject = "social"
              /\ UNCHANGED <<subject, requestVars, callVars, replyVars>>

NextRequest ==
    \/ \E r \in Requests, channel \in Request!Channels, contacts \in SUBSET Request!Channels :
          OnlyRequest /\ Request!Create(r, channel, contacts)
    \/ \E r \in Requests : OnlyRequest /\ Request!Requeue(r)
    \/ \E r \in Requests : OnlyRequest /\ Request!RetryComes(r)
    \/ OnlyRequest /\ Request!Archive
    \/ \E channel \in Request!Channels : OnlyRequest /\ Request!OptOut(channel)
    \/ OnlyRequest /\ Request!StartRun
    \/ OnlyRequest /\ Request!EndRun
    \/ OnlyRequest /\ Request!Take
    \/ OnlyRequest /\ Request!Preview
    \/ OnlyRequest /\ Request!ProviderAccepts
    \/ OnlyRequest /\ Request!ProviderRefuses
    \/ OnlyRequest /\ Request!MarkSent
    \/ OnlyRequest /\ Request!RecordFailure
    \/ OnlyRequest /\ Request!NotifyOwner
    \/ OnlyRequest /\ Request!AnswerLost
    \/ OnlyRequest /\ Request!Crash
    \/ \E c \in callbacks : OnlyRequest /\ Request!Callback(c)

NextCall == \E w \in Workers :
    \/ \E c \in Calls : OnlyCall /\ Call!LogCall(w, c)
    \/ OnlyCall /\ Call!ReadCounts(w)
    \/ OnlyCall /\ Call!CommitCounts(w)
    \/ OnlyCall /\ Call!Preview(w)
    \/ OnlyCall /\ Call!TwilioAccepts(w)
    \/ OnlyCall /\ Call!TwilioRefuses(w)
    \/ OnlyCall /\ Call!AnswerLost(w)
    \/ OnlyCall /\ Call!FindThread(w)
    \/ OnlyCall /\ Call!CreateThread(w)
    \/ OnlyCall /\ Call!LoseThreadRace(w)
    \/ OnlyCall /\ Call!FileText(w)
    \/ OnlyCall /\ Call!AlertOwner(w)
    \/ OnlyCall /\ Call!Crash(w)
    \/ OnlyCall /\ Call!Receive(w)
    \/ OnlyCall /\ Call!OpenThread(w)
    \/ OnlyCall /\ Call!StoreMessage(w)
    \/ OnlyCall /\ Call!ReadThread(w)
    \/ OnlyCall /\ Call!MarkRead(w)

NextReply == \E w \in Workers :
    \/ \E draft \in Drafts : OnlyReply /\ Reply!Generate(w, draft)
    \/ \E edit \in Drafts \cup {NoDraft} : OnlyReply /\ Reply!Approve(w, edit)
    \/ OnlyReply /\ Reply!Retry(w)
    \/ OnlyReply /\ Reply!Reject(w)
    \/ OnlyReply /\ Reply!Insert(w)
    \/ OnlyReply /\ Reply!CommitApproval(w)
    \/ OnlyReply /\ Reply!CommitRetry(w)
    \/ OnlyReply /\ Reply!CommitRejection(w)
    \/ OnlyReply /\ Reply!Load(w)
    \/ OnlyReply /\ Reply!ReplyAccepted(w)
    \/ OnlyReply /\ Reply!ReplyRefused(w)
    \/ OnlyReply /\ Reply!RecordPublished(w)
    \/ OnlyReply /\ Reply!RecordFailed(w)
    \/ OnlyReply /\ Reply!AnswerLost(w)
    \/ OnlyReply /\ Reply!Crash(w)

NextSocial ==
    \/ \E m \in Messages : OnlySocial /\ Social!Arrive(m)
    \/ \E new \in Social!Settings : OnlySocial /\ Social!Update(new)
    \/ \E w \in Workers :
          \/ OnlySocial /\ Social!Start(w)
          \/ OnlySocial /\ Social!CreateSettings(w)
          \/ OnlySocial /\ Social!List(w)
          \/ OnlySocial /\ Social!Skip(w)
          \/ OnlySocial /\ Social!Take(w)
          \/ OnlySocial /\ Social!EndRun(w)
          \/ OnlySocial /\ Social!Compose(w)
          \/ \E m \in Messages : OnlySocial /\ Social!Respond(w, m)
          \/ OnlySocial /\ Social!Accepted(w)
          \/ OnlySocial /\ Social!Refused(w)
          \/ OnlySocial /\ Social!AnswerLost(w)
          \/ OnlySocial /\ Social!Log(w)
          \/ OnlySocial /\ Social!Crash(w)

Next == NextRequest \/ NextCall \/ NextReply \/ NextSocial

\* The components' own fairness, of the component whose behaviour this is.
FairSpec ==
    /\ Init /\ [][Next]_vars
    /\ WF_vars(OnlyRequest /\ Request!Job)
    /\ \A r \in Requests : WF_vars(OnlyRequest /\ Request!RetryComes(r))
    /\ \A w \in Workers : WF_vars(OnlyReply /\ Reply!Serve(w))

-----------------------------------------------------------------------------
\* The components' types.
TypeOK == Request!TypeOK /\ Call!TypeOK /\ Reply!TypeOK /\ Social!TypeOK

\* Nothing goes out to a customer without a reason of its own (Deliveries): one
\* message per review request and recorded ground to repeat it, one text per logged
\* call, one reply per approval or retry, one answer per request that took a message
\* up, whatever overlaps, dies or comes twice.
MessagesHaveReasons ==
    /\ Request!SentOnceUnlessAgain
    /\ Call!OneTextPerCall
    /\ Reply!RepliesAreApproved
    /\ Social!AnswersAreAsked

\* What the owner reads agrees with what went out and came in: a campaign's count, a
\* number's counts of texts and of unread messages, the history of answers.
CountersMatchRows ==
    /\ Request!CampaignCountsRequests
    /\ Call!SentCountMatchesLogs
    /\ Call!UnreadIsExact
    /\ Social!AnswersAreLogged

\* Where the customer got nothing and nothing will try again, the owner was told: of
\* a review request that failed, of a missed call without its text.
FailuresReachOwner == Request!FailureIsReported /\ Call!TextOrAlert

\* What was accepted is seen to: a pending review request is processed, an approved
\* reply is published or reported.
AcceptedIsSeenTo == Request!PendingIsProcessed /\ Reply!ApprovedIsAnswered

\* The components' other properties, under their own names.
StatusTellsWhatIsLive == Reply!StatusTellsWhatIsLive
OffStopsReplies == Social!OffStopsReplies
====
