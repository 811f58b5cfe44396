---- MODULE ReviewRequests ----
(***************************************************************************)
(* The review requests of one campaign to one customer: owners create,     *)
(* requeue and archive (app/services/review_booster_service.py), a job     *)
(* sends what is pending or due for a retry every five minutes             *)
(* (app/jobs/review_booster_jobs.py), Twilio reports what became of each   *)
(* text, and the customer may opt out (app/routers/webhooks.py).           *)
(*                                                                         *)
(* The job reads its list once.  It commits when it takes a request, loads *)
(* the row again and stores the outcome after the provider's answer; the   *)
(* callbacks and the owner change the row meanwhile.                       *)
(***************************************************************************)
EXTENDS Integers, FiniteSets

CONSTANTS Requests,
          TwilioStatuses,  \* what Twilio's status callbacks report
          MaxAttempts,     \* MAX_RETRY_ATTEMPTS
          MaxAgain,        \* bound, per request: requeues and "queued" callbacks
          MaxFaults        \* bound: crashes, lost answers, repeated callbacks

\* What is assumed of the constants; the modules that instantiate this one state it.
ReviewRequestsAssumption ==
    /\ TwilioStatuses \subseteq {"queued", "sent", "delivered", "failed"}
    /\ MaxAttempts \in Nat \ {0}
    /\ MaxAgain \in Nat /\ MaxFaults \in Nat

VARIABLES
    request,     \* the booster_requests rows
    archived,    \* ReviewCampaign.status is COMPLETED
    totalSent,   \* ReviewCampaign.total_sent
    optouts,     \* review_optouts: the customer's phone, address or both
    pc, batch, current, seen,  \* the job: its place, list, request, loaded row
    callbacks,   \* Twilio's reports on their way
    texts,       \* history: messages the provider accepted, per request
    again,       \* history: reasons to send a request once more
    told,        \* history: requests whose failure was reported to the owner
    excused,     \* history: requests a crash or a report of Twilio's has hit
    faults       \* bound

job == <<pc, batch, current, seen>>
history == <<texts, again, told, excused>>
vars == <<request, archived, totalSent, optouts, job, callbacks, history, faults>>

Channels == {"sms", "email"}
Row == [status : {"none", "pending", "sent", "delivered", "failed", "opted_out"},
        channel : Channels, retries : Nat, retry : {"none", "waiting", "due"},
        sent : BOOLEAN]
NoRow == [status |-> "none", channel |-> "sms", retries |-> 0, retry |-> "none",
          sent |-> FALSE]

Init ==
    /\ request = [r \in Requests |-> NoRow]
    /\ archived = FALSE
    /\ totalSent = 0
    /\ optouts = {}
    /\ pc = "idle" /\ batch = {} /\ current = {} /\ seen = NoRow
    /\ callbacks = {}
    /\ texts = [r \in Requests |-> 0]
    /\ again = [r \in Requests |-> 0]
    /\ told = {}
    /\ excused = {}
    /\ faults = 0

-----------------------------------------------------------------------------
(* The owner and the customer. *)

\* ReviewBoosterService.send_request: a customer any of whose contacts has opted out
\* gets nothing.  The router wants the contact the channel needs.
Create(r, channel, contacts) ==
    /\ request[r].status = "none"
    /\ ~archived
    /\ channel \in contacts
    /\ request' = [request EXCEPT ![r].channel = channel,
                      ![r].status = IF contacts \cap optouts # {} THEN "opted_out" ELSE "pending"]
    /\ UNCHANGED <<archived, totalSent, optouts, job, callbacks, history, faults>>

\* delete_campaign
Archive ==
    /\ ~archived
    /\ archived' = TRUE
    /\ UNCHANGED <<request, totalSent, optouts, job, callbacks, history, faults>>

\* add_optout, of the owner's page or of a STOP
OptOut(channel) ==
    /\ channel \notin optouts
    /\ optouts' = optouts \cup {channel}
    /\ UNCHANGED <<request, archived, totalSent, job, callbacks, history, faults>>

\* requeue_request
Requeue(r) ==
    /\ again[r] < MaxAgain
    /\ again' = [again EXCEPT ![r] = @ + 1]
    /\ request[r].status = "failed"
    /\ request' = [request EXCEPT ![r].status = "pending", ![r].retries = 0,
                                  ![r].retry = "none"]
    /\ told' = told \ {r}
    /\ UNCHANGED <<archived, totalSent, optouts, job, callbacks, texts, excused, faults>>

RetryComes(r) ==
    /\ request[r].retry = "waiting"
    /\ request' = [request EXCEPT ![r].retry = "due"]
    /\ UNCHANGED <<archived, totalSent, optouts, job, callbacks, history, faults>>

-----------------------------------------------------------------------------
(* process_pending_review_requests *)

\* Mutant: requests that failed are left to the owner.
IsReadyPendingOnly(r) == request[r].status = "pending"

IsReady(r) ==
    \/ request[r].status = "pending"
    \/ /\ request[r].status = "failed"
       /\ request[r].retries < MaxAttempts
       /\ request[r].retry = "due"

StartRun ==
    /\ pc = "idle"
    /\ batch' = {r \in Requests : IsReady(r)}
    /\ batch' # {}
    /\ pc' = "batch"
    /\ UNCHANGED <<request, archived, totalSent, optouts, current, seen, callbacks,
                   history, faults>>

EndRun ==
    /\ pc = "batch" /\ batch = {}
    /\ pc' = "idle"
    /\ UNCHANGED <<request, archived, totalSent, optouts, batch, current, seen,
                   callbacks, history, faults>>

\* send_review_request commits that the attempt began and loads the row again.
\* Nobody looks at its status.
Take ==
    /\ pc = "batch"
    /\ \E r \in batch :
          /\ batch' = batch \ {r}
          /\ current' = {r}
          /\ request' = [request EXCEPT ![r].retry = "none"]
          /\ seen' = request'[r]
          /\ pc' = IF request[r].channel = "sms" THEN "preview" ELSE "send"
    /\ UNCHANGED <<archived, totalSent, optouts, callbacks, history, faults>>

\* _preview_sms_usage: allowed, refused for now (cooldown) or for good (limit)
Preview ==
    /\ pc = "preview"
    /\ pc' \in {"send", "fail", "give_up"}
    /\ UNCHANGED <<request, archived, totalSent, optouts, batch, current, seen,
                   callbacks, history, faults>>

\* The provider accepts the message; Twilio will report on a text.
Accept(r) ==
    /\ texts' = [texts EXCEPT ![r] = @ + 1]
    /\ IF seen.channel = "email"
       THEN UNCHANGED callbacks
       ELSE \E outcome \in {"delivered", "failed"} :
              callbacks' = callbacks \cup
                  {[request |-> r, status |-> s] :
                     s \in TwilioStatuses \cap {"queued", "sent", outcome}}

ProviderAccepts ==
    /\ pc = "send"
    /\ \E r \in current : Accept(r)
    /\ pc' = "mark"
    /\ UNCHANGED <<request, archived, totalSent, optouts, batch, current, seen,
                   again, told, excused, faults>>

ProviderRefuses ==
    /\ pc = "send"
    /\ pc' = "fail"
    /\ UNCHANGED <<request, archived, totalSent, optouts, batch, current, seen,
                   callbacks, history, faults>>

AnswerLost ==
    /\ pc = "send"
    /\ faults < MaxFaults
    /\ faults' = faults + 1
    /\ \E r \in current : Accept(r) /\ again' = [again EXCEPT ![r] = @ + 1]
    /\ pc' = "fail"
    /\ UNCHANGED <<request, archived, totalSent, optouts, batch, current, seen, told, excused>>

\* The columns that differ from the loaded row are written.
Store(r, new) ==
    request' = [request EXCEPT ![r] =
                   [c \in DOMAIN new |-> IF new[c] = seen[c] THEN request[r][c] ELSE new[c]]]

\* Mutant: every message counts.
MarkSentCountingAll ==
    /\ pc = "mark"
    /\ \E r \in current : Store(r, [seen EXCEPT !.status = "sent", !.retry = "none", !.sent = TRUE])
    /\ totalSent' = totalSent + 1
    /\ pc' = "batch" /\ current' = {} /\ seen' = NoRow
    /\ UNCHANGED <<archived, optouts, batch, callbacks, history, faults>>

\* _mark_request_sent; the usage is recorded next (UsageMetering).
MarkSent ==
    /\ pc = "mark"
    /\ \E r \in current : Store(r, [seen EXCEPT !.status = "sent", !.retry = "none", !.sent = TRUE])
    /\ totalSent' = IF seen.sent THEN totalSent ELSE totalSent + 1
    /\ pc' = "batch" /\ current' = {} /\ seen' = NoRow
    /\ UNCHANGED <<archived, optouts, batch, callbacks, history, faults>>

\* _record_delivery_failure
RecordFailure ==
    /\ pc \in {"fail", "give_up"}
    /\ \E r \in current :
          LET retries == IF pc = "fail" \/ seen.retries >= MaxAttempts
                         THEN seen.retries + 1 ELSE MaxAttempts
              retry == IF pc = "fail" /\ retries < MaxAttempts THEN "waiting" ELSE "none"
          IN  /\ Store(r, [seen EXCEPT !.status = "failed", !.retries = retries, !.retry = retry])
              /\ pc' = IF retry = "none" THEN "notify" ELSE "batch"
              /\ current' = IF retry = "none" THEN {r} ELSE {}
    /\ seen' = NoRow
    /\ UNCHANGED <<archived, totalSent, optouts, batch, callbacks, history, faults>>

\* Mutant: the owner hears of exhausted retries only when the campaign still runs.
NotifyOwnerUnlessArchived ==
    /\ pc = "notify"
    /\ told' = IF archived THEN told ELSE told \cup current
    /\ pc' = "batch" /\ current' = {}
    /\ UNCHANGED <<request, archived, totalSent, optouts, batch, seen, callbacks,
                   texts, again, excused, faults>>

\* _notify_terminal_failure
NotifyOwner ==
    /\ pc = "notify"
    /\ told' = told \cup current
    /\ pc' = "batch" /\ current' = {}
    /\ UNCHANGED <<request, archived, totalSent, optouts, batch, seen, callbacks,
                   texts, again, excused, faults>>

\* The worker dies, or an exception leaves the loop: the session is rolled back.
Crash ==
    /\ pc # "idle"
    /\ faults < MaxFaults
    /\ faults' = faults + 1
    /\ again' = [r \in Requests |->
                    IF r \in current /\ pc = "mark" THEN again[r] + 1 ELSE again[r]]
    /\ excused' = excused \cup current
    /\ pc' = "idle" /\ batch' = {} /\ current' = {} /\ seen' = NoRow
    /\ UNCHANGED <<request, archived, totalSent, optouts, callbacks, texts, told>>

-----------------------------------------------------------------------------
(* handle_sms_status_callback *)

\* Mutant: Twilio's words are stored as they are.
StatusMapRaw == [queued |-> "queued", sent |-> "sent", delivered |-> "delivered",
                 failed |-> "failed"]

StatusMap == [queued |-> "pending", sent |-> "sent", delivered |-> "delivered",
              failed |-> "failed"]

\* Twilio's report is stored over whatever the row says; it may come again.
Callback(c) ==
    LET r == c.request
        reopens == c.status = "queued" /\ request[r].status # "pending"
    IN  /\ reopens => again[r] < MaxAgain
        /\ request' = [request EXCEPT ![r].status = StatusMap[c.status]]
        /\ again' = IF reopens THEN [again EXCEPT ![r] = @ + 1] ELSE again
        /\ excused' = IF c.status = "failed" THEN excused \cup {r} ELSE excused
        /\ \/ callbacks' = callbacks \ {c} /\ UNCHANGED faults
           \/ UNCHANGED callbacks /\ faults < MaxFaults /\ faults' = faults + 1
        /\ UNCHANGED <<archived, totalSent, optouts, job, texts, told>>

Job ==
    \/ StartRun \/ EndRun \/ Take \/ Preview
    \/ ProviderAccepts \/ ProviderRefuses
    \/ MarkSent \/ RecordFailure \/ NotifyOwner

Next ==
    \/ \E r \in Requests :
          \/ \E channel \in Channels, contacts \in SUBSET Channels :
                Create(r, channel, contacts)
          \/ Requeue(r)
          \/ RetryComes(r)
    \/ Archive
    \/ \E channel \in Channels : OptOut(channel)
    \/ Job
    \/ AnswerLost
    \/ Crash
    \/ \E c \in callbacks : Callback(c)

Spec == Init /\ [][Next]_vars

\* The scheduler runs the job every five minutes, and a retry's time comes.
FairSpec ==
    /\ Spec
    /\ WF_vars(Job)
    /\ \A r \in Requests : WF_vars(RetryComes(r))

-----------------------------------------------------------------------------
TypeOK ==
    /\ request \in [Requests -> Row]
    /\ archived \in BOOLEAN
    /\ totalSent \in Nat
    /\ optouts \subseteq Channels
    /\ pc \in {"idle", "batch", "preview", "send", "mark", "fail", "give_up", "notify"}
    /\ batch \subseteq Requests
    /\ current \subseteq Requests /\ Cardinality(current) <= 1
    /\ pc \in {"idle", "batch"} <=> current = {}
    /\ seen \in Row
    /\ callbacks \subseteq [request : Requests, status : TwilioStatuses]
    /\ texts \in [Requests -> Nat]
    /\ again \in [Requests -> Nat]
    /\ told \subseteq Requests
    /\ excused \subseteq Requests
    /\ faults \in 0..MaxFaults

\* A customer gets one message per request, and one more only for a requeue, a
\* "queued" report of Twilio's, a lost answer or a worker that died before it could
\* mark the request, in whatever order the reports arrive.
Delivery == INSTANCE Deliveries WITH
    Items <- Requests,
    reasons <- [r \in Requests |-> again[r] + IF request[r].status = "none" THEN 0 ELSE 1],
    delivered <- texts
SentOnceUnlessAgain == Delivery!Spec

\* "Update campaign counters once": total_sent counts requests, not messages,
\* however often one was failed, reported, requeued and sent again.
CampaignCountsRequests ==
    totalSent = Cardinality({r \in Requests : request[r].sent})

\* "Notify the owner on terminal failure": a request that rests as FAILED without a
\* next attempt was reported, unless the failure is Twilio's report (which tells
\* nobody) or the worker died over it.
FailureIsReported ==
    \A r \in Requests \ excused :
        request[r].status = "failed" /\ request[r].retry = "none" /\ r \notin current
            => r \in told

\* A pending request, and a retry that is planned, is taken up, also after a crash.
PendingIsProcessed ==
    \A r \in Requests :
        /\ request[r].status = "pending" ~> request[r].status # "pending" \/ r \in current
        /\ request[r].status = "failed" /\ request[r].retry # "none" ~>
               request[r].retry = "none" \/ request[r].status # "failed"

\* "You have been unsubscribed.": no text after a STOP.
NoTextAfterStop ==
    [][\A r \in Requests :
          "sms" \in optouts /\ request[r].channel = "sms" => texts'[r] = texts[r]]_vars
====
