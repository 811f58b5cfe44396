---- MODULE ContactsProofs ----
(***************************************************************************)
(* Proofs about the components that write to customers (MCContacts): each  *)
(* has an inductive invariant of its own, which implies its properties and *)
(* that each of its steps is a step of Deliveries.  A step of the whole is *)
(* one component's, and the others stutter.                                *)
(***************************************************************************)
EXTENDS MCContacts, FiniteSetTheorems, TLAPS

\* What is assumed of the constants, all components together.
LEMMA Constants ==
    /\ TwilioStatuses \subseteq {"queued", "sent", "delivered", "failed"}
    /\ MaxAttempts \in Nat \ {0} /\ MaxAgain \in Nat /\ MaxFaults \in Nat
    /\ NoCall \notin Calls /\ MaxMessages \in Nat /\ MaxReads \in Nat
    /\ NoDraft \notin Drafts /\ MaxRetries \in Nat /\ MaxRejects \in Nat
    /\ NoMessage \notin Messages /\ MaxAnswering \in Nat /\ MaxUpdates \in Nat
BY ContactsAssumption
   DEF Request!ReviewRequestsAssumption, Call!MissedCallsAssumption,
       Reply!ReviewResponsesAssumption, Social!SocialRepliesAssumption

-----------------------------------------------------------------------------
(* Review requests. *)

\* A component's Cardinality is the library's.
LEMMA SameRequestCardinality == ASSUME NEW S PROVE Request!Cardinality(S) = Cardinality(S)
BY DEF Request!Cardinality, Cardinality

\* The job works on at most one request, which is no longer on its list.
OneCurrent ==
    /\ current = {} \/ \E r \in Requests : current = {r}
    /\ current \cap batch = {}
    /\ pc = "idle" => batch = {}

\* Requests that are listed, at work or to be reported on; they have been created.
OnHand(r) == r \in batch \cup current \/ \E c \in callbacks : c.request = r
Created == \A r \in Requests : OnHand(r) => request[r].status # "none"

\* Request!TypeOK, but for the size of current, which OneCurrent gives.
RequestTypes ==
    /\ request \in [Requests -> Request!Row]
    /\ archived \in BOOLEAN
    /\ totalSent \in Nat
    /\ optouts \subseteq Request!Channels
    /\ pc \in {"idle", "batch", "preview", "send", "mark", "fail", "give_up", "notify"}
    /\ batch \subseteq Requests
    /\ current \subseteq Requests
    /\ pc \in {"idle", "batch"} <=> current = {}
    /\ seen \in Request!Row
    /\ callbacks \subseteq [request : Requests, status : TwilioStatuses]
    /\ texts \in [Requests -> Nat]
    /\ again \in [Requests -> Nat]
    /\ told \subseteq Requests
    /\ excused \subseteq Requests
    /\ faults \in 0..MaxFaults

RequestTyped == RequestTypes /\ OneCurrent /\ Created

\* A row stays a row when its columns change.
LEMMA ColumnsTyped == ASSUME NEW q \in Request!Row
    PROVE  /\ \A s \in {"pending", "sent", "delivered", "failed"} :
                 [q EXCEPT !.status = s] \in Request!Row
           /\ \A t \in {"none", "waiting", "due"} : [q EXCEPT !.retry = t] \in Request!Row
           /\ [q EXCEPT !.status = "pending", !.retries = 0, !.retry = "none"] \in Request!Row
BY DEF Request!Row

\* Store writes the columns that differ from what the job has loaded.
LEMMA StoredRow ==
    ASSUME RequestTyped, NEW r \in Requests, NEW new \in Request!Row, Request!Store(r, new)
    PROVE  /\ request'[r] \in Request!Row
           /\ request' = [request EXCEPT ![r] = request'[r]]
           /\ request'[r].status =
                  IF new.status = seen.status THEN request[r].status ELSE new.status
           /\ request'[r].retry =
                  IF new.retry = seen.retry THEN request[r].retry ELSE new.retry
           /\ request'[r].sent =
                  IF new.sent = seen.sent THEN request[r].sent ELSE new.sent
<1> DEFINE stored == [c \in DOMAIN new |-> IF new[c] = seen[c] THEN request[r][c] ELSE new[c]]
<1>1. DOMAIN new = {"status", "channel", "retries", "retry", "sent"}
    BY DEF Request!Row
<1>2. request \in [Requests -> Request!Row] /\ seen \in Request!Row
    BY DEF RequestTyped, RequestTypes
<1>3. request[r] \in Request!Row
    BY <1>2
<1>4. request' = [request EXCEPT ![r] = stored]
    BY DEF Request!Store
<1>5. request'[r] = stored
    BY <1>2, <1>4
<1>6. stored \in Request!Row
    BY <1>1, <1>2, <1>3 DEF Request!Row
<1>7. /\ stored.status = IF new.status = seen.status THEN request[r].status ELSE new.status
      /\ stored.retry = IF new.retry = seen.retry THEN request[r].retry ELSE new.retry
      /\ stored.sent = IF new.sent = seen.sent THEN request[r].sent ELSE new.sent
    BY <1>1
<1> QED BY <1>4, <1>5, <1>6, <1>7

\* What MarkSent stores.
LEMMA MarkSentStores ==
    ASSUME RequestTyped, Request!MarkSent
    PROVE  \E r \in Requests :
              /\ current = {r}
              /\ request'[r] \in Request!Row
              /\ request' = [request EXCEPT ![r] = request'[r]]
              /\ request'[r].status = IF seen.status = "sent" THEN request[r].status ELSE "sent"
              /\ request'[r].retry = IF seen.retry = "none" THEN request[r].retry ELSE "none"
              /\ request'[r].sent = IF seen.sent = TRUE THEN request[r].sent ELSE TRUE
<1>1. PICK r \in current :
          Request!Store(r, [seen EXCEPT !.status = "sent", !.retry = "none", !.sent = TRUE])
    BY DEF Request!MarkSent
<1> DEFINE new == [seen EXCEPT !.status = "sent", !.retry = "none", !.sent = TRUE]
<1>2. r \in Requests /\ current = {r}
    BY <1>1 DEF RequestTyped, OneCurrent
<1>3. seen \in Request!Row
    BY DEF RequestTyped, RequestTypes
<1>4. new \in Request!Row /\ new.status = "sent" /\ new.retry = "none" /\ new.sent = TRUE
    BY <1>3 DEF Request!Row
<1>5. seen.sent \in BOOLEAN /\ request[r].sent \in BOOLEAN
    BY <1>2, <1>3 DEF RequestTyped, RequestTypes, Request!Row
<1> HIDE DEF new
<1>6. Request!Store(r, new)
    BY <1>1 DEF new
<1>7. /\ request'[r] \in Request!Row
      /\ request' = [request EXCEPT ![r] = request'[r]]
      /\ request'[r].status = IF seen.status = "sent" THEN request[r].status ELSE "sent"
      /\ request'[r].retry = IF seen.retry = "none" THEN request[r].retry ELSE "none"
      /\ request'[r].sent = IF new.sent = seen.sent THEN request[r].sent ELSE new.sent
    BY <1>2, <1>4, <1>6, StoredRow
<1>8. request'[r].sent = IF seen.sent = TRUE THEN request[r].sent ELSE TRUE
    BY <1>4, <1>5, <1>7
<1> QED BY <1>2, <1>7, <1>8

\* What RecordFailure stores, and where the job goes on.
LEMMA RecordFailureStores ==
    ASSUME RequestTyped, Request!RecordFailure
    PROVE  \E r \in Requests, retry \in {"waiting", "none"} :
              /\ current = {r}
              /\ request'[r] \in Request!Row
              /\ request' = [request EXCEPT ![r] = request'[r]]
              /\ request'[r].status = IF seen.status = "failed" THEN request[r].status ELSE "failed"
              /\ request'[r].retry = IF seen.retry = retry THEN request[r].retry ELSE retry
              /\ request'[r].sent = request[r].sent
              /\ pc' = IF retry = "none" THEN "notify" ELSE "batch"
              /\ current' = IF retry = "none" THEN {r} ELSE {}
<1>1. PICK r \in current :
          LET tries == IF pc = "fail" \/ seen.retries >= MaxAttempts
                         THEN seen.retries + 1 ELSE MaxAttempts
              retry == IF pc = "fail" /\ tries < MaxAttempts THEN "waiting" ELSE "none"
          IN  /\ Request!Store(r, [seen EXCEPT !.status = "failed", !.retries = tries,
                                               !.retry = retry])
              /\ pc' = IF retry = "none" THEN "notify" ELSE "batch"
              /\ current' = IF retry = "none" THEN {r} ELSE {}
    BY DEF Request!RecordFailure
<1> DEFINE tries == IF pc = "fail" \/ seen.retries >= MaxAttempts
                       THEN seen.retries + 1 ELSE MaxAttempts
           retry == IF pc = "fail" /\ tries < MaxAttempts THEN "waiting" ELSE "none"
<1>2. /\ retry \in {"waiting", "none"}
      /\ pc' = IF retry = "none" THEN "notify" ELSE "batch"
      /\ current' = IF retry = "none" THEN {r} ELSE {}
    BY <1>1
<1> DEFINE new == [seen EXCEPT !.status = "failed", !.retries = tries, !.retry = retry]
<1>3. r \in Requests /\ current = {r}
    BY <1>1 DEF RequestTyped, OneCurrent
<1>4. seen \in Request!Row
    BY DEF RequestTyped, RequestTypes
<1>5. tries \in Nat
    BY <1>2, <1>4, Constants DEF Request!Row
<1>6. Request!Store(r, new)
    BY <1>1
<1> HIDE DEF tries, retry
<1>7. /\ new \in Request!Row /\ new.status = "failed" /\ new.retry = retry
      /\ new.sent = seen.sent
    BY <1>2, <1>4, <1>5 DEF Request!Row
<1> HIDE DEF new
<1> QED BY <1>2, <1>3, <1>7, <1>6, StoredRow

\* Every step keeps the types.
LEMMA RequestTypesStep == ASSUME RequestTyped, [Request!Next]_(Request!vars)
                          PROVE  RequestTypes'
<1> USE Constants DEF RequestTyped, RequestTypes, OneCurrent,
        Request!job, Request!history, Request!Channels
<1>1. ASSUME NEW r \in Requests, NEW channel \in Request!Channels,
             NEW contacts \in SUBSET Request!Channels, Request!Create(r, channel, contacts)
      PROVE  RequestTypes'
    BY <1>1 DEF Request!Create, Request!Row
<1>2. ASSUME NEW r \in Requests, Request!Requeue(r) PROVE RequestTypes'
    <2>1. request' \in [Requests -> Request!Row]
        <3>1. request' = [request EXCEPT ![r] =
                 [@ EXCEPT !.status = "pending", !.retries = 0, !.retry = "none"]]
            BY <1>2 DEF Request!Requeue
        <3> QED BY <3>1, ColumnsTyped
    <2> QED BY <1>2, <2>1 DEF Request!Requeue
<1>3. ASSUME NEW r \in Requests, Request!RetryComes(r) PROVE RequestTypes'
    BY <1>3 DEF Request!RetryComes, Request!Row
<1>4. CASE Request!Archive
    BY <1>4 DEF Request!Archive
<1>5. ASSUME NEW channel \in Request!Channels, Request!OptOut(channel) PROVE RequestTypes'
    BY <1>5 DEF Request!OptOut
<1>6. CASE Request!StartRun
    BY <1>6 DEF Request!StartRun
<1>7. CASE Request!EndRun
    BY <1>7 DEF Request!EndRun
<1>8. CASE Request!Take
    <2>1. PICK r \in batch :
              /\ batch' = batch \ {r} /\ current' = {r}
              /\ request' = [request EXCEPT ![r].retry = "none"]
              /\ seen' = request'[r]
              /\ pc' = IF request[r].channel = "sms" THEN "preview" ELSE "send"
        BY <1>8 DEF Request!Take
    <2>2. request' \in [Requests -> Request!Row]
        BY <2>1, ColumnsTyped
    <2>3. seen' \in Request!Row
        BY <2>1, <2>2
    <2> QED BY <1>8, <2>1, <2>2, <2>3 DEF Request!Take
<1>9. CASE Request!Preview
    BY <1>9 DEF Request!Preview
<1>10. ASSUME NEW r \in current, Request!Accept(r)
       PROVE  /\ texts' \in [Requests -> Nat]
              /\ callbacks' \subseteq [request : Requests, status : TwilioStatuses]
    BY <1>10 DEF Request!Accept
<1>11. CASE Request!ProviderAccepts
    BY <1>10, <1>11 DEF Request!ProviderAccepts
<1>12. CASE Request!ProviderRefuses
    BY <1>12 DEF Request!ProviderRefuses
<1>13. CASE Request!AnswerLost
    BY <1>10, <1>13 DEF Request!AnswerLost
<1>14. Request!NoRow \in Request!Row
    BY DEF Request!NoRow, Request!Row
<1>15. CASE Request!MarkSent
    <2>1. request' \in [Requests -> Request!Row]
        BY <1>15, MarkSentStores
    <2> QED BY <1>14, <1>15, <2>1 DEF Request!MarkSent
<1>16. CASE Request!RecordFailure
    <2>1. request' \in [Requests -> Request!Row]
        BY <1>16, RecordFailureStores
    <2>2. \/ pc' = "notify" /\ current' = current /\ current # {}
          \/ pc' = "batch" /\ current' = {}
        BY <1>16, RecordFailureStores
    <2>3. /\ seen' = Request!NoRow
          /\ UNCHANGED <<archived, totalSent, optouts, batch, callbacks, texts, again, told,
                         excused, faults>>
        BY <1>16 DEF Request!RecordFailure
    <2> QED BY <1>14, <2>1, <2>2, <2>3
<1>17. CASE Request!NotifyOwner
    BY <1>17 DEF Request!NotifyOwner
<1>18. CASE Request!Crash
    BY <1>14, <1>18 DEF Request!Crash
<1>19. ASSUME NEW c \in callbacks, Request!Callback(c) PROVE RequestTypes'
    <2>1. /\ c.request \in Requests
          /\ c.status \in {"queued", "sent", "delivered", "failed"}
        OBVIOUS
    <2>2. Request!StatusMap[c.status] \in {"pending", "sent", "delivered", "failed"}
        BY <2>1 DEF Request!StatusMap
    <2>3. request' = [request EXCEPT ![c.request].status = Request!StatusMap[c.status]]
        BY <1>19 DEF Request!Callback
    <2>4. request' \in [Requests -> Request!Row]
        BY <2>1, <2>2, <2>3, ColumnsTyped
    <2> QED BY <1>19, <2>1, <2>4 DEF Request!Callback
<1>20. CASE UNCHANGED Request!vars
    BY <1>20 DEF Request!vars
<1> HIDE DEF RequestTypes, RequestTyped, OneCurrent
<1> QED BY <1>1, <1>2, <1>3, <1>4, <1>5, <1>6, <1>7, <1>8, <1>9, <1>11, <1>12, <1>13,
           <1>15, <1>16, <1>17, <1>18, <1>19, <1>20
        DEF Request!Next, Request!Job

\* No step makes a created request uncreated.
LEMMA StayCreated == ASSUME RequestTyped, [Request!Next]_(Request!vars), NEW r \in Requests,
                            request[r].status # "none"
                     PROVE  request'[r].status # "none"
<1> USE DEF RequestTyped, RequestTypes
<1>1. CASE UNCHANGED request
    BY <1>1
<1>2. ASSUME NEW q \in Requests, NEW channel \in Request!Channels,
             NEW contacts \in SUBSET Request!Channels, Request!Create(q, channel, contacts)
      PROVE  request'[r].status # "none"
    BY <1>2 DEF Request!Create, Request!Row
<1>3. ASSUME NEW q \in Requests, Request!Requeue(q) PROVE request'[r].status # "none"
    BY <1>3 DEF Request!Requeue, Request!Row
<1>4. ASSUME NEW q \in Requests, Request!RetryComes(q) PROVE request'[r].status # "none"
    BY <1>4 DEF Request!RetryComes, Request!Row
<1>5. CASE Request!Take
    BY <1>5 DEF Request!Take, Request!Row
<1>6. CASE Request!MarkSent
    BY <1>6, MarkSentStores
<1>7. CASE Request!RecordFailure
    BY <1>7, RecordFailureStores
<1>8. ASSUME NEW c \in callbacks, Request!Callback(c) PROVE request'[r].status # "none"
    <2>1. /\ c.request \in Requests
          /\ c.status \in {"queued", "sent", "delivered", "failed"}
        BY Constants
    <2>2. Request!StatusMap[c.status] # "none"
        BY <2>1 DEF Request!StatusMap
    <2>3. request' = [request EXCEPT ![c.request].status = Request!StatusMap[c.status]]
        BY <1>8 DEF Request!Callback
    <2> QED BY <2>1, <2>2, <2>3
<1>9. CASE \/ Request!Archive \/ \E channel \in Request!Channels : Request!OptOut(channel)
           \/ Request!StartRun \/ Request!EndRun \/ Request!Preview
           \/ Request!ProviderAccepts \/ Request!ProviderRefuses \/ Request!AnswerLost
           \/ Request!NotifyOwner \/ Request!Crash \/ UNCHANGED Request!vars
    <2>1. UNCHANGED request
        BY <1>9 DEF Request!Archive, Request!OptOut, Request!StartRun, Request!EndRun,
                    Request!Preview, Request!ProviderAccepts, Request!ProviderRefuses,
                    Request!AnswerLost, Request!NotifyOwner, Request!Crash, Request!vars
    <2> QED BY <2>1
<1> HIDE DEF RequestTyped, RequestTypes
<1> QED BY <1>2, <1>3, <1>4, <1>5, <1>6, <1>7, <1>8, <1>9 DEF Request!Next, Request!Job

\* Who is on the list, at work or to be reported on, from one step to the next.
HandedOn ==
    /\ OneCurrent'
    /\ \A r \in Requests : OnHand(r)' => OnHand(r) \/ request'[r].status # "none"

\* OneCurrent and Created are kept.
LEMMA ListedStep == ASSUME RequestTyped, [Request!Next]_(Request!vars)
                    PROVE  HandedOn
<1> USE DEF RequestTyped, RequestTypes, OneCurrent, Request!job, Request!history,
            HandedOn, OnHand
<1>1. CASE UNCHANGED <<pc, batch, current>> /\ (UNCHANGED callbacks \/ callbacks' \subseteq callbacks)
    BY <1>1
<1>2. ASSUME NEW q \in Requests, NEW channel \in Request!Channels,
             NEW contacts \in SUBSET Request!Channels, Request!Create(q, channel, contacts)
      PROVE  HandedOn
    BY <1>1, <1>2 DEF Request!Create
<1>3. ASSUME NEW q \in Requests, Request!Requeue(q) \/ Request!RetryComes(q) PROVE HandedOn
    BY <1>1, <1>3 DEF Request!Requeue, Request!RetryComes
<1>4. CASE \/ Request!Archive \/ \E channel \in Request!Channels : Request!OptOut(channel)
           \/ UNCHANGED Request!vars
    BY <1>1, <1>4 DEF Request!Archive, Request!OptOut, Request!vars
<1>5. CASE Request!StartRun
    BY <1>5 DEF Request!StartRun, Request!IsReady
<1>6. CASE Request!Take
    <2>1. PICK r \in batch : batch' = batch \ {r} /\ current' = {r}
        BY <1>6 DEF Request!Take
    <2>2. pc' \in {"preview", "send"} /\ UNCHANGED callbacks
        BY <1>6 DEF Request!Take
    <2> QED BY <2>1, <2>2
<1>7. CASE Request!EndRun \/ Request!Preview \/ Request!ProviderRefuses
    BY <1>7 DEF Request!EndRun, Request!Preview, Request!ProviderRefuses
<1>8. CASE Request!ProviderAccepts \/ Request!AnswerLost
    <2>1. PICK r \in current : Request!Accept(r)
        BY <1>8 DEF Request!ProviderAccepts, Request!AnswerLost
    <2>2. \A c \in callbacks' : c.request = r \/ c \in callbacks
        BY <2>1 DEF Request!Accept
    <2>3. UNCHANGED <<batch, current>> /\ pc' # "idle"
        BY <1>8 DEF Request!ProviderAccepts, Request!AnswerLost
    <2> QED BY <2>1, <2>2, <2>3
<1>9. CASE Request!MarkSent \/ Request!NotifyOwner
    <2>1. UNCHANGED <<batch, callbacks>> /\ pc' = "batch" /\ current' = {}
        BY <1>9 DEF Request!MarkSent, Request!NotifyOwner
    <2> QED BY <2>1
<1>10. CASE Request!RecordFailure
    <2>1. UNCHANGED <<batch, callbacks>> /\ pc' # "idle" /\ current' \in {current, {}}
        BY <1>10, RecordFailureStores DEF Request!RecordFailure
    <2> QED BY <2>1
<1>11. CASE Request!Crash
    BY <1>11 DEF Request!Crash
<1>12. ASSUME NEW c \in callbacks, Request!Callback(c) PROVE HandedOn
    BY <1>1, <1>12 DEF Request!Callback
<1> HIDE DEF RequestTyped, RequestTypes, OneCurrent, HandedOn
<1> QED BY <1>2, <1>3, <1>4, <1>5, <1>6, <1>7, <1>8, <1>9, <1>10, <1>11, <1>12
       DEF Request!Next, Request!Job

\* Together, the types and the places are inductive.
LEMMA RequestTypedStep == ASSUME RequestTyped, [Request!Next]_(Request!vars)
                          PROVE  RequestTyped'
<1>1. RequestTypes' /\ HandedOn
    BY RequestTypesStep, ListedStep
<1>2. \A r \in Requests : request[r].status # "none" => request'[r].status # "none"
    BY StayCreated
<1>3. Created'
    BY <1>1, <1>2 DEF HandedOn, Created, RequestTyped
<1> QED BY <1>1, <1>3 DEF RequestTyped, HandedOn

-----------------------------------------------------------------------------
\* The job is at work on a request: what it has loaded.
AtWork == {"preview", "send", "mark", "fail", "give_up"}

\* While the job is at work on a request nobody else touches what it has loaded, but
\* for the status: the owner may requeue it, and Twilio's reports change it.
LoadedFits == \A r \in Requests : r \in current /\ pc \in AtWork =>
    /\ request[r].retry = "none" /\ seen.retry = "none"
    /\ request[r].sent = seen.sent
    /\ request[r].status = "failed" /\ r \notin excused => seen.status = "failed"

\* LoadedFits is kept.
LEMMA LoadedFitsStep == ASSUME RequestTyped, LoadedFits, [Request!Next]_(Request!vars)
                        PROVE  LoadedFits'
<1> USE DEF RequestTyped, RequestTypes, OneCurrent, LoadedFits, AtWork,
            Request!job, Request!history
<1>1. ASSUME NEW q \in Requests, NEW channel \in Request!Channels,
             NEW contacts \in SUBSET Request!Channels, Request!Create(q, channel, contacts)
      PROVE  LoadedFits'
    BY <1>1 DEF Request!Create, Request!Row
<1>2. ASSUME NEW q \in Requests, Request!Requeue(q) PROVE LoadedFits'
    BY <1>2 DEF Request!Requeue, Request!Row
<1>3. ASSUME NEW q \in Requests, Request!RetryComes(q) PROVE LoadedFits'
    BY <1>3 DEF Request!RetryComes, Request!Row
<1>4. CASE \/ Request!Archive \/ \E channel \in Request!Channels : Request!OptOut(channel)
           \/ Request!StartRun \/ Request!EndRun \/ Request!Preview
           \/ Request!ProviderAccepts \/ Request!ProviderRefuses \/ Request!AnswerLost
           \/ UNCHANGED Request!vars
    <2>1. /\ UNCHANGED <<request, seen, excused, current>>
          /\ pc' \in AtWork => pc \in AtWork \cup {"idle", "batch"}
        BY <1>4 DEF Request!Archive, Request!OptOut, Request!StartRun, Request!EndRun,
                    Request!Preview, Request!ProviderAccepts, Request!ProviderRefuses,
                    Request!AnswerLost, Request!vars
    <2> QED BY <2>1
<1>5. CASE Request!Take
    <2>1. PICK r \in batch : /\ current' = {r} /\ seen' = request'[r]
                             /\ request' = [request EXCEPT ![r].retry = "none"]
        BY <1>5 DEF Request!Take
    <2> QED BY <2>1 DEF Request!Row
<1>6. CASE Request!MarkSent \/ Request!NotifyOwner \/ Request!Crash
    BY <1>6 DEF Request!MarkSent, Request!NotifyOwner, Request!Crash
<1>7. CASE Request!RecordFailure
    BY <1>7, RecordFailureStores
<1>8. ASSUME NEW c \in callbacks, Request!Callback(c) PROVE LoadedFits'
    <2>1. c.request \in Requests /\ c.status \in {"queued", "sent", "delivered", "failed"}
        BY Constants
    <2>2. /\ request' = [request EXCEPT ![c.request].status = Request!StatusMap[c.status]]
          /\ UNCHANGED <<pc, current, seen>>
          /\ excused' = IF c.status = "failed" THEN excused \cup {c.request} ELSE excused
        BY <1>8 DEF Request!Callback
    <2>3. Request!StatusMap[c.status] = "failed" => c.status = "failed"
        BY <2>1 DEF Request!StatusMap
    <2>4. ASSUME NEW r \in Requests
          PROVE  /\ request'[r].retry = request[r].retry /\ request'[r].sent = request[r].sent
                 /\ request'[r].status = "failed" =>
                        request[r].status = "failed" \/ r \in excused'
        BY <2>1, <2>2, <2>3 DEF Request!Row
    <2>5. excused \subseteq excused'
        BY <2>2
    <2> QED BY <2>2, <2>4, <2>5
<1> HIDE DEF RequestTyped, RequestTypes, OneCurrent, LoadedFits
<1> QED BY <1>1, <1>2, <1>3, <1>4, <1>5, <1>6, <1>7, <1>8 DEF Request!Next, Request!Job

\* The requests that are marked as sent, which the campaign counts.
SentRows == {r \in Requests : request[r].sent}
CountsRequests == IsFiniteSet(SentRows) /\ totalSent = Cardinality(SentRows)

\* Only MarkSent touches the mark and the count.
CountSame == totalSent' = totalSent /\ \A r \in Requests : request'[r].sent = request[r].sent

\* MarkSent counts a request it marks for the first time; nothing else counts.
LEMMA OnlyMarkSentCounts ==
    ASSUME RequestTyped, LoadedFits, [Request!Next]_(Request!vars), ~Request!MarkSent
    PROVE  CountSame
<1> USE DEF RequestTyped, RequestTypes, CountSame
<1>1. ASSUME NEW q \in Requests, NEW channel \in Request!Channels,
             NEW contacts \in SUBSET Request!Channels, Request!Create(q, channel, contacts)
      PROVE  CountSame
    BY <1>1 DEF Request!Create, Request!Row
<1>2. ASSUME NEW q \in Requests, Request!Requeue(q) PROVE CountSame
    BY <1>2 DEF Request!Requeue, Request!Row
<1>3. ASSUME NEW q \in Requests, Request!RetryComes(q) PROVE CountSame
    BY <1>3 DEF Request!RetryComes, Request!Row
<1>4. CASE Request!Take
    BY <1>4 DEF Request!Take, Request!Row
<1>5. CASE Request!RecordFailure
    <2>1. \A r \in Requests : request'[r].sent = request[r].sent
        BY <1>5, RecordFailureStores
    <2> QED BY <1>5, <2>1 DEF Request!RecordFailure
<1>6. ASSUME NEW c \in callbacks, Request!Callback(c) PROVE CountSame
    BY <1>6 DEF Request!Callback, Request!Row, Request!job
<1>7. CASE \/ Request!Archive \/ \E channel \in Request!Channels : Request!OptOut(channel)
           \/ Request!StartRun \/ Request!EndRun \/ Request!Preview
           \/ Request!ProviderAccepts \/ Request!ProviderRefuses \/ Request!AnswerLost
           \/ Request!NotifyOwner \/ Request!Crash \/ UNCHANGED Request!vars
    <2>1. UNCHANGED <<request, totalSent>>
        BY <1>7 DEF Request!Archive, Request!OptOut, Request!StartRun, Request!EndRun,
                    Request!Preview, Request!ProviderAccepts, Request!ProviderRefuses,
                    Request!AnswerLost, Request!NotifyOwner, Request!Crash, Request!vars
    <2> QED BY <2>1
<1> HIDE DEF RequestTyped, RequestTypes, CountSame
<1> QED BY <1>1, <1>2, <1>3, <1>4, <1>5, <1>6, <1>7 DEF Request!Next, Request!Job

\* The count is kept.
LEMMA CountsRequestsStep ==
    ASSUME RequestTyped, LoadedFits, CountsRequests, [Request!Next]_(Request!vars)
    PROVE  CountsRequests'
<1>1. CASE ~Request!MarkSent
    <2>1. SentRows' = SentRows /\ totalSent' = totalSent
        BY <1>1, OnlyMarkSentCounts DEF SentRows, CountSame
    <2> QED BY <2>1 DEF CountsRequests
<1>2. CASE Request!MarkSent
    <2>1. PICK r \in Requests :
              /\ current = {r}
              /\ request' = [request EXCEPT ![r] = request'[r]]
              /\ request'[r].sent = IF seen.sent = TRUE THEN request[r].sent ELSE TRUE
        BY <1>2, MarkSentStores
    <2>2. /\ request \in [Requests -> Request!Row]
          /\ request[r].sent = seen.sent /\ seen.sent \in BOOLEAN
        BY <1>2, <2>1 DEF RequestTyped, RequestTypes, LoadedFits, AtWork, Request!MarkSent,
                          Request!Row
    <2>3. totalSent' = IF seen.sent THEN totalSent ELSE totalSent + 1
        BY <1>2 DEF Request!MarkSent
    <2>4. request'[r].sent = TRUE /\ \A q \in Requests \ {r} : request'[q] = request[q]
        BY <2>1, <2>2
    <2>5. SentRows' = SentRows \cup {r}
        BY <2>4 DEF SentRows
    <2>6. r \in SentRows <=> seen.sent
        BY <2>2 DEF SentRows
    <2>7. /\ IsFiniteSet(SentRows')
          /\ Cardinality(SentRows') = IF r \in SentRows THEN Cardinality(SentRows)
                                                        ELSE Cardinality(SentRows) + 1
        BY <2>5, FS_AddElement DEF CountsRequests
    <2> QED BY <2>3, <2>6, <2>7 DEF CountsRequests
<1> QED BY <1>1, <1>2

\* A failure without a next attempt was reported, or is about to be.
FailuresTold == \A r \in Requests \ excused :
    request[r].status = "failed" /\ request[r].retry = "none" /\ r \notin current
        => r \in told

\* FailuresTold is kept: the job tells the owner before it lets the request go.
LEMMA FailuresToldStep ==
    ASSUME RequestTyped, LoadedFits, FailuresTold, [Request!Next]_(Request!vars)
    PROVE  FailuresTold'
<1> USE DEF RequestTyped, RequestTypes, OneCurrent, LoadedFits, FailuresTold, AtWork,
            Request!job, Request!history
<1>1. ASSUME NEW q \in Requests, NEW channel \in Request!Channels,
             NEW contacts \in SUBSET Request!Channels, Request!Create(q, channel, contacts)
      PROVE  FailuresTold'
    BY <1>1 DEF Request!Create, Request!Row
<1>2. ASSUME NEW q \in Requests, Request!Requeue(q) PROVE FailuresTold'
    BY <1>2 DEF Request!Requeue, Request!Row
<1>3. ASSUME NEW q \in Requests, Request!RetryComes(q) PROVE FailuresTold'
    BY <1>3 DEF Request!RetryComes, Request!Row
<1>4. CASE \/ Request!Archive \/ \E channel \in Request!Channels : Request!OptOut(channel)
           \/ Request!StartRun \/ Request!EndRun \/ Request!Preview
           \/ Request!ProviderAccepts \/ Request!ProviderRefuses \/ Request!AnswerLost
           \/ UNCHANGED Request!vars
    <2>1. UNCHANGED <<request, current, excused, told>>
        BY <1>4 DEF Request!Archive, Request!OptOut, Request!StartRun, Request!EndRun,
                    Request!Preview, Request!ProviderAccepts, Request!ProviderRefuses,
                    Request!AnswerLost, Request!vars
    <2> QED BY <2>1
<1>5. CASE Request!Take
    <2>1. PICK r \in batch : /\ current' = {r}
                             /\ request' = [request EXCEPT ![r].retry = "none"]
        BY <1>5 DEF Request!Take
    <2>2. UNCHANGED <<excused, told>> /\ current = {}
        BY <1>5 DEF Request!Take
    <2> QED BY <2>1, <2>2 DEF Request!Row
<1>6. CASE Request!MarkSent
    <2>1. PICK r \in Requests :
              /\ current = {r}
              /\ request' = [request EXCEPT ![r] = request'[r]]
              /\ request'[r].status = IF seen.status = "sent" THEN request[r].status ELSE "sent"
        BY <1>6, MarkSentStores
    <2>2. UNCHANGED <<excused, told>> /\ current' = {} /\ pc = "mark"
        BY <1>6 DEF Request!MarkSent
    <2>3. request[r].status = "failed" /\ r \notin excused => seen.status = "failed"
        BY <2>1, <2>2
    <2>4. \A q \in Requests \ {r} : request'[q] = request[q]
        BY <2>1
    <2>5. request'[r].status = "failed" => r \in excused
        BY <2>1, <2>3
    <2> QED BY <2>1, <2>2, <2>4, <2>5
<1>7. CASE Request!RecordFailure
    <2>1. PICK r \in Requests, retry \in {"waiting", "none"} :
              /\ current = {r}
              /\ request' = [request EXCEPT ![r] = request'[r]]
              /\ request'[r].retry = IF seen.retry = retry THEN request[r].retry ELSE retry
              /\ current' = IF retry = "none" THEN {r} ELSE {}
        BY <1>7, RecordFailureStores
    <2>2. UNCHANGED <<excused, told>> /\ pc \in {"fail", "give_up"}
        BY <1>7 DEF Request!RecordFailure
    <2>3. seen.retry = "none" /\ request[r].retry = "none"
        BY <2>1, <2>2
    <2>4. \A q \in Requests \ {r} : request'[q] = request[q]
        BY <2>1
    <2>5. r \in current' \/ request'[r].retry = "waiting"
        BY <2>1, <2>3
    <2> QED BY <2>1, <2>2, <2>4, <2>5
<1>8. CASE Request!NotifyOwner \/ Request!Crash
    BY <1>8 DEF Request!NotifyOwner, Request!Crash
<1>9. ASSUME NEW c \in callbacks, Request!Callback(c) PROVE FailuresTold'
    <2>1. c.request \in Requests /\ c.status \in {"queued", "sent", "delivered", "failed"}
        BY Constants
    <2>2. /\ request' = [request EXCEPT ![c.request].status = Request!StatusMap[c.status]]
          /\ UNCHANGED <<current, told>>
          /\ excused' = IF c.status = "failed" THEN excused \cup {c.request} ELSE excused
        BY <1>9 DEF Request!Callback
    <2>3. Request!StatusMap[c.status] = "failed" => c.status = "failed"
        BY <2>1 DEF Request!StatusMap
    <2>4. ASSUME NEW r \in Requests
          PROVE  /\ request'[r].retry = request[r].retry
                 /\ request'[r].status = "failed" =>
                        request[r].status = "failed" \/ r \in excused'
        BY <2>1, <2>2, <2>3 DEF Request!Row
    <2>5. excused \subseteq excused'
        BY <2>2
    <2> QED BY <2>2, <2>4, <2>5
<1> HIDE DEF RequestTyped, RequestTypes, OneCurrent, LoadedFits, FailuresTold
<1> QED BY <1>1, <1>2, <1>3, <1>4, <1>5, <1>6, <1>7, <1>8, <1>9 DEF Request!Next, Request!Job

\* Reasons to deliver a request's message so far, as Deliveries counts them.
Owed(r) == again[r] + IF request[r].status = "none" THEN 0 ELSE 1

\* The job is about to hand the message of r to the provider, or has failed to.
Sending(r) == r \in current /\ pc \in AtWork \ {"mark"}
\* MarkSent will replace the status.
Replaced(r) == r \in current /\ pc = "mark" /\ seen.status # "sent"

\* A request on its way to the provider has a reason left, also one that will be
\* replaced and one the owner requeued while it was at work.
Reason(r) ==
    /\ texts[r] <= Owed(r)
    /\ \/ r \in batch
       \/ Sending(r)
       \/ request[r].retry # "none"
       \/ request[r].status = "pending" /\ ~Replaced(r)
       => texts[r] < Owed(r)
    /\ Sending(r) /\ request[r].status = "pending" /\ seen.status = "sent"
       => texts[r] + 1 < Owed(r)
ReasonsLeft == \A r \in Requests : Reason(r)

\* ReasonsLeft is kept, action by action.
LEMMA ReasonsLeftStep ==
    ASSUME RequestTyped, LoadedFits, ReasonsLeft, [Request!Next]_(Request!vars)
    PROVE  ReasonsLeft'
<1> USE DEF RequestTyped, RequestTypes, OneCurrent, ReasonsLeft, Reason, Owed, Sending, Replaced, AtWork,
            Request!job, Request!history
<1>1. ASSUME NEW q \in Requests, NEW channel \in Request!Channels,
             NEW contacts \in SUBSET Request!Channels, Request!Create(q, channel, contacts)
      PROVE  ReasonsLeft'
    BY <1>1 DEF Request!Create, Request!Row, Created, OnHand
<1>2. ASSUME NEW q \in Requests, Request!Requeue(q) PROVE ReasonsLeft'
    BY <1>2 DEF Request!Requeue, Request!Row
<1>3. ASSUME NEW q \in Requests, Request!RetryComes(q) PROVE ReasonsLeft'
    BY <1>3 DEF Request!RetryComes, Request!Row
<1>4. CASE \/ Request!Archive \/ \E channel \in Request!Channels : Request!OptOut(channel)
           \/ UNCHANGED Request!vars
    <2>1. UNCHANGED <<again, texts, batch, current, pc, seen, request>>
        BY <1>4 DEF Request!Archive, Request!OptOut, Request!vars
    <2> QED BY <2>1
<1>5. CASE Request!StartRun
    BY <1>5 DEF Request!StartRun, Request!IsReady
<1>6. CASE Request!EndRun \/ Request!Preview \/ Request!ProviderRefuses
    <2>1. /\ UNCHANGED <<again, texts, batch, current, seen, request>>
          /\ \/ pc' = "idle" /\ current = {}
             \/ {pc, pc'} \subseteq AtWork \ {"mark"}
        BY <1>6 DEF Request!EndRun, Request!Preview, Request!ProviderRefuses
    <2> QED BY <2>1
<1>7. CASE Request!Take
    <2>1. PICK r \in batch : /\ batch' = batch \ {r} /\ current' = {r}
                             /\ request' = [request EXCEPT ![r].retry = "none"]
                             /\ seen' = request'[r]
        BY <1>7 DEF Request!Take
    <2>2. UNCHANGED <<texts, again>> /\ current = {} /\ pc' \in {"preview", "send"}
        BY <1>7 DEF Request!Take
    <2> QED BY <2>1, <2>2 DEF Request!Row
<1>8. CASE Request!ProviderAccepts
    <2>1. PICK r \in current : texts' = [texts EXCEPT ![r] = @ + 1]
        BY <1>8 DEF Request!ProviderAccepts, Request!Accept
    <2>2. /\ pc = "send" /\ pc' = "mark"
          /\ UNCHANGED <<again, request, batch, current, seen>>
        BY <1>8 DEF Request!ProviderAccepts
    <2>3. r \in Requests /\ request[r].retry = "none" /\ r \notin batch
        BY <2>1, <2>2 DEF LoadedFits
    <2> QED BY <2>1, <2>2, <2>3
<1>9. CASE Request!AnswerLost
    <2>1. PICK r \in current : /\ texts' = [texts EXCEPT ![r] = @ + 1]
                               /\ again' = [again EXCEPT ![r] = @ + 1]
        BY <1>9 DEF Request!AnswerLost, Request!Accept
    <2>2. /\ pc = "send" /\ pc' = "fail"
          /\ UNCHANGED <<request, batch, current, seen>>
        BY <1>9 DEF Request!AnswerLost
    <2> QED BY <2>1, <2>2
<1>10. CASE Request!MarkSent
    <2>1. PICK r \in Requests :
              /\ current = {r}
              /\ request'[r] \in Request!Row
              /\ request' = [request EXCEPT ![r] = request'[r]]
              /\ request'[r].status = IF seen.status = "sent" THEN request[r].status ELSE "sent"
              /\ request'[r].retry = IF seen.retry = "none" THEN request[r].retry ELSE "none"
        BY <1>10, MarkSentStores
    <2>2. UNCHANGED <<again, texts, batch>> /\ current' = {} /\ pc = "mark"
        BY <1>10 DEF Request!MarkSent
    <2>3. request'[r].retry = "none" /\ r \notin batch /\ request[r].status # "none"
        BY <2>1, <2>2 DEF LoadedFits, Created, OnHand
    <2>4. \A q \in Requests \ {r} : request'[q] = request[q]
        BY <2>1
    <2>5. Reason(r)'
        BY <2>1, <2>2, <2>3
    <2>6. ASSUME NEW q \in Requests \ {r} PROVE Reason(q)'
        BY <2>1, <2>2, <2>4
    <2> QED BY <2>5, <2>6
<1>11. CASE Request!RecordFailure
    <2>1. PICK r \in Requests :
              /\ current = {r}
              /\ request'[r] \in Request!Row
              /\ request' = [request EXCEPT ![r] = request'[r]]
              /\ request'[r].status = IF seen.status = "failed" THEN request[r].status ELSE "failed"
              /\ pc' \in {"notify", "batch"}
        BY <1>11, RecordFailureStores
    <2>2. UNCHANGED <<again, texts, batch>> /\ pc \in {"fail", "give_up"}
        BY <1>11 DEF Request!RecordFailure
    <2>3. request[r].status # "none" /\ request'[r].status # "none"
        BY <2>1 DEF Created, OnHand
    <2>4. \A q \in Requests \ {r} : request'[q] = request[q]
        BY <2>1
    <2>5. Reason(r)'
        BY <2>1, <2>2, <2>3
    <2>6. ASSUME NEW q \in Requests \ {r} PROVE Reason(q)'
        BY <2>1, <2>2, <2>4
    <2> QED BY <2>5, <2>6
<1>12. CASE Request!NotifyOwner
    BY <1>12 DEF Request!NotifyOwner
<1>13. CASE Request!Crash
    BY <1>13 DEF Request!Crash
<1>14. ASSUME NEW c \in callbacks, Request!Callback(c) PROVE ReasonsLeft'
    <2>1. c.request \in Requests /\ c.status \in {"queued", "sent", "delivered", "failed"}
        BY Constants
    <2>2. /\ request' = [request EXCEPT ![c.request].status = Request!StatusMap[c.status]]
          /\ UNCHANGED <<texts, batch, current, pc, seen>>
          /\ again' = IF c.status = "queued" /\ request[c.request].status # "pending"
                      THEN [again EXCEPT ![c.request] = @ + 1] ELSE again
        BY <1>14 DEF Request!Callback
    <2>3. /\ Request!StatusMap[c.status] = "pending" <=> c.status = "queued"
          /\ Request!StatusMap[c.status] # "none"
        BY <2>1 DEF Request!StatusMap
    <2>4. /\ request'[c.request].retry = request[c.request].retry
          /\ request'[c.request].status = Request!StatusMap[c.status]
          /\ request[c.request].status # "none"
        BY <2>1, <2>2 DEF Request!Row, Created, OnHand
    <2>5. \A q \in Requests \ {c.request} : request'[q] = request[q] /\ again'[q] = again[q]
        BY <2>1, <2>2
    <2>6. again'[c.request] = IF c.status = "queued" /\ request[c.request].status # "pending"
                              THEN again[c.request] + 1 ELSE again[c.request]
        BY <2>1, <2>2
    <2>7. Reason(c.request)'
        BY <2>1, <2>2, <2>3, <2>4, <2>6
    <2>8. ASSUME NEW q \in Requests \ {c.request} PROVE Reason(q)'
        BY <2>1, <2>2, <2>5
    <2> QED BY <2>1, <2>7, <2>8
<1> HIDE DEF RequestTyped, RequestTypes, OneCurrent, ReasonsLeft
<1> QED BY <1>1, <1>2, <1>3, <1>4, <1>5, <1>6, <1>7, <1>8, <1>9, <1>10, <1>11, <1>12, <1>13,
           <1>14
        DEF Request!Next, Request!Job

\* A step that gives some requests one reason more is Deliveries' Ask.
LEMMA RequestAsks ==
    ASSUME NEW items \in SUBSET Requests, UNCHANGED texts,
           \A r \in Requests : Owed(r)' = IF r \in items THEN Owed(r) + 1 ELSE Owed(r)
    PROVE  Request!Delivery!Next
<1>1. [r \in Requests |-> Owed(r)'] = [r \in Requests |-> IF r \in items THEN Owed(r) + 1 ELSE Owed(r)]
    OBVIOUS
<1> QED BY <1>1 DEF Request!Delivery!Next, Request!Delivery!Ask, Owed

\* The provider accepts only what has a reason left.
LEMMA RequestDelivers ==
    ASSUME NEW r \in Requests, RequestTyped, texts[r] < Owed(r),
           texts' = [texts EXCEPT ![r] = @ + 1], UNCHANGED request,
           again' = again \/ again' = [again EXCEPT ![r] = @ + 1]
    PROVE  Request!Delivery!Next
<1>1. again \in [Requests -> Nat]
    BY DEF RequestTyped, RequestTypes
<1>2. CASE again' = again
    BY <1>2 DEF Request!Delivery!Next, Request!Delivery!Deliver, Owed
<1>3. CASE again' = [again EXCEPT ![r] = @ + 1]
    <2> DEFINE R == [q \in Requests |-> again[q] + IF request[q].status = "none" THEN 0 ELSE 1]
    <2>1. \A q \in Requests : R'[q] = IF q = r THEN R[q] + 1 ELSE R[q]
        BY <1>1, <1>3
    <2>2. R[r] = Owed(r)
        BY DEF Owed
    <2>3. R' = [q \in Requests |-> IF q = r THEN R[q] + 1 ELSE R[q]]
        <3>1. R' = [q \in Requests |-> R'[q]]
            OBVIOUS
        <3> QED BY <2>1, <3>1
    <2>4. R' = [R EXCEPT ![r] = @ + 1]
        BY <2>3
    <2>5. texts[r] < R[r] /\ R' = [R EXCEPT ![r] = @ + 1]
        BY <2>2, <2>4
    <2> QED BY <2>5 DEF Request!Delivery!Next, Request!Delivery!DeliverUnnoticed
<1> QED BY <1>2, <1>3

\* Every step of review requests is one of Deliveries, or none.
LEMMA RequestImplements ==
    ASSUME RequestTyped, LoadedFits, ReasonsLeft, [Request!Next]_(Request!vars)
    PROVE  [Request!Delivery!Next]_(Request!Delivery!vars)
<1> USE DEF RequestTyped, RequestTypes, Request!job, Request!history
<1>1. ASSUME UNCHANGED <<texts, again>>,
             \A r \in Requests : (request'[r].status = "none") = (request[r].status = "none")
      PROVE  Request!Delivery!Next
    <2>1. \A r \in Requests : Owed(r)' = IF r \in {} THEN Owed(r) + 1 ELSE Owed(r)
        BY <1>1 DEF Owed
    <2>2. {} \in SUBSET Requests /\ UNCHANGED texts
        BY <1>1
    <2> HIDE DEF RequestTyped
    <2> QED BY <2>1, <2>2, RequestAsks
<1>2. ASSUME NEW q \in Requests, NEW channel \in Request!Channels,
             NEW contacts \in SUBSET Request!Channels, Request!Create(q, channel, contacts)
      PROVE  Request!Delivery!Next
    <2>1. \A r \in Requests : Owed(r)' = IF r \in {q} THEN Owed(r) + 1 ELSE Owed(r)
        BY <1>2 DEF Request!Create, Request!Row, Owed
    <2> QED BY <1>2, <2>1, RequestAsks DEF Request!Create
<1>3. ASSUME NEW q \in Requests, Request!Requeue(q) PROVE Request!Delivery!Next
    <2>1. \A r \in Requests : Owed(r)' = IF r \in {q} THEN Owed(r) + 1 ELSE Owed(r)
        BY <1>3 DEF Request!Requeue, Request!Row, Owed
    <2> QED BY <1>3, <2>1, RequestAsks DEF Request!Requeue
<1>4. ASSUME NEW q \in Requests, Request!RetryComes(q) PROVE Request!Delivery!Next
    <2>1. \A r \in Requests : (request'[r].status = "none") = (request[r].status = "none")
        BY <1>4 DEF Request!RetryComes, Request!Row
    <2> QED BY <1>1, <1>4, <2>1 DEF Request!RetryComes
<1>5. CASE \/ Request!Archive \/ \E channel \in Request!Channels : Request!OptOut(channel)
           \/ Request!StartRun \/ Request!EndRun \/ Request!Preview
           \/ Request!ProviderRefuses \/ Request!NotifyOwner \/ UNCHANGED Request!vars
    <2>1. UNCHANGED <<texts, again, request>>
        BY <1>5 DEF Request!Archive, Request!OptOut, Request!StartRun, Request!EndRun,
                    Request!Preview, Request!ProviderRefuses, Request!NotifyOwner, Request!vars
    <2> QED BY <1>1, <2>1
<1>6. CASE Request!Take
    <2>1. \A r \in Requests : (request'[r].status = "none") = (request[r].status = "none")
        BY <1>6 DEF Request!Take, Request!Row
    <2> QED BY <1>1, <1>6, <2>1 DEF Request!Take
<1>7. CASE Request!ProviderAccepts \/ Request!AnswerLost
    <2>1. PICK r \in current : /\ texts' = [texts EXCEPT ![r] = @ + 1]
                               /\ again' = again \/ again' = [again EXCEPT ![r] = @ + 1]
        BY <1>7 DEF Request!ProviderAccepts, Request!AnswerLost, Request!Accept
    <2>2. r \in Requests /\ pc = "send" /\ UNCHANGED request
        BY <1>7, <2>1 DEF Request!ProviderAccepts, Request!AnswerLost
    <2>3. texts[r] < Owed(r)
        BY <2>1, <2>2 DEF ReasonsLeft, Reason, Sending, AtWork
    <2> HIDE DEF RequestTyped
    <2> QED BY <2>1, <2>2, <2>3, RequestDelivers
<1>8. CASE Request!MarkSent
    <2>1. PICK q \in Requests : current = {q} /\ \A r \in Requests \ {q} : request'[r] = request[r]
        BY <1>8, MarkSentStores
    <2>2. request[q].status # "none" /\ request'[q].status # "none"
        BY <1>8, <2>1, StayCreated DEF Created, OnHand, Request!Next, Request!Job
    <2>3. \A r \in Requests : (request'[r].status = "none") = (request[r].status = "none")
        BY <2>1, <2>2
    <2> QED BY <1>1, <1>8, <2>3 DEF Request!MarkSent
<1>9. CASE Request!RecordFailure
    <2>1. PICK q \in Requests : current = {q} /\ \A r \in Requests \ {q} : request'[r] = request[r]
        BY <1>9, RecordFailureStores
    <2>2. request[q].status # "none" /\ request'[q].status # "none"
        BY <1>9, <2>1, StayCreated DEF Created, OnHand, Request!Next, Request!Job
    <2>3. \A r \in Requests : (request'[r].status = "none") = (request[r].status = "none")
        BY <2>1, <2>2
    <2> QED BY <1>1, <1>9, <2>3 DEF Request!RecordFailure
<1>10. CASE Request!Crash
    <2>1. \A r \in Requests :
             Owed(r)' = IF r \in {q \in current : pc = "mark"} THEN Owed(r) + 1 ELSE Owed(r)
        BY <1>10 DEF Request!Crash, Owed
    <2> QED BY <1>10, <2>1, RequestAsks DEF Request!Crash
<1>11. ASSUME NEW c \in callbacks, Request!Callback(c) PROVE Request!Delivery!Next
    <2>1. c.request \in Requests /\ c.status \in {"queued", "sent", "delivered", "failed"}
        BY Constants
    <2>2. /\ request' = [request EXCEPT ![c.request].status = Request!StatusMap[c.status]]
          /\ UNCHANGED texts
          /\ \/ again' = [again EXCEPT ![c.request] = @ + 1]
             \/ again' = again
        BY <1>11 DEF Request!Callback
    <2>3. request[c.request].status # "none" /\ Request!StatusMap[c.status] # "none"
        BY <2>1 DEF Request!StatusMap, Created, OnHand
    <2>4. \A r \in Requests : (request'[r].status = "none") = (request[r].status = "none")
        BY <2>1, <2>2, <2>3 DEF Request!Row
    <2>5. CASE again' = [again EXCEPT ![c.request] = @ + 1]
        <3>1. \A r \in Requests : Owed(r)' = IF r \in {c.request} THEN Owed(r) + 1 ELSE Owed(r)
            BY <2>1, <2>4, <2>5 DEF Owed
        <3> QED BY <2>1, <2>2, <3>1, RequestAsks
    <2> QED BY <1>1, <2>2, <2>4, <2>5
<1> HIDE DEF RequestTyped, RequestTypes
<1> QED BY <1>2, <1>3, <1>4, <1>5, <1>6, <1>7, <1>8, <1>9, <1>10, <1>11
        DEF Request!Next, Request!Job

\* The inductive invariant of review requests.
RequestInv == RequestTyped /\ LoadedFits /\ CountsRequests /\ FailuresTold /\ ReasonsLeft

\* It holds initially, and Deliveries starts there.
LEMMA RequestInit == ASSUME Request!Init PROVE RequestInv /\ Request!Delivery!Init
<1> USE Constants DEF Request!Init
<1>1. RequestTyped
    <2>1. Request!NoRow \in Request!Row
        BY DEF Request!NoRow, Request!Row, Request!Channels
    <2>2. /\ request \in [Requests -> Request!Row] /\ seen \in Request!Row
          /\ texts \in [Requests -> Nat] /\ again \in [Requests -> Nat]
        BY <2>1
    <2>3. pc = "idle" /\ current = {} /\ faults \in 0..MaxFaults
        OBVIOUS
    <2>4. RequestTypes
        BY <2>2, <2>3 DEF RequestTypes
    <2> QED BY <2>4 DEF RequestTyped, OneCurrent, Created, OnHand
<1>2. LoadedFits /\ FailuresTold
    BY DEF LoadedFits, FailuresTold, AtWork, Request!NoRow
<1>3. ReasonsLeft
    <2>1. ASSUME NEW r \in Requests PROVE Reason(r)
        <3>1. /\ request[r].status = "none" /\ request[r].retry = "none"
              /\ texts[r] = 0 /\ again[r] = 0 /\ batch = {} /\ current = {}
            BY DEF Request!NoRow
        <3> HIDE DEF Request!Init
        <3> QED BY <3>1 DEF Reason, Owed, Sending
    <2> QED BY <2>1 DEF ReasonsLeft
<1>4. CountsRequests
    <2>1. SentRows = {}
        BY DEF SentRows, Request!NoRow
    <2> QED BY <2>1, FS_EmptySet DEF CountsRequests
<1>5. Request!Delivery!Init
    BY DEF Request!Delivery!Init, Request!NoRow
<1> QED BY <1>1, <1>2, <1>3, <1>4, <1>5 DEF RequestInv

\* It is kept, and each step is one of Deliveries.
LEMMA RequestStep == ASSUME RequestInv, [Request!Next]_(Request!vars)
                     PROVE  RequestInv' /\ [Request!Delivery!Next]_(Request!Delivery!vars)
BY RequestTypedStep, LoadedFitsStep, CountsRequestsStep, FailuresToldStep, ReasonsLeftStep,
   RequestImplements DEF RequestInv

\* What it implies.
LEMMA RequestPromises == ASSUME RequestInv
    PROVE  /\ Request!TypeOK
           /\ Request!CampaignCountsRequests
           /\ Request!FailureIsReported
<1>1. Request!TypeOK
    <2>1. Request!Cardinality(current) <= 1
        <3>1. Cardinality(current) \in {0, 1}
            BY FS_EmptySet, FS_Singleton DEF RequestInv, RequestTyped, OneCurrent
        <3> QED BY <3>1, SameRequestCardinality
    <2> QED BY <2>1 DEF RequestInv, RequestTyped, RequestTypes, Request!TypeOK
<1>2. Request!CampaignCountsRequests
    BY SameRequestCardinality
       DEF RequestInv, CountsRequests, SentRows, Request!CampaignCountsRequests
<1>3. Request!FailureIsReported
    BY DEF RequestInv, FailuresTold, Request!FailureIsReported
<1> QED BY <1>1, <1>2, <1>3

-----------------------------------------------------------------------------
(* Missed calls. *)

\* The places of a request that handles a missed call.
WithCall == {"count", "bump", "preview", "send", "find", "create", "file",
             "file_counted", "alert"}
\* What a worker has in hand.
Serving == [pc : Call!Places, call : Calls \cup {NoCall}, seen : Nat]

\* Call!TypeOK with plain numbers for the counts.
CallTypes ==
    /\ logged \subseteq Calls /\ texted \subseteq logged
    /\ missed \in Nat /\ smsSent \in Nat
    /\ thread \in BOOLEAN /\ unread \in Nat
    /\ doing \in [Workers -> Serving]
    /\ callTexts \in [Calls -> Nat]
    /\ alerted \subseteq logged /\ callExcused \subseteq logged
    /\ unseen \in Nat
    /\ overlapped \in BOOLEAN
    /\ messages \in 0..MaxMessages /\ reads \in Nat /\ callFaults \in Nat
\* A worker that handles a missed call has one that is logged, and no other has.
CallFits == \A w \in Workers :
    IF doing[w].pc \in WithCall THEN doing[w].call \in logged ELSE doing[w].call = NoCall
CallTyped == CallTypes /\ CallFits

\* A worker that goes on with what it has read.
LEMMA SeeingTyped ==
    ASSUME CallTyped, NEW w \in Workers, NEW p \in Call!Places, NEW n \in Nat,
           Call!GoSeeing(w, p, n)
    PROVE  /\ doing' \in [Workers -> Serving]
           /\ doing'[w].pc = p /\ doing'[w].call = doing[w].call
           /\ \A v \in Workers \ {w} : doing'[v] = doing[v]
<1>1. doing' = [doing EXCEPT ![w] = [@ EXCEPT !.pc = p, !.seen = n]]
    BY DEF Call!GoSeeing
<1>2. doing \in [Workers -> Serving] /\ doing[w] \in Serving
    BY DEF CallTyped, CallTypes
<1>3. [doing[w] EXCEPT !.pc = p, !.seen = n] \in Serving
    BY <1>2 DEF Serving
<1>4. /\ [doing[w] EXCEPT !.pc = p, !.seen = n].pc = p
      /\ [doing[w] EXCEPT !.pc = p, !.seen = n].call = doing[w].call
    BY <1>2 DEF Serving
<1> QED BY <1>1, <1>2, <1>3, <1>4

\* The types are inductive.
LEMMA CallTypedStep == ASSUME CallTyped, [Call!Next]_(Call!vars) PROVE CallTyped'
<1> USE Constants DEF CallTyped, CallTypes, CallFits, WithCall, Serving, Call!Places, Call!At,
        Call!Idle, Call!counts, Call!history, Call!bounds, Call!Go, Call!GoSeeing, Call!Finish
<1>1. ASSUME NEW w \in Workers, NEW c \in Calls, Call!LogCall(w, c) PROVE CallTyped'
    BY <1>1 DEF Call!LogCall, Call!Start
<1>2. ASSUME NEW w \in Workers, Call!ReadCounts(w) PROVE CallTyped'
    <2>1. doing[w].pc = "count" /\ Call!GoSeeing(w, "bump", missed)
        BY <1>2 DEF Call!ReadCounts
    <2>2. /\ doing' \in [Workers -> Serving]
          /\ doing'[w].pc = "bump" /\ doing'[w].call = doing[w].call
          /\ \A v \in Workers \ {w} : doing'[v] = doing[v]
        BY <2>1, SeeingTyped
    <2> QED BY <1>2, <2>1, <2>2 DEF Call!ReadCounts
<1>3. ASSUME NEW w \in Workers, Call!CommitCounts(w) PROVE CallTyped'
    BY <1>3 DEF Call!CommitCounts
<1>4. ASSUME NEW w \in Workers, Call!Preview(w) PROVE CallTyped'
    <2>1. PICK p \in {"send", "alert"} : Call!GoSeeing(w, p, smsSent)
        BY <1>4 DEF Call!Preview
    <2>2. /\ doing' \in [Workers -> Serving]
          /\ doing'[w].pc = p /\ doing'[w].call = doing[w].call
          /\ \A v \in Workers \ {w} : doing'[v] = doing[v]
        BY <2>1, SeeingTyped
    <2>3. doing[w].pc = "preview"
        BY <1>4 DEF Call!Preview
    <2> QED BY <1>4, <2>2, <2>3 DEF Call!Preview
<1>5. ASSUME NEW w \in Workers, Call!TwilioAccepts(w) PROVE CallTyped'
    BY <1>5 DEF Call!TwilioAccepts, Call!Accept
<1>6. ASSUME NEW w \in Workers, Call!TwilioRefuses(w) PROVE CallTyped'
    BY <1>6 DEF Call!TwilioRefuses
<1>7. ASSUME NEW w \in Workers, Call!AnswerLost(w) PROVE CallTyped'
    BY <1>7 DEF Call!AnswerLost, Call!Accept
<1>8. ASSUME NEW w \in Workers, Call!FindThread(w) PROVE CallTyped'
    BY <1>8 DEF Call!FindThread
<1>9. ASSUME NEW w \in Workers, Call!CreateThread(w) PROVE CallTyped'
    BY <1>9 DEF Call!CreateThread, Call!RecordText
<1>10. ASSUME NEW w \in Workers, Call!LoseThreadRace(w) PROVE CallTyped'
    BY <1>10 DEF Call!LoseThreadRace
<1>11. ASSUME NEW w \in Workers, Call!FileText(w) PROVE CallTyped'
    BY <1>11 DEF Call!FileText, Call!RecordText
<1>12. ASSUME NEW w \in Workers, Call!AlertOwner(w) PROVE CallTyped'
    BY <1>12 DEF Call!AlertOwner
<1>13. ASSUME NEW w \in Workers, Call!Crash(w) PROVE CallTyped'
    BY <1>13 DEF Call!Crash
<1>14. ASSUME NEW w \in Workers, Call!Receive(w) PROVE CallTyped'
    BY <1>14 DEF Call!Receive, Call!Start
<1>15. ASSUME NEW w \in Workers, Call!OpenThread(w) PROVE CallTyped'
    BY <1>15 DEF Call!OpenThread
<1>16. ASSUME NEW w \in Workers, Call!StoreMessage(w) PROVE CallTyped'
    BY <1>16 DEF Call!StoreMessage
<1>17. ASSUME NEW w \in Workers, Call!ReadThread(w) PROVE CallTyped'
    BY <1>17 DEF Call!ReadThread, Call!Start
<1>18. ASSUME NEW w \in Workers, Call!MarkRead(w) PROVE CallTyped'
    BY <1>18 DEF Call!MarkRead
<1>19. CASE UNCHANGED Call!vars
    BY <1>19 DEF Call!vars
<1> HIDE DEF CallTyped, CallTypes, CallFits
<1> QED BY <1>1, <1>2, <1>3, <1>4, <1>5, <1>6, <1>7, <1>8, <1>9, <1>10, <1>11, <1>12, <1>13,
           <1>14, <1>15, <1>16, <1>17, <1>18, <1>19
        DEF Call!Next

\* No two workers handle one call.
OneHandler == \A v, w \in Workers : doing[v].call = doing[w].call /\ doing[w].call # NoCall => v = w

\* How far the handler of a call has come.
BeforeText == {"count", "bump", "preview", "send"}
Progress(w) ==
    /\ doing[w].pc \in BeforeText =>
          callTexts[doing[w].call] = 0 /\ doing[w].call \notin texted
    /\ doing[w].pc \in {"find", "create", "file"} =>
          callTexts[doing[w].call] = 1 /\ doing[w].call \notin texted
    /\ doing[w].pc = "file_counted" =>
          callTexts[doing[w].call] = 1 /\ doing[w].call \in texted
\* No call gets a second text, and none that is not logged gets any.
NoneUnlogged == \A c \in Calls : callTexts[c] <= IF c \in logged THEN 1 ELSE 0
\* A logged call is being handled, has its text, was reported or is excused.
Handled(c) == \/ \E w \in Workers : doing[w].call = c
              \/ c \in alerted
              \/ c \in texted /\ callTexts[c] = 1
\* How each missed call fares, and who sees to it.
CallsInHand ==
    /\ OneHandler
    /\ \A w \in Workers : Progress(w)
    /\ NoneUnlogged
    /\ \A c \in logged \ callExcused : Handled(c)

\* CallsInHand is kept.
LEMMA CallsInHandStep == ASSUME CallTyped, CallTyped', CallsInHand,
                                [Call!Next]_(Call!vars) PROVE CallsInHand'
<1> USE Constants DEF CallTyped, CallTypes, CallFits, WithCall, Serving, Call!At,
        CallsInHand, OneHandler, BeforeText, Progress, NoneUnlogged, Handled,
        Call!Idle, Call!counts, Call!history, Call!bounds, Call!Go, Call!GoSeeing, Call!Finish
<1>1. ASSUME NEW w \in Workers, NEW c \in Calls, Call!LogCall(w, c) PROVE CallsInHand'
    BY <1>1 DEF Call!LogCall, Call!Start
<1>2. ASSUME NEW w \in Workers, Call!ReadCounts(w) PROVE CallsInHand'
    BY <1>2 DEF Call!ReadCounts
<1>3. ASSUME NEW w \in Workers, Call!CommitCounts(w) PROVE CallsInHand'
    BY <1>3 DEF Call!CommitCounts
<1>4. ASSUME NEW w \in Workers, Call!Preview(w) PROVE CallsInHand'
    BY <1>4 DEF Call!Preview
<1>5. ASSUME NEW w \in Workers, Call!TwilioAccepts(w) PROVE CallsInHand'
    BY <1>5 DEF Call!TwilioAccepts, Call!Accept
<1>6. ASSUME NEW w \in Workers, Call!TwilioRefuses(w) PROVE CallsInHand'
    BY <1>6 DEF Call!TwilioRefuses
<1>7. ASSUME NEW w \in Workers, Call!AnswerLost(w) PROVE CallsInHand'
    BY <1>7 DEF Call!AnswerLost, Call!Accept
<1>8. ASSUME NEW w \in Workers, Call!FindThread(w) PROVE CallsInHand'
    BY <1>8 DEF Call!FindThread
<1>9. ASSUME NEW w \in Workers, Call!CreateThread(w) PROVE CallsInHand'
    BY <1>9 DEF Call!CreateThread, Call!RecordText
<1>10. ASSUME NEW w \in Workers, Call!LoseThreadRace(w) PROVE CallsInHand'
    BY <1>10 DEF Call!LoseThreadRace
<1>11. ASSUME NEW w \in Workers, Call!FileText(w) PROVE CallsInHand'
    BY <1>11 DEF Call!FileText, Call!RecordText
<1>12. ASSUME NEW w \in Workers, Call!AlertOwner(w) PROVE CallsInHand'
    BY <1>12 DEF Call!AlertOwner
<1>13. ASSUME NEW w \in Workers, Call!Crash(w) PROVE CallsInHand'
    BY <1>13 DEF Call!Crash
<1>14. ASSUME NEW w \in Workers, Call!Receive(w) PROVE CallsInHand'
    BY <1>14 DEF Call!Receive, Call!Start
<1>15. ASSUME NEW w \in Workers, Call!OpenThread(w) PROVE CallsInHand'
    <2>1. doing[w].call = NoCall
        BY <1>15 DEF Call!OpenThread
    <2>2. doing'[w].pc \in {"idle", "store"} /\ doing'[w].call = NoCall
        BY <1>15, <2>1 DEF Call!OpenThread
    <2>3. \A v \in Workers \ {w} : doing'[v] = doing[v]
        BY <1>15 DEF Call!OpenThread
    <2>4. UNCHANGED <<logged, texted, callTexts, alerted, callExcused>>
        BY <1>15 DEF Call!OpenThread
    <2> QED BY <2>1, <2>2, <2>3, <2>4
<1>16. ASSUME NEW w \in Workers, Call!StoreMessage(w) PROVE CallsInHand'
    BY <1>16 DEF Call!StoreMessage
<1>17. ASSUME NEW w \in Workers, Call!ReadThread(w) PROVE CallsInHand'
    BY <1>17 DEF Call!ReadThread, Call!Start
<1>18. ASSUME NEW w \in Workers, Call!MarkRead(w) PROVE CallsInHand'
    BY <1>18 DEF Call!MarkRead
<1>19. CASE UNCHANGED Call!vars
    BY <1>19 DEF Call!vars
<1> HIDE DEF CallTyped, CallTypes, CallFits, CallsInHand
<1> QED BY <1>1, <1>2, <1>3, <1>4, <1>5, <1>6, <1>7, <1>8, <1>9, <1>10, <1>11, <1>12, <1>13,
           <1>14, <1>15, <1>16, <1>17, <1>18, <1>19
        DEF Call!Next

\* A component's Cardinality is the library's.
LEMMA SameCallCardinality == ASSUME NEW S PROVE Call!Cardinality(S) = Cardinality(S)
BY DEF Call!Cardinality, Cardinality

\* The logged calls whose count is not still to come.
Counted == {c \in logged :
              \A w \in Workers : doing[w].call = c => doing[w].pc \notin {"count", "bump"}}
\* The places of a handler that has read the count of texts.
WithSettings == {"send", "find", "create", "file"}
\* The counts of calls and of texts may lag behind the rows and never run ahead, nor
\* does what a handler has read of them.
CountsBehind ==
    /\ IsFiniteSet(logged)
    /\ missed <= Cardinality(Counted)
    /\ smsSent <= Cardinality(texted)
    /\ \A w \in Workers :
         /\ doing[w].pc = "bump" => doing[w].seen <= Cardinality(Counted)
         /\ doing[w].pc \in WithSettings => doing[w].seen <= Cardinality(texted)

\* What is counted stays counted, what is texted texted.
CallsGrow ==
    /\ logged' = logged \/ \E c \in Calls : logged' = logged \cup {c}
    /\ Counted \subseteq Counted'
    /\ texted \subseteq texted'

\* Counted and texted calls stay so, whatever step is taken.
LEMMA CountedGrows == ASSUME CallTyped, CallsInHand, [Call!Next]_(Call!vars)
    PROVE  CallsGrow
<1> USE DEF CallTyped, CallTypes, CallFits, WithCall, Serving, Call!At, CallsInHand, OneHandler,
        Call!Idle, Call!counts, Call!history, Call!bounds, Call!Go, Call!GoSeeing, Call!Finish,
        Counted, CallsGrow
<1>1. ASSUME NEW w \in Workers, NEW c \in Calls, Call!LogCall(w, c) PROVE CallsGrow
    BY <1>1 DEF Call!LogCall, Call!Start
<1>2. ASSUME NEW w \in Workers, Call!ReadCounts(w) PROVE CallsGrow
    BY <1>2 DEF Call!ReadCounts
<1>3. ASSUME NEW w \in Workers, Call!CommitCounts(w) PROVE CallsGrow
    BY <1>3 DEF Call!CommitCounts
<1>4. ASSUME NEW w \in Workers, Call!Preview(w) PROVE CallsGrow
    BY <1>4 DEF Call!Preview
<1>5. ASSUME NEW w \in Workers,
             Call!TwilioAccepts(w) \/ Call!TwilioRefuses(w) \/ Call!AnswerLost(w)
             \/ Call!FindThread(w) \/ Call!LoseThreadRace(w) \/ Call!AlertOwner(w)
      PROVE  CallsGrow
    BY <1>5 DEF Call!TwilioAccepts, Call!TwilioRefuses, Call!AnswerLost, Call!FindThread,
                Call!LoseThreadRace, Call!AlertOwner
<1>6. ASSUME NEW w \in Workers, Call!CreateThread(w) \/ Call!FileText(w) PROVE CallsGrow
    BY <1>6 DEF Call!CreateThread, Call!FileText, Call!RecordText
<1>7. ASSUME NEW w \in Workers, Call!Crash(w) PROVE CallsGrow
    BY <1>7 DEF Call!Crash
<1>8. ASSUME NEW w \in Workers, Call!Receive(w) \/ Call!ReadThread(w) PROVE CallsGrow
    BY <1>8 DEF Call!Receive, Call!ReadThread, Call!Start
<1>9. ASSUME NEW w \in Workers, Call!OpenThread(w) PROVE CallsGrow
    BY <1>9 DEF Call!OpenThread
<1>10. ASSUME NEW w \in Workers, Call!StoreMessage(w) \/ Call!MarkRead(w) PROVE CallsGrow
    BY <1>10 DEF Call!StoreMessage, Call!MarkRead
<1>11. CASE UNCHANGED Call!vars
    BY <1>11 DEF Call!vars
<1> HIDE DEF CallTyped, CallTypes, CallFits, CallsInHand, CallsGrow
<1> QED BY <1>1, <1>2, <1>3, <1>4, <1>5, <1>6, <1>7, <1>8, <1>9, <1>10, <1>11 DEF Call!Next

\* CountsBehind is kept.
LEMMA CountsBehindStep ==
    ASSUME CallTyped, CallTyped', CallsInHand, CountsBehind, [Call!Next]_(Call!vars)
    PROVE  CountsBehind'
<1>1. /\ IsFiniteSet(logged') /\ IsFiniteSet(Counted') /\ IsFiniteSet(texted')
      /\ Counted \subseteq Counted' /\ texted \subseteq texted'
    <2>1. IsFiniteSet(logged')
        BY CountedGrows, FS_AddElement DEF CountsBehind, CallsGrow
    <2>2. Counted' \subseteq logged' /\ texted' \subseteq logged'
        BY DEF Counted, CallTyped, CallTypes
    <2> QED BY <2>1, <2>2, CountedGrows, FS_Subset DEF CallsGrow
<1>2. /\ Cardinality(Counted) \in Nat /\ Cardinality(Counted') \in Nat
      /\ Cardinality(texted) \in Nat /\ Cardinality(texted') \in Nat
      /\ Cardinality(Counted) <= Cardinality(Counted')
      /\ Cardinality(texted) <= Cardinality(texted')
    <2>1. IsFiniteSet(Counted) /\ IsFiniteSet(texted)
        BY <1>1, FS_Subset
    <2> QED BY <1>1, <2>1, FS_Subset, FS_CardinalityType
<1>3. ASSUME NEW S, NEW T, NEW c, S \subseteq T, IsFiniteSet(T), c \in T, c \notin S
      PROVE  Cardinality(S) + 1 <= Cardinality(T)
    <2>1. S \cup {c} \subseteq T /\ IsFiniteSet(S)
        BY <1>3, FS_Subset
    <2>2. Cardinality(S \cup {c}) = Cardinality(S) + 1
        BY <1>3, <2>1, FS_AddElement
    <2> QED BY <1>3, <2>1, <2>2, FS_Subset
<1> DEFINE Stays == /\ missed' <= Cardinality(Counted')
                    /\ smsSent' <= Cardinality(texted')
                    /\ \A w \in Workers :
                         /\ doing'[w].pc = "bump" => doing'[w].seen <= Cardinality(Counted')
                         /\ doing'[w].pc \in WithSettings => doing'[w].seen <= Cardinality(texted')
<1>4. Stays => CountsBehind'
    BY <1>1 DEF CountsBehind
<1> USE DEF CallTyped, CallTypes, CallFits, WithCall, Serving, Call!At,
        Call!Idle, Call!counts, Call!history, Call!bounds, Call!Go, Call!Finish,
        CountsBehind, WithSettings
\* Workers go on, and read no counts.
<1>5. ASSUME UNCHANGED <<missed, smsSent>>, NEW w \in Workers,
             \A v \in Workers \ {w} : doing'[v] = doing[v],
             \/ doing'[w].pc \notin {"bump"} \cup WithSettings
             \/ doing'[w].pc \in WithSettings /\ doing[w].pc \in WithSettings
                /\ doing'[w].seen = doing[w].seen
             \/ doing'[w].pc = "bump" /\ doing'[w].seen = missed
             \/ doing'[w].pc = "send" /\ doing'[w].seen = smsSent
      PROVE  Stays
    <2>1. ASSUME NEW v \in Workers PROVE doing[v].seen \in Nat /\ doing'[v].seen \in Nat
        BY DEF CallTyped, CallTypes, Serving
    <2>2. missed \in Nat /\ smsSent \in Nat
        BY DEF CallTyped, CallTypes
    <2>3. ASSUME NEW v \in Workers \ {w}
          PROVE  /\ doing'[v].pc = "bump" => doing'[v].seen <= Cardinality(Counted')
                 /\ doing'[v].pc \in WithSettings => doing'[v].seen <= Cardinality(texted')
        <3> HIDE DEF CallTyped
        <3> QED BY <1>2, <1>5, <2>1
    <2>4. /\ doing'[w].pc = "bump" => doing'[w].seen <= Cardinality(Counted')
          /\ doing'[w].pc \in WithSettings => doing'[w].seen <= Cardinality(texted')
        <3> HIDE DEF CallTyped
        <3> QED BY <1>2, <1>5, <2>1, <2>2
    <2> HIDE DEF CallTyped
    <2> QED BY <1>2, <1>5, <2>2, <2>3, <2>4
<1>6. ASSUME NEW w \in Workers, NEW c \in Calls, Call!LogCall(w, c) PROVE Stays
    BY <1>5, <1>6 DEF Call!LogCall, Call!Start
<1>7. ASSUME NEW w \in Workers, Call!ReadCounts(w) PROVE Stays
    BY <1>5, <1>7 DEF Call!ReadCounts, Call!GoSeeing
<1>8. ASSUME NEW w \in Workers, Call!Preview(w) PROVE Stays
    BY <1>5, <1>8 DEF Call!Preview, Call!GoSeeing
<1>9. ASSUME NEW w \in Workers,
             Call!TwilioAccepts(w) \/ Call!TwilioRefuses(w) \/ Call!AnswerLost(w)
             \/ Call!FindThread(w) \/ Call!LoseThreadRace(w) \/ Call!AlertOwner(w)
      PROVE  Stays
    BY <1>5, <1>9
       DEF Call!TwilioAccepts, Call!TwilioRefuses, Call!AnswerLost, Call!FindThread,
                Call!LoseThreadRace, Call!AlertOwner
<1>10. ASSUME NEW w \in Workers, Call!Crash(w) \/ Call!StoreMessage(w) \/ Call!MarkRead(w)
       PROVE  Stays
    BY <1>5, <1>10 DEF Call!Crash, Call!StoreMessage, Call!MarkRead
<1>11. ASSUME NEW w \in Workers, Call!Receive(w) \/ Call!ReadThread(w) PROVE Stays
    BY <1>5, <1>11 DEF Call!Receive, Call!ReadThread, Call!Start
<1>12. ASSUME NEW w \in Workers, Call!OpenThread(w) PROVE Stays
    BY <1>5, <1>12 DEF Call!OpenThread, Call!GoSeeing
<1>13. ASSUME NEW w \in Workers, Call!CommitCounts(w) PROVE Stays
    <2>1. /\ missed' = doing[w].seen + 1 /\ smsSent' = smsSent
          /\ doing[w].pc = "bump" /\ doing'[w].pc = "preview"
          /\ \A v \in Workers \ {w} : doing'[v] = doing[v]
          /\ doing'[w].call = doing[w].call
        BY <1>13 DEF Call!CommitCounts
    <2>2. doing[w].call \in logged' /\ doing[w].call \in Calls
        BY <1>13, <2>1 DEF Call!CommitCounts
    <2>3. doing[w].call \in Counted' /\ doing[w].call \notin Counted
        BY <2>1, <2>2, Constants DEF Counted, CallsInHand, OneHandler
    <2>4. Cardinality(Counted) + 1 <= Cardinality(Counted')
        BY <1>1, <1>3, <2>3
    <2>5. doing[w].seen \in Nat /\ smsSent \in Nat /\ \A v \in Workers : doing'[v].seen \in Nat
        OBVIOUS
    <2> HIDE DEF CallTyped
    <2> QED BY <1>2, <2>1, <2>4, <2>5
<1>14. ASSUME NEW w \in Workers, Call!CreateThread(w) \/ Call!FileText(w) PROVE Stays
    <2>1. CASE Call!FileText(w) /\ doing[w].pc = "file_counted"
        BY <1>5, <2>1 DEF Call!FileText
    <2>2. CASE doing[w].pc \in {"create", "file"}
        <3>1. /\ smsSent' = doing[w].seen + 1 /\ missed' = missed
              /\ doing'[w].pc \in {"file_counted", "idle"}
              /\ \A v \in Workers \ {w} : doing'[v] = doing[v]
              /\ texted' = texted \cup {doing[w].call}
            BY <1>14, <2>2 DEF Call!CreateThread, Call!FileText, Call!RecordText
        <3>2. doing[w].call \notin texted
            BY <2>2 DEF CallsInHand, Progress
        <3>3. Cardinality(texted) + 1 <= Cardinality(texted')
            BY <1>1, <1>3, <3>1, <3>2
        <3>4. doing[w].seen \in Nat /\ missed \in Nat /\ \A v \in Workers : doing'[v].seen \in Nat
            OBVIOUS
        <3> HIDE DEF CallTyped
        <3> QED BY <1>2, <2>2, <3>1, <3>3, <3>4
    <2> QED BY <1>14, <2>1, <2>2 DEF Call!CreateThread, Call!FileText
<1>15. CASE UNCHANGED Call!vars
    <2>1. missed' = missed /\ smsSent' = smsSent /\ \A v \in Workers : doing'[v] = doing[v]
        BY <1>15 DEF Call!vars
    <2>2. missed \in Nat /\ smsSent \in Nat /\ \A v \in Workers : doing[v].seen \in Nat
        OBVIOUS
    <2> HIDE DEF CallTyped
    <2>3. ASSUME NEW v \in Workers
          PROVE  /\ doing'[v].pc = "bump" => doing'[v].seen <= Cardinality(Counted')
                 /\ doing'[v].pc \in WithSettings => doing'[v].seen <= Cardinality(texted')
        <3>1. doing'[v] = doing[v]
            BY <2>1
        <3> QED BY <1>2, <2>2, <3>1
    <2>4. missed' <= Cardinality(Counted') /\ smsSent' <= Cardinality(texted')
        BY <1>2, <2>1, <2>2
    <2> QED BY <1>4, <2>3, <2>4
<1> HIDE DEF CallTyped, CountsBehind, Stays
<1> QED BY <1>4, <1>6, <1>7, <1>8, <1>9, <1>10, <1>11, <1>12, <1>13, <1>14, <1>15
           DEF Call!Next

\* The requests that will store a message of the customer's.
Receiving == {w \in Workers : doing[w].pc \in {"open", "store"}}
\* The messages not yet read and those about to be stored have come.
UnseenBounded == IsFiniteSet(Receiving) /\ unseen + Cardinality(Receiving) <= messages

\* UnseenBounded is kept.
LEMMA UnseenBoundedStep ==
    ASSUME CallTyped, UnseenBounded, [Call!Next]_(Call!vars)
    PROVE  UnseenBounded'
<1> USE DEF Call!At, Call!Idle, Call!counts, Call!history, Call!bounds, Call!Go, Call!GoSeeing,
            Call!Finish
<1>1. /\ unseen \in Nat /\ messages \in Nat /\ Cardinality(Receiving) \in Nat
      /\ doing \in [Workers -> Serving]
    BY FS_CardinalityType, Constants DEF CallTyped, CallTypes, UnseenBounded
<1>2. ASSUME UNCHANGED messages, Receiving' \subseteq Receiving, unseen' \in Nat, unseen' <= unseen
      PROVE  UnseenBounded'
    BY <1>1, <1>2, FS_Subset, FS_CardinalityType DEF UnseenBounded
<1>3. ASSUME UNCHANGED <<messages, unseen>>, NEW w \in Workers,
             \A v \in Workers \ {w} : doing'[v] = doing[v],
             doing'[w].pc \in {"open", "store"} => doing[w].pc \in {"open", "store"}
      PROVE  UnseenBounded'
    <2>1. Receiving' \subseteq Receiving
        BY <1>3 DEF Receiving
    <2> QED BY <1>1, <1>2, <1>3, <2>1
<1>4. ASSUME NEW w \in Workers,
             \/ \E c \in Calls : Call!LogCall(w, c)
             \/ Call!ReadCounts(w) \/ Call!CommitCounts(w) \/ Call!Preview(w)
             \/ Call!TwilioAccepts(w) \/ Call!TwilioRefuses(w) \/ Call!AnswerLost(w)
             \/ Call!FindThread(w)
      PROVE  UnseenBounded'
    <2>1. /\ UNCHANGED <<messages, unseen>>
          /\ \A v \in Workers \ {w} : doing'[v] = doing[v]
          /\ doing'[w].pc \notin {"open", "store"}
        BY <1>1, <1>4
           DEF Serving, Call!LogCall, Call!Start, Call!ReadCounts, Call!CommitCounts,
               Call!Preview,
              Call!TwilioAccepts, Call!TwilioRefuses, Call!AnswerLost, Call!FindThread
    <2> QED BY <1>3, <2>1
<1>5. ASSUME NEW w \in Workers,
             \/ Call!CreateThread(w) \/ Call!LoseThreadRace(w) \/ Call!FileText(w)
             \/ Call!AlertOwner(w) \/ Call!Crash(w) \/ Call!ReadThread(w) \/ Call!OpenThread(w)
      PROVE  UnseenBounded'
    <2>1. /\ UNCHANGED <<messages, unseen>>
          /\ \A v \in Workers \ {w} : doing'[v] = doing[v]
          /\ doing'[w].pc \in {"open", "store"} => doing[w].pc = "open"
        BY <1>1, <1>5
           DEF Serving, Call!Start, Call!CreateThread, Call!LoseThreadRace, Call!FileText,
              Call!AlertOwner, Call!Crash, Call!ReadThread, Call!OpenThread
    <2> QED BY <1>3, <2>1
<1>6. ASSUME NEW w \in Workers, Call!Receive(w) PROVE UnseenBounded'
    <2>1. Receiving' = Receiving \cup {w}
        BY <1>1, <1>6 DEF Call!Receive, Call!Start, Receiving, Serving
    <2>2. IsFiniteSet(Receiving') /\ Cardinality(Receiving') <= Cardinality(Receiving) + 1
        <3>1. /\ IsFiniteSet(Receiving \cup {w})
              /\ Cardinality(Receiving \cup {w}) \in {Cardinality(Receiving),
                                                     Cardinality(Receiving) + 1}
            BY FS_AddElement DEF UnseenBounded
        <3> QED BY <1>1, <2>1, <3>1
    <2>3. Cardinality(Receiving') \in Nat
        BY <2>2, FS_CardinalityType
    <2>4. messages' = messages + 1 /\ unseen' = unseen
        BY <1>6 DEF Call!Receive
    <2> QED BY <1>1, <2>2, <2>3, <2>4 DEF UnseenBounded
<1>7. ASSUME NEW w \in Workers, Call!StoreMessage(w) PROVE UnseenBounded'
    <2>1. Receiving' = Receiving \ {w} /\ w \in Receiving
        BY <1>1, <1>7 DEF Call!StoreMessage, Receiving, Serving
    <2>2. IsFiniteSet(Receiving') /\ Cardinality(Receiving') = Cardinality(Receiving) - 1
        BY <2>1, FS_RemoveElement DEF UnseenBounded
    <2>3. messages' = messages /\ unseen' = unseen + 1
        BY <1>7 DEF Call!StoreMessage
    <2> QED BY <1>1, <2>2, <2>3 DEF UnseenBounded
<1>8. ASSUME NEW w \in Workers, Call!MarkRead(w) PROVE UnseenBounded'
    <2>1. Receiving' = Receiving \ {w}
        BY <1>1, <1>8 DEF Call!MarkRead, Receiving, Serving
    <2>2. messages' = messages /\ unseen' = 0
        BY <1>8 DEF Call!MarkRead
    <2> QED BY <1>1, <1>2, <2>1, <2>2
<1>9. CASE UNCHANGED Call!vars
    BY <1>9 DEF Call!vars, UnseenBounded, Receiving
<1> HIDE DEF UnseenBounded
<1> QED BY <1>4, <1>5, <1>6, <1>7, <1>8, <1>9 DEF Call!Next

-----------------------------------------------------------------------------
\* As long as no two requests have overlapped, what a request has read is what is stored.
ExactAlone == ~overlapped =>
    /\ \A v, w \in Workers : doing[v].pc # "idle" /\ doing[w].pc # "idle" => v = w
    /\ smsSent = Cardinality(texted)
    /\ unread = unseen
    /\ ~thread => unread = 0
    /\ \A w \in Workers :
         /\ doing[w].pc \in WithSettings => doing[w].seen = smsSent
         /\ doing[w].pc \in {"store", "mark"} => thread /\ doing[w].seen = unread

\* ExactAlone is kept: the first overlap is noted when a second request is taken up.
LEMMA ExactAloneStep ==
    ASSUME CallTyped, CallTyped', CallsInHand, CountsBehind, ExactAlone, [Call!Next]_(Call!vars)
    PROVE  ExactAlone'
<1> USE DEF CallTyped, CallTypes, Serving, ExactAlone, WithSettings, Call!At, Call!Idle, Call!counts,
        Call!history, Call!bounds, Call!Go, Call!Finish
<1>1. ASSUME NEW w \in Workers, NEW c \in Calls, Call!LogCall(w, c) PROVE ExactAlone'
    BY <1>1 DEF Call!LogCall, Call!Start
<1>2. ASSUME NEW w \in Workers, Call!ReadCounts(w) PROVE ExactAlone'
    BY <1>2 DEF Call!ReadCounts, Call!GoSeeing
<1>3. ASSUME NEW w \in Workers, Call!CommitCounts(w) PROVE ExactAlone'
    BY <1>3 DEF Call!CommitCounts
<1>4. ASSUME NEW w \in Workers, Call!Preview(w) PROVE ExactAlone'
    BY <1>4 DEF Call!Preview, Call!GoSeeing
<1>5. ASSUME NEW w \in Workers, Call!TwilioAccepts(w) PROVE ExactAlone'
    BY <1>5 DEF Call!TwilioAccepts
<1>6. ASSUME NEW w \in Workers, Call!TwilioRefuses(w) PROVE ExactAlone'
    BY <1>6 DEF Call!TwilioRefuses
<1>7. ASSUME NEW w \in Workers, Call!AnswerLost(w) PROVE ExactAlone'
    BY <1>7 DEF Call!AnswerLost
<1>8. ASSUME NEW w \in Workers, Call!FindThread(w) PROVE ExactAlone'
    BY <1>8 DEF Call!FindThread
<1>9. ASSUME NEW w \in Workers, doing[w].pc \in {"create", "file"}
      PROVE  Cardinality(texted \cup {doing[w].call}) = Cardinality(texted) + 1
    <2>1. doing[w].call \notin texted
        BY <1>9 DEF CallsInHand, Progress
    <2>2. IsFiniteSet(texted)
        BY FS_Subset DEF CountsBehind
    <2> QED BY <2>1, <2>2, FS_AddElement
<1>10. ASSUME NEW w \in Workers, Call!CreateThread(w) PROVE ExactAlone'
    BY <1>9, <1>10 DEF Call!CreateThread, Call!RecordText
<1>11. ASSUME NEW w \in Workers, Call!LoseThreadRace(w) PROVE ExactAlone'
    BY <1>11 DEF Call!LoseThreadRace
<1>12. ASSUME NEW w \in Workers, Call!FileText(w) PROVE ExactAlone'
    BY <1>9, <1>12 DEF Call!FileText, Call!RecordText
<1>13. ASSUME NEW w \in Workers, Call!AlertOwner(w) PROVE ExactAlone'
    BY <1>13 DEF Call!AlertOwner
<1>14. ASSUME NEW w \in Workers, Call!Crash(w) PROVE ExactAlone'
    BY <1>14 DEF Call!Crash
<1>15. ASSUME NEW w \in Workers, Call!Receive(w) PROVE ExactAlone'
    BY <1>15 DEF Call!Receive, Call!Start
<1>16. ASSUME NEW w \in Workers, Call!OpenThread(w) PROVE ExactAlone'
    BY <1>16 DEF Call!OpenThread, Call!GoSeeing
<1>17. ASSUME NEW w \in Workers, Call!StoreMessage(w) PROVE ExactAlone'
    BY <1>17 DEF Call!StoreMessage
<1>18. ASSUME NEW w \in Workers, Call!ReadThread(w) PROVE ExactAlone'
    BY <1>18 DEF Call!ReadThread, Call!Start
<1>19. ASSUME NEW w \in Workers, Call!MarkRead(w) PROVE ExactAlone'
    BY <1>19 DEF Call!MarkRead
<1>20. CASE UNCHANGED Call!vars
    BY <1>20 DEF Call!vars
<1> HIDE DEF CallTyped, CallTypes, ExactAlone
<1> QED BY <1>1, <1>2, <1>3, <1>4, <1>5, <1>6, <1>7, <1>8, <1>10, <1>11, <1>12, <1>13, <1>14,
           <1>15, <1>16, <1>17, <1>18, <1>19, <1>20
        DEF Call!Next

\* A call that is logged is Deliveries' Ask.
LEMMA CallAsks == ASSUME NEW items \in SUBSET Calls, UNCHANGED callTexts,
                         items \cap logged = {}, logged' = logged \cup items
                  PROVE  Call!Delivery!Next
<1>1. [c \in Calls |-> IF c \in logged' THEN 1 ELSE 0] =
      [c \in Calls |-> IF c \in items THEN (IF c \in logged THEN 1 ELSE 0) + 1
                                      ELSE IF c \in logged THEN 1 ELSE 0]
    OBVIOUS
<1> QED BY <1>1 DEF Call!Delivery!Next, Call!Delivery!Ask

\* Every step of missed calls is one of Deliveries, or none.
LEMMA CallImplements ==
    ASSUME CallTyped, CallsInHand, [Call!Next]_(Call!vars)
    PROVE  [Call!Delivery!Next]_(Call!Delivery!vars)
<1> USE DEF Call!At, Call!history, Call!bounds
<1>1. ASSUME UNCHANGED <<logged, callTexts>> PROVE UNCHANGED Call!Delivery!vars
    BY <1>1 DEF Call!Delivery!vars
<1>2. ASSUME NEW w \in Workers, NEW c \in Calls, Call!LogCall(w, c)
      PROVE  Call!Delivery!Next
    BY <1>2, CallAsks DEF Call!LogCall
<1>3. ASSUME NEW w \in Workers, Call!TwilioAccepts(w) \/ Call!AnswerLost(w)
      PROVE  Call!Delivery!Next
    <2>1. /\ doing[w].pc = "send" /\ UNCHANGED logged
          /\ callTexts' = [callTexts EXCEPT ![doing[w].call] = @ + 1]
        BY <1>3 DEF Call!TwilioAccepts, Call!AnswerLost, Call!Accept
    <2>2. doing[w].call \in logged /\ callTexts[doing[w].call] = 0 /\ doing[w].call \in Calls
        BY <2>1
           DEF CallTyped, CallTypes, CallFits, WithCall, CallsInHand, Progress, BeforeText
    <2> DEFINE R == [c \in Calls |-> IF c \in logged THEN 1 ELSE 0]
    <2>3. callTexts[doing[w].call] < R[doing[w].call] /\ R' = R
        BY <2>1, <2>2
    <2>4. Call!Delivery!Deliver(doing[w].call)
        BY <2>1, <2>3 DEF Call!Delivery!Deliver
    <2> QED BY <2>2, <2>4 DEF Call!Delivery!Next
<1>4. ASSUME NEW w \in Workers,
             \/ Call!ReadCounts(w) \/ Call!CommitCounts(w) \/ Call!Preview(w)
             \/ Call!TwilioRefuses(w) \/ Call!FindThread(w) \/ Call!CreateThread(w)
             \/ Call!LoseThreadRace(w) \/ Call!FileText(w) \/ Call!AlertOwner(w)
             \/ Call!Crash(w) \/ Call!Receive(w) \/ Call!OpenThread(w)
             \/ Call!StoreMessage(w) \/ Call!ReadThread(w) \/ Call!MarkRead(w)
      PROVE  UNCHANGED Call!Delivery!vars
    <2>1. UNCHANGED <<logged, callTexts>>
        BY <1>4 DEF Call!ReadCounts, Call!CommitCounts, Call!Preview, Call!TwilioRefuses,
              Call!FindThread, Call!CreateThread, Call!LoseThreadRace, Call!FileText,
              Call!AlertOwner, Call!Crash, Call!Receive, Call!OpenThread, Call!StoreMessage,
              Call!ReadThread, Call!MarkRead
    <2> QED BY <1>1, <2>1
<1>5. CASE UNCHANGED Call!vars
    BY <1>1, <1>5 DEF Call!vars
<1> QED BY <1>2, <1>3, <1>4, <1>5 DEF Call!Next

\* The inductive invariant of missed calls.
CallInv == CallTyped /\ CallsInHand /\ CountsBehind /\ UnseenBounded /\ ExactAlone

\* It holds initially, and Deliveries starts there.
LEMMA CallInit == ASSUME Call!Init PROVE CallInv /\ Call!Delivery!Init
<1> USE Constants DEF Call!Init, Call!Idle
<1>1. CallTyped
    <2>1. [pc |-> "idle", call |-> NoCall, seen |-> 0] \in Serving
        BY DEF Serving, Call!Places
    <2>2. doing \in [Workers -> Serving] /\ callTexts \in [Calls -> Nat]
        BY <2>1
    <2>3. CallFits
        BY DEF CallFits, WithCall
    <2>4. /\ logged = {} /\ texted = {} /\ alerted = {} /\ callExcused = {}
          /\ missed = 0 /\ smsSent = 0 /\ unread = 0 /\ unseen = 0
          /\ thread = FALSE /\ overlapped = FALSE
          /\ messages = 0 /\ reads = 0 /\ callFaults = 0
        OBVIOUS
    <2>5. messages \in 0..MaxMessages
        BY <2>4
    <2>6. /\ logged \subseteq Calls /\ texted \subseteq logged
          /\ alerted \subseteq logged /\ callExcused \subseteq logged
        BY <2>4
    <2> HIDE DEF Call!Init
    <2> QED BY <2>2, <2>3, <2>4, <2>5, <2>6 DEF CallTyped, CallTypes
<1>2. CallsInHand
    BY DEF CallsInHand, OneHandler, Progress, BeforeText, NoneUnlogged
<1>3. Counted = {} /\ Receiving = {}
    BY DEF Counted, Receiving
<1>4. CountsBehind /\ UnseenBounded /\ ExactAlone
    BY <1>3, FS_EmptySet DEF CountsBehind, UnseenBounded, ExactAlone, WithSettings
<1>5. Call!Delivery!Init
    BY DEF Call!Delivery!Init
<1> QED BY <1>1, <1>2, <1>4, <1>5 DEF CallInv

\* It is kept, and each step is one of Deliveries.
LEMMA CallStep == ASSUME CallInv, [Call!Next]_(Call!vars)
                  PROVE  CallInv' /\ [Call!Delivery!Next]_(Call!Delivery!vars)
<1>1. CallTyped /\ CallTyped' /\ CallsInHand /\ CountsBehind /\ UnseenBounded /\ ExactAlone
    BY CallTypedStep DEF CallInv
<1>2. CallsInHand' /\ CountsBehind' /\ UnseenBounded' /\ ExactAlone'
    BY <1>1, CallsInHandStep, CountsBehindStep, UnseenBoundedStep, ExactAloneStep
<1> QED BY <1>1, <1>2, CallImplements DEF CallInv

\* What it implies.
LEMMA CallPromises == ASSUME CallInv
    PROVE  /\ Call!TypeOK
           /\ Call!SentCountMatchesLogs
           /\ Call!TextOrAlert
           /\ Call!UnreadIsExact
<1>1. Call!TypeOK
    <2>1. missed \in 0..Call!Cardinality(logged)
        <3>1. Counted \in SUBSET logged
            BY DEF Counted
        <3>2. Cardinality(Counted) <= Cardinality(logged) /\ Cardinality(logged) \in Nat
              /\ Cardinality(Counted) \in Nat
            BY <3>1, FS_Subset, FS_CardinalityType DEF CallInv, CountsBehind
        <3> QED BY <3>2, SameCallCardinality DEF CallInv, CountsBehind, CallTyped, CallTypes
    <2>2. unseen \in 0..MaxMessages
        <3>1. Cardinality(Receiving) \in Nat
            BY FS_CardinalityType DEF CallInv, UnseenBounded
        <3> QED BY <3>1, Constants DEF CallInv, UnseenBounded, CallTyped, CallTypes
    <2> QED BY <2>1, <2>2 DEF CallInv, CallTyped, CallTypes, Serving, Call!TypeOK
<1>2. Call!SentCountMatchesLogs
    BY SameCallCardinality DEF CallInv, CountsBehind, ExactAlone, Call!SentCountMatchesLogs
<1>3. Call!TextOrAlert
    BY DEF CallInv, CallsInHand, Handled, Call!TextOrAlert, Call!Busy
<1>4. Call!UnreadIsExact
    BY DEF CallInv, ExactAlone, Call!UnreadIsExact
<1> QED BY <1>1, <1>2, <1>3, <1>4

-----------------------------------------------------------------------------
(* Replies to reviews. *)

\* A row exists exactly if it has a draft.
HasDraft(r) == r.status = "none" <=> r.draft = NoDraft
\* The places of a request that works on a row.
RowWork == {"approve", "retry", "reject", "load", "reply", "published", "failed"}
\* What a worker has in hand.
Replying == [pc : {"idle", "insert"} \cup RowWork, seen : Reply!Row,
             edit : Drafts \cup {NoDraft}]

\* Reply!TypeOK with the places above.
ReplyTypes ==
    /\ row \in Reply!Row /\ HasDraft(row)
    /\ live \in Drafts \cup {NoDraft}
    /\ replying \in [Workers -> Replying]
    /\ asked \in Nat /\ replies \in Nat
    /\ rivals \in BOOLEAN /\ lost \in BOOLEAN /\ crashed \in BOOLEAN
    /\ retries \in 0..MaxRetries /\ rejects \in 0..MaxRejects /\ replyFaults \in 0..MaxFaults
\* Who works on a row has one, and it is not taken away.
RowsExist == \A w \in Workers :
    /\ HasDraft(replying[w].seen)
    /\ replying[w].pc = "insert" => replying[w].edit \in Drafts
    /\ replying[w].pc \in RowWork => row.status # "none" /\ replying[w].seen.status # "none"
ReplyTyped == ReplyTypes /\ RowsExist

\* Store writes the columns that differ from what the worker has loaded.
LEMMA ReplyStored ==
    ASSUME ReplyTyped, NEW w \in Workers, NEW new \in Reply!Row, Reply!Store(w, new)
    PROVE  /\ row' \in Reply!Row
           /\ row'.status = IF new.status = replying[w].seen.status THEN row.status
                            ELSE new.status
           /\ row'.draft = IF new.draft = replying[w].seen.draft THEN row.draft ELSE new.draft
<1>1. DOMAIN new = {"status", "draft"}
    BY DEF Reply!Row
<1>2. row \in Reply!Row
    BY DEF ReplyTyped, ReplyTypes
<1>3. row' = [c \in DOMAIN new |-> IF new[c] = replying[w].seen[c] THEN row[c] ELSE new[c]]
    BY DEF Reply!Store
<1> QED BY <1>1, <1>2, <1>3 DEF Reply!Row

\* What each commit stores.
LEMMA StatusStored ==
    ASSUME ReplyTyped, NEW w \in Workers, NEW status \in Reply!Statuses \ {"none"},
           replying[w].pc \in RowWork,
           Reply!Store(w, [replying[w].seen EXCEPT !.status = status])
    PROVE  /\ row' \in Reply!Row /\ HasDraft(row')
           /\ row'.status = IF status = replying[w].seen.status THEN row.status ELSE status
           /\ row'.draft = row.draft
<1> DEFINE new == [replying[w].seen EXCEPT !.status = status]
<1>1. replying[w].seen \in Reply!Row /\ row \in Reply!Row
    BY DEF ReplyTyped, ReplyTypes, Replying
<1>2. new \in Reply!Row /\ new.status = status /\ new.draft = replying[w].seen.draft
    BY <1>1 DEF Reply!Row
<1> HIDE DEF new
<1>3. Reply!Store(w, new)
    BY DEF new
<1>4. /\ row' \in Reply!Row
      /\ row'.status = IF status = replying[w].seen.status THEN row.status ELSE status
      /\ row'.draft = row.draft
    BY <1>2, <1>3, ReplyStored
<1>5. row.status # "none" /\ HasDraft(row)
    BY DEF ReplyTyped, RowsExist, ReplyTypes
<1> QED BY <1>4, <1>5 DEF HasDraft

\* What an approval stores: the edited draft, if there is one.
LEMMA ApprovalStored ==
    ASSUME ReplyTyped, NEW w \in Workers, Reply!CommitApproval(w)
    PROVE  /\ row' \in Reply!Row /\ HasDraft(row')
           /\ row'.status = IF replying[w].seen.status = "approved" THEN row.status
                            ELSE "approved"
<1> DEFINE d == IF replying[w].edit = NoDraft THEN replying[w].seen.draft ELSE replying[w].edit
           new == [status |-> "approved", draft |-> d]
<1>1. /\ replying[w].seen \in Reply!Row /\ row \in Reply!Row
      /\ replying[w].edit \in Drafts \cup {NoDraft} /\ replying[w].pc = "approve"
    BY DEF ReplyTyped, ReplyTypes, Replying, Reply!CommitApproval, Reply!At
<1>2. /\ row.status # "none" /\ HasDraft(row) /\ HasDraft(replying[w].seen)
      /\ replying[w].seen.status # "none"
    BY <1>1 DEF ReplyTyped, RowsExist, ReplyTypes, RowWork
<1>3. d \in Drafts
    BY <1>1, <1>2, Constants DEF HasDraft, Reply!Row
<1>4. Reply!Store(w, new)
    BY DEF Reply!CommitApproval
<1> HIDE DEF d
<1>5. new \in Reply!Row /\ new.status = "approved" /\ new.draft = d
    BY <1>3 DEF Reply!Row, Reply!Statuses
<1> HIDE DEF new
<1>6. /\ row' \in Reply!Row
      /\ row'.status = IF "approved" = replying[w].seen.status THEN row.status ELSE "approved"
      /\ row'.draft = IF d = replying[w].seen.draft THEN row.draft ELSE d
    BY <1>4, <1>5, ReplyStored
<1>7. row'.status # "none" /\ row'.draft # NoDraft
    BY <1>2, <1>3, <1>6, Constants DEF HasDraft
<1> QED BY <1>6, <1>7 DEF HasDraft

\* The types and the rows at work are inductive.
LEMMA ReplyTypedStep == ASSUME ReplyTyped, [Reply!Next]_(Reply!vars) PROVE ReplyTyped'
<1> USE Constants DEF ReplyTyped, ReplyTypes, RowsExist, RowWork, Replying, Reply!At,
        Reply!history, Reply!bounds, Reply!Go, Reply!Finish
<1>1. HasDraft(Reply!NoRow) /\ Reply!Idle \in Replying /\ Reply!Idle.pc = "idle"
      /\ Reply!Idle.seen = Reply!NoRow
    BY DEF HasDraft, Reply!Idle, Reply!NoRow, Reply!Row, Reply!Statuses
<1>2. ASSUME NEW w \in Workers, NEW draft \in Drafts, Reply!Generate(w, draft)
      PROVE  ReplyTyped'
    BY <1>2 DEF Reply!Generate, Reply!Start
<1>3. ASSUME NEW w \in Workers, NEW edit \in Drafts \cup {NoDraft}, Reply!Approve(w, edit)
      PROVE  ReplyTyped'
    BY <1>3 DEF Reply!Approve, Reply!Start, Reply!NoteRivals
<1>4. ASSUME NEW w \in Workers, Reply!Retry(w) PROVE ReplyTyped'
    BY <1>4 DEF Reply!Retry, Reply!Start, Reply!NoteRivals
<1>5. ASSUME NEW w \in Workers, Reply!Reject(w) PROVE ReplyTyped'
    BY <1>5 DEF Reply!Reject, Reply!Start
<1>6. ASSUME NEW w \in Workers, Reply!Insert(w) PROVE ReplyTyped'
    <2>1. row' \in Reply!Row /\ HasDraft(row') /\ (row.status # "none" => row' = row)
        BY <1>6 DEF Reply!Insert, Reply!Row, Reply!Statuses, HasDraft
    <2> QED BY <1>1, <1>6, <2>1 DEF Reply!Insert
<1>7. ASSUME NEW w \in Workers, Reply!CommitApproval(w) PROVE ReplyTyped'
    <2>1. row' \in Reply!Row /\ HasDraft(row') /\ row'.status # "none"
        BY <1>7, ApprovalStored DEF Reply!CommitApproval
    <2> QED BY <1>7, <2>1 DEF Reply!CommitApproval
<1>8. ASSUME NEW w \in Workers, Reply!CommitRetry(w) PROVE ReplyTyped'
    <2>1. row' \in Reply!Row /\ HasDraft(row') /\ row'.status # "none"
        <3>1. replying[w].pc \in RowWork /\ row.status # "none"
              /\ Reply!Store(w, [replying[w].seen EXCEPT !.status = "approved"])
            BY <1>8 DEF Reply!CommitRetry
        <3>2. "approved" \in Reply!Statuses \ {"none"}
            BY DEF Reply!Statuses
        <3> HIDE DEF ReplyTyped
        <3> QED BY <3>1, <3>2, StatusStored
    <2> QED BY <1>8, <2>1 DEF Reply!CommitRetry
<1>9. ASSUME NEW w \in Workers,
             Reply!CommitRejection(w) \/ Reply!RecordPublished(w) \/ Reply!RecordFailed(w)
      PROVE  ReplyTyped'
    <2>1. PICK status \in {"rejected", "published", "failed"} :
              Reply!Store(w, [replying[w].seen EXCEPT !.status = status])
        BY <1>9 DEF Reply!CommitRejection, Reply!RecordPublished, Reply!RecordFailed
    <2>2. replying[w].pc \in RowWork /\ row.status # "none"
        BY <1>9 DEF Reply!CommitRejection, Reply!RecordPublished, Reply!RecordFailed
    <2>3. status \in Reply!Statuses \ {"none"}
        BY DEF Reply!Statuses
    <2>4. row' \in Reply!Row /\ HasDraft(row') /\ row'.status # "none"
        <3> HIDE DEF ReplyTyped
        <3> QED BY <2>1, <2>2, <2>3, StatusStored
    <2> QED BY <1>1, <1>9, <2>4
            DEF Reply!CommitRejection, Reply!RecordPublished, Reply!RecordFailed
<1>10. ASSUME NEW w \in Workers, Reply!Load(w) PROVE ReplyTyped'
    <2>1. replying' = [replying EXCEPT ![w] = [@ EXCEPT !.pc = "reply", !.seen = row]]
        BY <1>10 DEF Reply!Load
    <2>2. replying[w] \in Replying /\ replying[w].pc = "load"
        BY <1>10 DEF Reply!Load
    <2> DEFINE t == [replying[w] EXCEPT !.pc = "reply", !.seen = row]
    <2>3. t \in Replying /\ t.pc = "reply" /\ t.seen = row
        BY <2>2
    <2> HIDE DEF t
    <2>4. replying' = [replying EXCEPT ![w] = t]
        BY <2>1 DEF t
    <2>5. replying' \in [Workers -> Replying]
        BY <2>3, <2>4
    <2>6. RowsExist'
        BY <1>10, <2>2, <2>3, <2>4 DEF Reply!Load
    <2> QED BY <1>10, <2>5, <2>6 DEF Reply!Load
<1>11. ASSUME NEW w \in Workers, Reply!ReplyAccepted(w) \/ Reply!AnswerLost(w)
       PROVE  ReplyTyped'
    <2>1. live' \in Drafts \cup {NoDraft}
        BY <1>11 DEF Reply!ReplyAccepted, Reply!AnswerLost, Reply!AcceptReply, Reply!Row
    <2>2. CASE Reply!ReplyAccepted(w)
        BY <2>1, <2>2 DEF Reply!ReplyAccepted, Reply!AcceptReply
    <2>3. CASE Reply!AnswerLost(w)
        BY <2>1, <2>3 DEF Reply!AnswerLost, Reply!AcceptReply
    <2> QED BY <1>11, <2>2, <2>3
<1>12. ASSUME NEW w \in Workers, Reply!ReplyRefused(w) PROVE ReplyTyped'
    BY <1>12 DEF Reply!ReplyRefused
<1>13. ASSUME NEW w \in Workers, Reply!Crash(w) PROVE ReplyTyped'
    BY <1>1, <1>13 DEF Reply!Crash
<1>14. CASE UNCHANGED Reply!vars
    BY <1>14 DEF Reply!vars
<1> HIDE DEF ReplyTyped, ReplyTypes, RowsExist
<1> QED BY <1>2, <1>3, <1>4, <1>5, <1>6, <1>7, <1>8, <1>9, <1>10, <1>11, <1>12, <1>13, <1>14
        DEF Reply!Next, Reply!Serve

\* The requests that go on to send an approved reply.
ToReply == {w \in Workers : replying[w].pc \in {"load", "reply"}}
\* Each of them, and each reply sent, has its approval or retry.
RepliesAsked == IsFiniteSet(ToReply) /\ replies + Cardinality(ToReply) <= asked

\* Deliveries' step, as a name of its own.
ReplyDelivers == [Reply!Delivery!Next]_(Reply!Delivery!vars)

\* RepliesAsked is kept, and each step is one of Deliveries.
LEMMA RepliesAskedStep ==
    ASSUME ReplyTyped, RepliesAsked, [Reply!Next]_(Reply!vars)
    PROVE  RepliesAsked' /\ ReplyDelivers
<1> USE DEF Reply!At, Reply!history, Reply!bounds, Reply!Go, Reply!Finish
<1>1. /\ asked \in Nat /\ replies \in Nat /\ Cardinality(ToReply) \in Nat
      /\ replying \in [Workers -> Replying]
    BY FS_CardinalityType DEF ReplyTyped, ReplyTypes, RepliesAsked
\* A request that does not go on to reply.
<1>2. ASSUME UNCHANGED <<asked, replies>>, NEW w \in Workers,
             \A v \in Workers \ {w} : replying'[v] = replying[v],
             replying'[w].pc \in {"load", "reply"} => replying[w].pc \in {"load", "reply"}
      PROVE  RepliesAsked' /\ ReplyDelivers
    <2>1. ToReply' \subseteq ToReply
        BY <1>2 DEF ToReply
    <2>2. RepliesAsked'
        BY <1>1, <1>2, <2>1, FS_Subset, FS_CardinalityType DEF RepliesAsked
    <2>3. ReplyDelivers
        BY <1>2 DEF ReplyDelivers, Reply!Delivery!vars
    <2> QED BY <2>2, <2>3
<1>3. ASSUME NEW w \in Workers, Reply!CommitApproval(w) \/ Reply!CommitRetry(w)
      PROVE  RepliesAsked' /\ ReplyDelivers
    <2>1. asked' = asked + 1 /\ replies' = replies
        BY <1>3 DEF Reply!CommitApproval, Reply!CommitRetry
    <2>2. ToReply' = ToReply \cup {w}
        BY <1>1, <1>3 DEF Reply!CommitApproval, Reply!CommitRetry, ToReply, Replying
    <2>3. RepliesAsked'
        <3>1. /\ IsFiniteSet(ToReply \cup {w})
              /\ Cardinality(ToReply \cup {w}) \in {Cardinality(ToReply), Cardinality(ToReply) + 1}
            BY FS_AddElement DEF RepliesAsked
        <3> QED BY <1>1, <2>1, <2>2, <3>1 DEF RepliesAsked
    <2>4. Reply!Delivery!Ask({"response"})
        BY <2>1 DEF Reply!Delivery!Ask
    <2> QED BY <2>3, <2>4 DEF ReplyDelivers, Reply!Delivery!Next
<1>4. ASSUME NEW w \in Workers, Reply!ReplyAccepted(w) \/ Reply!AnswerLost(w)
      PROVE  RepliesAsked' /\ ReplyDelivers
    <2>1. asked' = asked /\ replies' = replies + 1
        BY <1>4 DEF Reply!ReplyAccepted, Reply!AnswerLost, Reply!AcceptReply
    <2>2. ToReply' = ToReply \ {w} /\ w \in ToReply
        BY <1>1, <1>4
           DEF Reply!ReplyAccepted, Reply!AnswerLost, Reply!AcceptReply, ToReply, Replying
    <2>3. /\ IsFiniteSet(ToReply') /\ Cardinality(ToReply') = Cardinality(ToReply) - 1
          /\ Cardinality(ToReply') \in Nat
        BY <2>2, FS_RemoveElement, FS_CardinalityType DEF RepliesAsked
    <2>4. RepliesAsked' /\ replies < asked
        BY <1>1, <2>1, <2>3 DEF RepliesAsked
    <2>5. Reply!Delivery!Deliver("response")
        BY <2>1, <2>4 DEF Reply!Delivery!Deliver
    <2> QED BY <2>4, <2>5 DEF ReplyDelivers, Reply!Delivery!Next
<1>5. ASSUME NEW w \in Workers,
             \/ \E draft \in Drafts : Reply!Generate(w, draft)
             \/ \E edit \in Drafts \cup {NoDraft} : Reply!Approve(w, edit)
             \/ Reply!Retry(w) \/ Reply!Reject(w)
             \/ Reply!Insert(w) \/ Reply!CommitRejection(w) \/ Reply!Load(w)
             \/ Reply!ReplyRefused(w) \/ Reply!RecordPublished(w) \/ Reply!RecordFailed(w)
             \/ Reply!Crash(w)
      PROVE  RepliesAsked' /\ ReplyDelivers
    <2>1. UNCHANGED <<asked, replies>>
        BY <1>5 DEF Reply!Generate, Reply!Approve, Reply!Retry, Reply!Reject, Reply!Insert,
              Reply!CommitRejection, Reply!Load, Reply!ReplyRefused, Reply!RecordPublished,
              Reply!RecordFailed, Reply!Crash
    <2>2. \A v \in Workers \ {w} : replying'[v] = replying[v]
        BY <1>1, <1>5
           DEF Reply!Start, Reply!Generate, Reply!Approve, Reply!Retry, Reply!Reject,
               Reply!Insert,
              Reply!CommitRejection, Reply!Load, Reply!ReplyRefused, Reply!RecordPublished,
              Reply!RecordFailed, Reply!Crash
    <2>3. replying'[w].pc \in {"load", "reply"} => replying[w].pc \in {"load", "reply"}
        BY <1>1, <1>5
           DEF Reply!Start, Reply!Generate, Reply!Approve, Reply!Retry, Reply!Reject,
               Reply!Insert,
              Reply!CommitRejection, Reply!Load, Reply!ReplyRefused, Reply!RecordPublished,
              Reply!RecordFailed, Reply!Crash, Reply!Idle
    <2> QED BY <1>2, <2>1, <2>2, <2>3
<1>6. CASE UNCHANGED Reply!vars
    BY <1>6 DEF Reply!vars, RepliesAsked, ToReply, ReplyDelivers, Reply!Delivery!vars
<1> HIDE DEF RepliesAsked
<1> QED BY <1>3, <1>4, <1>5, <1>6 DEF Reply!Next, Reply!Serve

-----------------------------------------------------------------------------
\* Google shows no reply, or one whose answer was lost.
NothingLive == live = NoDraft \/ lost
\* What the status says as long as no two requests that publish have overlapped.
KnownIfAlone(w) == Reply!Publishing(w) =>
    /\ \A v \in Workers : Reply!Publishing(v) => v = w
    /\ replying[w].pc = "approve" =>
          row.status \in {"pending", "rejected"} /\ replying[w].seen.status = "pending"
    /\ replying[w].pc = "retry" =>
          row.status \in {"failed", "rejected"} /\ replying[w].seen.status = "failed"
    /\ replying[w].pc \in {"load", "reply", "published", "failed"} =>
          row.status \in {"approved", "rejected"}
    /\ replying[w].pc \in {"reply", "published", "failed"} =>
          /\ replying[w].seen.status \in {"approved", "rejected"}
          /\ replying[w].seen.draft = row.draft
    /\ IF replying[w].pc = "published" THEN live = row.draft ELSE NothingLive
\* What a status says of the reply Google shows, and of the request at work.
LiveKnown == ~rivals =>
    /\ row.status = "published" => live = row.draft
    /\ row.status \in {"none", "pending", "failed"} => NothingLive
    /\ \A w \in Workers : KnownIfAlone(w)

\* LiveKnown is kept: an overlap is noted before either of the two commits.
LEMMA LiveKnownStep == ASSUME ReplyTyped, ReplyTyped', LiveKnown, [Reply!Next]_(Reply!vars)
                       PROVE  LiveKnown'
<1> USE DEF ReplyTyped, ReplyTypes, RowsExist, RowWork, Replying, Reply!At, Reply!Publishing,
        Reply!history, Reply!bounds, Reply!Go, Reply!Finish, LiveKnown, KnownIfAlone, NothingLive
<1>1. ASSUME NEW w \in Workers, NEW status \in Reply!Statuses \ {"none"},
             replying[w].pc \in RowWork,
             Reply!Store(w, [replying[w].seen EXCEPT !.status = status])
      PROVE  /\ row'.status = IF status = replying[w].seen.status THEN row.status ELSE status
             /\ row'.draft = row.draft
    BY <1>1, StatusStored
<1>2. ASSUME NEW w \in Workers, NEW draft \in Drafts, Reply!Generate(w, draft)
      PROVE  LiveKnown'
    BY <1>2 DEF Reply!Generate, Reply!Start
<1>3. ASSUME NEW w \in Workers, NEW edit \in Drafts \cup {NoDraft}, Reply!Approve(w, edit)
      PROVE  LiveKnown'
    <2>1. /\ \A v \in Workers \ {w} : replying'[v] = replying[v]
          /\ replying'[w].pc = "approve" /\ replying'[w].seen = row
          /\ row.status = "pending" /\ UNCHANGED <<row, live, lost>>
        BY <1>3 DEF Reply!Approve, Reply!Start
    <2>2. ~rivals' => ~rivals /\ \A v \in Workers \ {w} : ~Reply!Publishing(v)
        BY <1>3 DEF Reply!Approve, Reply!NoteRivals
    <2>3. ASSUME ~rivals', NEW v \in Workers PROVE KnownIfAlone(v)'
        <3> HIDE DEF ReplyTyped
        <3> QED BY <2>1, <2>2, <2>3
    <2> QED BY <2>1, <2>2, <2>3
<1>4. ASSUME NEW w \in Workers, Reply!Retry(w) PROVE LiveKnown'
    <2>1. /\ \A v \in Workers \ {w} : replying'[v] = replying[v]
          /\ replying'[w].pc = "retry" /\ replying'[w].seen = row
          /\ row.status = "failed" /\ UNCHANGED <<row, live, lost>>
        BY <1>4 DEF Reply!Retry, Reply!Start
    <2>2. ~rivals' => ~rivals /\ \A v \in Workers \ {w} : ~Reply!Publishing(v)
        BY <1>4 DEF Reply!Retry, Reply!NoteRivals
    <2>3. ASSUME ~rivals', NEW v \in Workers PROVE KnownIfAlone(v)'
        <3> HIDE DEF ReplyTyped
        <3> QED BY <2>1, <2>2, <2>3
    <2> QED BY <2>1, <2>2, <2>3
<1>5. ASSUME NEW w \in Workers, Reply!Reject(w) PROVE LiveKnown'
    BY <1>5 DEF Reply!Reject, Reply!Start
<1>6. ASSUME NEW w \in Workers, Reply!Insert(w) PROVE LiveKnown'
    BY <1>6 DEF Reply!Insert, Reply!Idle
<1>7. ASSUME NEW w \in Workers, Reply!CommitApproval(w) PROVE LiveKnown'
    <2>1. /\ \A v \in Workers \ {w} : replying'[v] = replying[v]
          /\ replying[w].pc = "approve" /\ replying'[w].pc = "load"
          /\ UNCHANGED <<live, lost, rivals>>
        BY <1>7 DEF Reply!CommitApproval
    <2>2. row'.status = IF replying[w].seen.status = "approved" THEN row.status ELSE "approved"
        BY <1>7, ApprovalStored
    <2> HIDE DEF ReplyTyped
    <2>3. ASSUME ~rivals
          PROVE  /\ row'.status = "approved" /\ NothingLive
                 /\ \A v \in Workers \ {w} : ~Reply!Publishing(v)
        BY <2>1, <2>2, <2>3
    <2>4. ASSUME ~rivals', NEW v \in Workers PROVE KnownIfAlone(v)'
        BY <2>1, <2>3, <2>4
    <2> QED BY <2>1, <2>3, <2>4
<1>8. ASSUME NEW w \in Workers, Reply!CommitRetry(w) PROVE LiveKnown'
    <2>1. /\ \A v \in Workers \ {w} : replying'[v] = replying[v]
          /\ replying[w].pc = "retry" /\ replying'[w].pc = "load"
          /\ UNCHANGED <<live, lost, rivals>>
        BY <1>8 DEF Reply!CommitRetry
    <2>2. row'.status = IF "approved" = replying[w].seen.status THEN row.status ELSE "approved"
        <3>1. /\ replying[w].pc \in RowWork
              /\ Reply!Store(w, [replying[w].seen EXCEPT !.status = "approved"])
            BY <1>8 DEF Reply!CommitRetry
        <3>2. "approved" \in Reply!Statuses \ {"none"}
            BY DEF Reply!Statuses
        <3> HIDE DEF ReplyTyped
        <3> QED BY <1>1, <3>1, <3>2
    <2> HIDE DEF ReplyTyped
    <2>3. ASSUME ~rivals
          PROVE  /\ row'.status = "approved" /\ NothingLive
                 /\ \A v \in Workers \ {w} : ~Reply!Publishing(v)
        BY <2>1, <2>2, <2>3
    <2>4. ASSUME ~rivals', NEW v \in Workers PROVE KnownIfAlone(v)'
        BY <2>1, <2>3, <2>4
    <2> QED BY <2>1, <2>3, <2>4
<1>9. ASSUME NEW w \in Workers, Reply!CommitRejection(w) PROVE LiveKnown'
    <2>1. /\ \A v \in Workers \ {w} : replying'[v] = replying[v]
          /\ replying[w].pc = "reject" /\ replying'[w].pc = "idle"
          /\ UNCHANGED <<live, lost, rivals>>
        BY <1>9 DEF Reply!CommitRejection, Reply!Idle
    <2>2. row'.status \in {row.status, "rejected"} /\ row'.draft = row.draft
        BY <1>1, <1>9, <2>1 DEF Reply!CommitRejection, Reply!Statuses
    <2> HIDE DEF ReplyTyped
    <2>3. ASSUME ~rivals', NEW v \in Workers PROVE KnownIfAlone(v)'
        BY <2>1, <2>2, <2>3
    <2> QED BY <2>1, <2>2, <2>3
<1>10. ASSUME NEW w \in Workers, Reply!RecordPublished(w) PROVE LiveKnown'
    <2>1. /\ \A v \in Workers \ {w} : replying'[v] = replying[v]
          /\ replying[w].pc = "published" /\ replying'[w].pc = "idle"
          /\ UNCHANGED <<live, lost, rivals>>
        BY <1>10 DEF Reply!RecordPublished, Reply!Idle
    <2>2. /\ row'.status = IF "published" = replying[w].seen.status THEN row.status ELSE "published"
          /\ row'.draft = row.draft
        BY <1>1, <1>10, <2>1 DEF Reply!RecordPublished, Reply!Statuses
    <2> HIDE DEF ReplyTyped
    <2>3. ASSUME ~rivals
          PROVE  /\ row'.status = "published"
                 /\ live = row.draft
                 /\ \A v \in Workers \ {w} : ~Reply!Publishing(v)
        BY <2>1, <2>2, <2>3
    <2>4. ASSUME ~rivals', NEW v \in Workers PROVE KnownIfAlone(v)'
        BY <2>1, <2>3, <2>4
    <2> QED BY <2>1, <2>2, <2>3, <2>4
<1>11. ASSUME NEW w \in Workers, Reply!RecordFailed(w) PROVE LiveKnown'
    <2>1. /\ \A v \in Workers \ {w} : replying'[v] = replying[v]
          /\ replying[w].pc = "failed" /\ replying'[w].pc = "idle"
          /\ UNCHANGED <<live, lost, rivals>>
        BY <1>11 DEF Reply!RecordFailed, Reply!Idle
    <2>2. /\ row'.status = IF "failed" = replying[w].seen.status THEN row.status ELSE "failed"
          /\ row'.draft = row.draft
        BY <1>1, <1>11, <2>1 DEF Reply!RecordFailed, Reply!Statuses
    <2> HIDE DEF ReplyTyped
    <2>3. ASSUME ~rivals
          PROVE  /\ row'.status = "failed"
                 /\ NothingLive
                 /\ \A v \in Workers \ {w} : ~Reply!Publishing(v)
        BY <2>1, <2>2, <2>3
    <2>4. ASSUME ~rivals', NEW v \in Workers PROVE KnownIfAlone(v)'
        BY <2>1, <2>3, <2>4
    <2> QED BY <2>1, <2>2, <2>3, <2>4
<1>12. ASSUME NEW w \in Workers, Reply!Load(w) PROVE LiveKnown'
    BY <1>12 DEF Reply!Load
<1>13. ASSUME NEW w \in Workers, Reply!ReplyAccepted(w) PROVE LiveKnown'
    BY <1>13 DEF Reply!ReplyAccepted, Reply!AcceptReply
<1>14. ASSUME NEW w \in Workers, Reply!AnswerLost(w) PROVE LiveKnown'
    BY <1>14 DEF Reply!AnswerLost, Reply!AcceptReply
<1>15. ASSUME NEW w \in Workers, Reply!ReplyRefused(w) PROVE LiveKnown'
    BY <1>15 DEF Reply!ReplyRefused
<1>16. ASSUME NEW w \in Workers, Reply!Crash(w) PROVE LiveKnown'
    BY <1>16 DEF Reply!Crash, Reply!Idle
<1>17. CASE UNCHANGED Reply!vars
    BY <1>17 DEF Reply!vars
<1> HIDE DEF ReplyTyped, ReplyTypes, RowsExist, LiveKnown
<1> QED BY <1>2, <1>3, <1>4, <1>5, <1>6, <1>7, <1>8, <1>9, <1>10, <1>11, <1>12, <1>13, <1>14,
           <1>15, <1>16, <1>17
        DEF Reply!Next, Reply!Serve

\* The inductive invariant of replies.
ReplyInv == ReplyTyped /\ RepliesAsked /\ LiveKnown

\* It holds initially, and Deliveries starts there.
LEMMA ReplyInit == ASSUME Reply!Init PROVE ReplyInv /\ Reply!Delivery!Init
<1> USE DEF Reply!Init, Reply!Idle, Reply!NoRow
<1>1. ReplyTyped
    <2>1. Reply!NoRow \in Reply!Row /\ HasDraft(Reply!NoRow)
        BY DEF Reply!Row, Reply!Statuses, HasDraft
    <2>2. row \in Reply!Row /\ HasDraft(row) /\ replying \in [Workers -> Replying]
        BY <2>1 DEF Replying
    <2>3. RowsExist
        BY <2>1 DEF RowsExist, RowWork
    <2>4. /\ live = NoDraft /\ asked = 0 /\ replies = 0
          /\ rivals = FALSE /\ lost = FALSE /\ crashed = FALSE
          /\ retries = 0 /\ rejects = 0 /\ replyFaults = 0
        OBVIOUS
    <2>5. retries \in 0..MaxRetries /\ rejects \in 0..MaxRejects /\ replyFaults \in 0..MaxFaults
        BY <2>4, Constants
    <2> HIDE DEF Reply!Init
    <2> QED BY <2>2, <2>3, <2>4, <2>5 DEF ReplyTyped, ReplyTypes
<1>2. ToReply = {}
    BY DEF ToReply
<1>3. RepliesAsked
    BY <1>2, FS_EmptySet DEF RepliesAsked
<1>4. LiveKnown
    BY DEF LiveKnown, NothingLive, KnownIfAlone, Reply!Publishing
<1>5. Reply!Delivery!Init
    BY DEF Reply!Delivery!Init
<1> QED BY <1>1, <1>3, <1>4, <1>5 DEF ReplyInv

\* It is kept, and each step is one of Deliveries.
LEMMA ReplyStep == ASSUME ReplyInv, [Reply!Next]_(Reply!vars)
                   PROVE  ReplyInv' /\ [Reply!Delivery!Next]_(Reply!Delivery!vars)
<1>1. ReplyTyped /\ ReplyTyped' /\ RepliesAsked /\ LiveKnown
    BY ReplyTypedStep DEF ReplyInv
<1> QED BY <1>1, RepliesAskedStep, LiveKnownStep DEF ReplyInv, ReplyDelivers

\* What it implies.
LEMMA ReplyPromises == ASSUME ReplyInv PROVE Reply!TypeOK /\ Reply!StatusTellsWhatIsLive
<1>1. Reply!TypeOK
    BY DEF ReplyInv, ReplyTyped, ReplyTypes, HasDraft, Replying, RowWork, Reply!TypeOK
<1>2. Reply!StatusTellsWhatIsLive
    BY DEF ReplyInv, LiveKnown, NothingLive, Reply!StatusTellsWhatIsLive
<1> QED BY <1>1, <1>2

-----------------------------------------------------------------------------
(* Answers to messages. *)

\* The places of a request that has a message to answer.
AnsweringWork == {"compose", "send", "log"}
\* What a worker has in hand.
Answering == [pc : {"idle", "create", "list", "next"} \cup AnsweringWork,
              auto : BOOLEAN, left : SUBSET Messages, message : Messages \cup {NoMessage},
              seen : Social!Settings \cup {"absent", "expired"}, ok : BOOLEAN]
\* Social!TypeOK with the places above.
SocialTypes ==
    /\ settings \in Social!Settings \cup {"absent"}
    /\ arrived \subseteq Messages
    /\ socialReplies \in [Messages -> Nat] /\ socialLog \in [Messages -> Nat]
    /\ serving \in [Workers -> Answering]
    /\ socialAsked \in [Messages -> Nat] /\ unlogged \in [Messages -> Nat]
    /\ afterOff \in [Workers -> Nat]
    /\ answering \in 0..MaxAnswering /\ updates \in 0..MaxUpdates
    /\ socialFaults \in 0..MaxFaults
\* The message a request answers is off its list, which is filled after the listing.
MessageInHand(t) ==
    /\ t.pc \in AnsweringWork => t.message \in Messages \ t.left
    /\ t.pc \in {"idle", "create", "list"} => t.left = {}
    /\ t.pc # "log" => ~t.ok
\* An auto-respond run goes on only with settings, which are never removed.
SettingsExist == \A w \in Workers :
    serving[w].auto /\ serving[w].pc \in {"list", "next"} \cup AnsweringWork
        => settings # "absent"
SocialTyped ==
    SocialTypes /\ SettingsExist /\ \A w \in Workers : MessageInHand(serving[w])

\* What a session may have of the settings, and where a request may be.
Seen == Social!Settings \cup {"absent", "expired"}
Places == {"idle", "create", "list", "next"} \cup AnsweringWork

\* Changes of a request in hand.
LEMMA AnsweringChanged ==
    ASSUME NEW t \in Answering, NEW place \in Places
    PROVE  /\ \A ok \in BOOLEAN : [t EXCEPT !.pc = place, !.ok = ok] \in Answering
           /\ \A s \in Seen : [t EXCEPT !.pc = place, !.seen = s] \in Answering
           /\ \A l \in SUBSET Messages :
                 /\ [t EXCEPT !.pc = place, !.left = l] \in Answering
                 /\ \A s \in Seen :
                       /\ [t EXCEPT !.left = l, !.seen = s] \in Answering
                       /\ \A m \in Messages :
                             [t EXCEPT !.pc = place, !.message = m, !.left = l, !.seen = s]
                                \in Answering
<1>1. \A ok \in BOOLEAN : [t EXCEPT !.pc = place, !.ok = ok] \in Answering
    BY DEF Answering, Places
<1>2. \A s \in Seen : [t EXCEPT !.pc = place, !.seen = s] \in Answering
    BY DEF Answering, Places, Seen
<1>3. ASSUME NEW l \in SUBSET Messages
      PROVE  [t EXCEPT !.pc = place, !.left = l] \in Answering
    BY DEF Answering, Places
<1>4. ASSUME NEW l \in SUBSET Messages, NEW s \in Seen
      PROVE  [t EXCEPT !.left = l, !.seen = s] \in Answering
    BY DEF Answering, Seen
<1>5. ASSUME NEW l \in SUBSET Messages, NEW s \in Seen, NEW m \in Messages
      PROVE  [t EXCEPT !.pc = place, !.message = m, !.left = l, !.seen = s] \in Answering
    BY DEF Answering, Places, Seen
<1> QED BY <1>1, <1>2, <1>3, <1>4, <1>5

\* The types, the messages in hand and the settings of runs are inductive.
LEMMA SocialTypedStep == ASSUME SocialTyped, [Social!Next]_(Social!vars) PROVE SocialTyped'
<1> USE Constants DEF Social!At, Social!history, Social!bounds
<1>1. SocialTypes /\ SettingsExist /\ \A w \in Workers : MessageInHand(serving[w])
    BY DEF SocialTyped
<1>2. /\ serving \in [Workers -> Answering]
      /\ settings \in Social!Settings \cup {"absent"} /\ arrived \subseteq Messages
    BY <1>1 DEF SocialTypes
<1>3. Social!Idle \in Answering /\ MessageInHand(Social!Idle) /\ Social!Idle.pc = "idle"
    BY DEF Social!Idle, Answering, MessageInHand, AnsweringWork
<1> DEFINE Has(w) == serving[w] \in Answering /\ MessageInHand(serving[w])
                    /\ serving[w].seen \in Seen /\ serving[w].left \in SUBSET Messages
<1>4. \A w \in Workers : Has(w) /\ Social!Read(w) \in Seen
    BY <1>1, <1>2 DEF Answering, Seen, Social!Read
\* The worker's request becomes t.
<1>5. ASSUME NEW w \in Workers, NEW t \in Answering, MessageInHand(t),
             serving' = [serving EXCEPT ![w] = t]
      PROVE  /\ serving' \in [Workers -> Answering]
             /\ \A v \in Workers : MessageInHand(serving'[v])
             /\ \A v \in Workers : serving'[v] = IF v = w THEN t ELSE serving[v]
    BY <1>1, <1>2, <1>5
<1>6. ASSUME NEW m \in Messages, Social!Arrive(m) PROVE SocialTyped'
    BY <1>1, <1>6 DEF Social!Arrive, SocialTyped, SocialTypes, SettingsExist
<1>7. ASSUME NEW new \in Social!Settings, Social!Update(new) PROVE SocialTyped'
    <2>1. new # "absent"
        BY DEF Social!Settings
    <2> QED BY <1>1, <1>7, <2>1 DEF Social!Update, SocialTyped, SocialTypes, SettingsExist
<1>8. ASSUME NEW w \in Workers, Social!Start(w) PROVE SocialTyped'
    <2> DEFINE t == [Social!Idle EXCEPT !.pc = IF settings = "absent" THEN "create" ELSE "list",
                                        !.auto = TRUE, !.seen = settings]
    <2>1. /\ serving' = [serving EXCEPT ![w] = t] /\ answering < MaxAnswering
          /\ answering' = answering + 1
        BY <1>8 DEF Social!Start
    <2>2. t \in Answering /\ MessageInHand(t) /\ (t.pc = "list" => settings # "absent")
          /\ t.pc \in {"create", "list"}
        BY <1>2 DEF Social!Idle, Answering, MessageInHand, AnsweringWork
    <2> HIDE DEF t
    <2> QED BY <1>1, <1>5, <1>8, <2>1, <2>2
            DEF Social!Start, SocialTyped, SocialTypes, SettingsExist, AnsweringWork
<1>9. ASSUME NEW w \in Workers, Social!CreateSettings(w) PROVE SocialTyped'
    <2> DEFINE t == IF settings = "absent" THEN [serving[w] EXCEPT !.pc = "list", !.seen = "on"]
                                           ELSE Social!Idle
    <2>1. serving' = [serving EXCEPT ![w] = t] /\ serving[w].pc = "create"
          /\ settings' = IF settings = "absent" THEN "on" ELSE settings
        BY <1>9 DEF Social!CreateSettings, Social!Finish
    <2>2. t \in Answering /\ MessageInHand(t) /\ t.pc \in {"list", "idle"}
        <3>1. "list" \in Places /\ "on" \in Seen
            BY DEF Places, Seen, Social!Settings
        <3>2. t \in Answering
            BY <1>3, <1>4, <3>1, AnsweringChanged
        <3> QED BY <1>3, <1>4, <2>1, <3>2 DEF Answering, MessageInHand, AnsweringWork
    <2>3. settings' \in Social!Settings \cup {"absent"} /\ (t.pc = "list" => settings' # "absent")
          /\ (settings # "absent" => settings' # "absent")
        BY <1>2, <1>3, <2>1 DEF Social!Settings
    <2> HIDE DEF t
    <2> QED BY <1>1, <1>5, <1>9, <2>1, <2>2, <2>3
            DEF Social!CreateSettings, SocialTyped, SocialTypes, SettingsExist, AnsweringWork
<1>10. ASSUME NEW w \in Workers, Social!List(w) PROVE SocialTyped'
    <2>1. PICK listed \in {arrived, {}} :
             /\ serving' = [serving EXCEPT ![w].pc = "next", ![w].left = listed]
             /\ socialAsked' = [m \in Messages |-> socialAsked[m] + IF m \in listed THEN 1 ELSE 0]
        BY <1>10 DEF Social!List
    <2> DEFINE t == [serving[w] EXCEPT !.pc = "next", !.left = listed]
    <2>2. serving' = [serving EXCEPT ![w] = t] /\ serving[w].pc = "list"
        BY <1>2, <1>10, <2>1 DEF Social!List
    <2>3. t \in Answering /\ MessageInHand(t) /\ t.pc = "next" /\ t.auto = serving[w].auto
        <3>1. "next" \in Places /\ listed \in SUBSET Messages
            BY <1>2 DEF Places
        <3>2. t \in Answering
            BY <1>4, <3>1, AnsweringChanged
        <3> QED BY <1>4, <2>2, <3>2 DEF Answering, MessageInHand, AnsweringWork
    <2>4. socialAsked' \in [Messages -> Nat]
        BY <1>1, <2>1 DEF SocialTypes
    <2> HIDE DEF t
    <2> QED BY <1>1, <1>5, <1>10, <2>2, <2>3, <2>4
            DEF Social!List, SocialTyped, SocialTypes, SettingsExist, AnsweringWork
<1>11. ASSUME NEW w \in Workers, Social!Skip(w) PROVE SocialTyped'
    <2>1. PICK m \in serving[w].left :
             serving' = [serving EXCEPT ![w].left = @ \ {m}, ![w].seen = Social!Read(w)]
        BY <1>11 DEF Social!Skip
    <2> DEFINE t == [serving[w] EXCEPT !.left = @ \ {m}, !.seen = Social!Read(w)]
    <2>2. serving' = [serving EXCEPT ![w] = t] /\ serving[w].pc = "next"
        BY <1>2, <1>11, <2>1 DEF Social!Skip
    <2>3. t \in Answering /\ MessageInHand(t) /\ t.pc = "next" /\ t.auto = serving[w].auto
        <3>1. m \in Messages /\ serving[w].left \ {m} \in SUBSET Messages /\ "compose" \in Places
            BY <1>4, <2>1 DEF Places, AnsweringWork
        <3>2. t \in Answering
            BY <1>4, <3>1, AnsweringChanged
        <3> QED BY <1>4, <2>2, <3>1, <3>2 DEF Answering, MessageInHand, AnsweringWork
    <2> HIDE DEF t
    <2> QED BY <1>1, <1>5, <1>11, <2>2, <2>3
            DEF Social!Skip, SocialTyped, SocialTypes, SettingsExist, AnsweringWork
<1>12. ASSUME NEW w \in Workers, Social!Take(w) PROVE SocialTyped'
    <2>1. PICK m \in serving[w].left :
             serving' = [serving EXCEPT ![w].pc = "compose", ![w].message = m,
                                        ![w].left = @ \ {m}, ![w].seen = Social!Read(w)]
        BY <1>12 DEF Social!Take
    <2> DEFINE t == [serving[w] EXCEPT !.pc = "compose", !.message = m,
                                       !.left = @ \ {m}, !.seen = Social!Read(w)]
    <2>2. serving' = [serving EXCEPT ![w] = t] /\ serving[w].pc = "next"
        BY <1>2, <1>12, <2>1 DEF Social!Take
    <2>3. t \in Answering /\ MessageInHand(t) /\ t.pc = "compose" /\ t.auto = serving[w].auto
        <3>1. m \in Messages /\ serving[w].left \ {m} \in SUBSET Messages /\ "compose" \in Places
            BY <1>4, <2>1 DEF Places, AnsweringWork
        <3>2. t \in Answering
            BY <1>4, <3>1, AnsweringChanged
        <3> QED BY <1>4, <2>2, <3>1, <3>2 DEF Answering, MessageInHand, AnsweringWork
    <2> HIDE DEF t
    <2> QED BY <1>1, <1>5, <1>12, <2>2, <2>3
            DEF Social!Take, SocialTyped, SocialTypes, SettingsExist, AnsweringWork
<1>13. ASSUME NEW w \in Workers, Social!Compose(w) PROVE SocialTyped'
    <2>1. PICK seen2 \in {"expired", serving[w].seen} :
             serving' = [serving EXCEPT ![w] = [@ EXCEPT !.pc = "send", !.seen = seen2]]
        BY <1>13 DEF Social!Compose
    <2> DEFINE t == [serving[w] EXCEPT !.pc = "send", !.seen = seen2]
    <2>2. serving' = [serving EXCEPT ![w] = t] /\ serving[w].pc = "compose"
        BY <1>13, <2>1 DEF Social!Compose
    <2>3. t \in Answering /\ MessageInHand(t) /\ t.pc = "send" /\ t.auto = serving[w].auto
        <3>1. seen2 \in Seen /\ "send" \in Places
            BY <1>4 DEF Places, Seen, AnsweringWork
        <3>2. t \in Answering
            BY <1>4, <3>1, AnsweringChanged
        <3> QED BY <1>4, <2>2, <3>2 DEF Answering, MessageInHand, AnsweringWork
    <2> HIDE DEF t
    <2> QED BY <1>1, <1>5, <1>13, <2>2, <2>3
            DEF Social!Compose, SocialTyped, SocialTypes, SettingsExist, AnsweringWork
<1>14. ASSUME NEW w \in Workers, NEW m \in Messages, Social!Respond(w, m) PROVE SocialTyped'
    <2> DEFINE t == [Social!Idle EXCEPT !.pc = "send", !.message = m]
    <2>1. /\ serving' = [serving EXCEPT ![w] = t] /\ answering < MaxAnswering
          /\ answering' = answering + 1
        BY <1>14 DEF Social!Respond
    <2>2. t \in Answering /\ MessageInHand(t) /\ ~t.auto
        BY DEF Social!Idle, Answering, MessageInHand, AnsweringWork
    <2> HIDE DEF t
    <2>3. SettingsExist'
        BY <1>1, <1>5, <1>14, <2>1, <2>2 DEF Social!Respond, SettingsExist
    <2>4. answering' \in 0..MaxAnswering
        BY <1>1, <2>1 DEF SocialTypes
    <2>5. socialAsked' \in [Messages -> Nat]
        BY <1>1, <1>14 DEF Social!Respond, SocialTypes
    <2> QED BY <1>1, <1>5, <1>14, <2>1, <2>2, <2>3, <2>5, <2>4
            DEF Social!Respond, SocialTyped, SocialTypes
<1>15. ASSUME NEW w \in Workers, NEW ok \in BOOLEAN, Social!At(w, "send"), Social!Sent(w, ok),
              UNCHANGED settings
       PROVE  /\ serving' \in [Workers -> Answering] /\ SettingsExist'
              /\ \A v \in Workers : MessageInHand(serving'[v])
              /\ socialReplies' \in [Messages -> Nat] /\ afterOff' \in [Workers -> Nat]
              /\ serving[w].message \in Messages
    <2> DEFINE t == [serving[w] EXCEPT !.pc = "log", !.ok = ok]
    <2>1. serving' = [serving EXCEPT ![w] = t] /\ serving[w].pc = "send"
        BY <1>15 DEF Social!Sent
    <2>2. t \in Answering /\ MessageInHand(t) /\ t.pc = "log" /\ t.auto = serving[w].auto
        <3>1. "log" \in Places
            BY DEF Places, AnsweringWork
        <3>2. t \in Answering
            BY <1>4, <3>1, AnsweringChanged
        <3> QED BY <1>4, <2>1, <3>2 DEF Answering, MessageInHand, AnsweringWork
    <2>3. serving[w].message \in Messages
        BY <1>1, <2>1 DEF MessageInHand, AnsweringWork
    <2>4. socialReplies' \in [Messages -> Nat] /\ afterOff' \in [Workers -> Nat]
        BY <1>1, <1>15, <2>3 DEF SocialTypes, Social!Sent, Social!Up
    <2> HIDE DEF t
    <2> QED BY <1>1, <1>5, <1>15, <2>1, <2>2, <2>3, <2>4 DEF SettingsExist, AnsweringWork
<1>16. ASSUME NEW w \in Workers, Social!Accepted(w) PROVE SocialTyped'
    BY <1>1, <1>15, <1>16 DEF Social!Accepted, SocialTyped, SocialTypes
<1>17. ASSUME NEW w \in Workers, Social!AnswerLost(w) PROVE SocialTyped'
    <2>1. /\ serving' \in [Workers -> Answering] /\ SettingsExist'
          /\ \A v \in Workers : MessageInHand(serving'[v])
          /\ socialReplies' \in [Messages -> Nat] /\ afterOff' \in [Workers -> Nat]
          /\ serving[w].message \in Messages
        BY <1>15, <1>17 DEF Social!AnswerLost
    <2>2. unlogged' \in [Messages -> Nat] /\ socialFaults' \in 0..MaxFaults
        BY <1>1, <1>17, <2>1 DEF Social!AnswerLost, Social!Up, SocialTypes
    <2> QED BY <1>1, <1>17, <2>1, <2>2 DEF Social!AnswerLost, SocialTyped, SocialTypes
<1>18. ASSUME NEW w \in Workers, Social!Refused(w) PROVE SocialTyped'
    <2> DEFINE t == [serving[w] EXCEPT !.pc = "log"]
    <2>1. serving' = [serving EXCEPT ![w] = t] /\ serving[w].pc = "send"
        BY <1>18 DEF Social!Refused
    <2>2. t \in Answering /\ MessageInHand(t) /\ t.pc = "log" /\ t.auto = serving[w].auto
        BY <1>1, <1>2, <2>1 DEF Answering, MessageInHand, AnsweringWork
    <2> HIDE DEF t
    <2> QED BY <1>1, <1>5, <1>18, <2>1, <2>2
            DEF Social!Refused, SocialTyped, SocialTypes, SettingsExist, AnsweringWork
<1>19. ASSUME NEW w \in Workers, Social!Log(w) PROVE SocialTyped'
    <2> DEFINE t == IF serving[w].auto
                    THEN [Social!Idle EXCEPT !.pc = "next", !.auto = TRUE, !.left = serving[w].left]
                    ELSE Social!Idle
    <2>1. serving' = [serving EXCEPT ![w] = t] /\ serving[w].pc = "log"
        BY <1>19 DEF Social!Log, Social!Finish
    <2>2. t \in Answering /\ MessageInHand(t) /\ (t.pc # "idle" => serving[w].auto)
        BY <1>2, <1>3 DEF Social!Idle, Answering, MessageInHand, AnsweringWork
    <2>3. serving[w].message \in Messages
        BY <1>1, <2>1 DEF MessageInHand, AnsweringWork
    <2>4. socialLog' \in [Messages -> Nat]
        BY <1>1, <1>19, <2>3 DEF SocialTypes, Social!Log, Social!Up
    <2> HIDE DEF t
    <2> QED BY <1>1, <1>5, <1>19, <2>1, <2>2, <2>4
            DEF Social!Log, SocialTyped, SocialTypes, SettingsExist, AnsweringWork
<1>20. ASSUME NEW w \in Workers, Social!EndRun(w) \/ Social!Crash(w) PROVE SocialTyped'
    <2>1. serving' = [serving EXCEPT ![w] = Social!Idle] /\ UNCHANGED settings
        BY <1>20 DEF Social!EndRun, Social!Crash, Social!Finish
    <2>2. unlogged' \in [Messages -> Nat] /\ socialFaults' \in 0..MaxFaults
        <3>1. CASE Social!EndRun(w)
            BY <1>1, <3>1 DEF Social!EndRun, SocialTypes
        <3>2. CASE Social!Crash(w)
            <4>1. serving[w].pc = "log" => serving[w].message \in Messages
                BY <1>1 DEF MessageInHand, AnsweringWork
            <4> QED BY <1>1, <3>2, <4>1 DEF Social!Crash, Social!Up, SocialTypes
        <3> QED BY <1>20, <3>1, <3>2
    <2>3. SettingsExist'
        BY <1>1, <1>3, <1>5, <2>1 DEF SettingsExist, AnsweringWork
    <2> QED BY <1>1, <1>3, <1>5, <1>20, <2>1, <2>2, <2>3
            DEF Social!EndRun, Social!Crash, SocialTyped, SocialTypes
<1>21. CASE UNCHANGED Social!vars
    BY <1>1, <1>21 DEF Social!vars, SocialTyped, SocialTypes, SettingsExist
<1> QED BY <1>6, <1>7, <1>8, <1>9, <1>10, <1>11, <1>12, <1>13, <1>14, <1>16, <1>17, <1>18,
           <1>19,
           <1>20, <1>21
        DEF Social!Next

\* A component's Cardinality is the library's.
LEMMA SameSocialCardinality == ASSUME NEW S PROVE Social!Cardinality(S) = Cardinality(S)
BY DEF Social!Cardinality, Cardinality

\* The answers that are about to be logged as sent.
UnderWay(m) == {w \in Workers :
    serving[w].pc = "log" /\ serving[w].ok /\ serving[w].message = m}
\* Answers sent are logged, given up or about to be logged.
Logged(m) ==
    /\ IsFiniteSet(UnderWay(m))
    /\ socialReplies[m] = socialLog[m] + unlogged[m] + Cardinality(UnderWay(m))
AnswersCounted == \A m \in Messages : Logged(m)

\* The requests that may still answer the message.
Coming(m) == {w \in Workers :
    \/ m \in serving[w].left
    \/ serving[w].pc \in {"compose", "send"} /\ serving[w].message = m}
\* Each of them, and each answer sent, has been asked for.
Asked(m) ==
    /\ IsFiniteSet(Coming(m))
    /\ socialReplies[m] + Cardinality(Coming(m)) <= socialAsked[m]
AnswersAsked == \A m \in Messages : Asked(m)
\* Deliveries' step, as a name of its own.
SocialDelivers == [Social!Delivery!Next]_(Social!Delivery!vars)

\* AnswersCounted is kept.
LEMMA AnswersCountedStep ==
    ASSUME SocialTyped, AnswersCounted, [Social!Next]_(Social!vars) PROVE AnswersCounted'
<1> USE DEF Social!At, Social!history, Social!bounds
<1>1. /\ \A m \in Messages :
            /\ socialReplies[m] \in Nat /\ socialLog[m] \in Nat /\ unlogged[m] \in Nat
            /\ IsFiniteSet(UnderWay(m)) /\ Cardinality(UnderWay(m)) \in Nat
            /\ socialReplies[m] = socialLog[m] + unlogged[m] + Cardinality(UnderWay(m))
      /\ serving \in [Workers -> Answering] /\ socialReplies \in [Messages -> Nat]
      /\ socialLog \in [Messages -> Nat] /\ unlogged \in [Messages -> Nat]
    BY FS_CardinalityType DEF SocialTyped, SocialTypes, AnswersCounted, Logged
\* Nothing is sent, logged or given up.
<1>2. ASSUME UNCHANGED <<socialReplies, socialLog, unlogged>>,
             \A m \in Messages : UnderWay(m)' = UnderWay(m)
      PROVE  AnswersCounted'
    BY <1>1, <1>2 DEF AnswersCounted, Logged
\* A request that neither has sent an answer nor sends one.
<1>3. ASSUME UNCHANGED <<socialReplies, socialLog, unlogged>>, NEW w \in Workers,
             \A v \in Workers \ {w} : serving'[v] = serving[v],
             ~(serving[w].pc = "log" /\ serving[w].ok),
             ~(serving'[w].pc = "log" /\ serving'[w].ok)
      PROVE  AnswersCounted'
    <2>1. \A m \in Messages : UnderWay(m)' = UnderWay(m)
        BY <1>3 DEF UnderWay
    <2> QED BY <1>2, <1>3, <2>1
<1>4. ASSUME NEW w \in Workers,
             \/ Social!Start(w) \/ Social!CreateSettings(w) \/ Social!List(w) \/ Social!Skip(w)
             \/ Social!Take(w) \/ Social!EndRun(w) \/ Social!Compose(w)
             \/ \E m \in Messages : Social!Respond(w, m)
      PROVE  AnswersCounted'
    <2>1. UNCHANGED <<socialReplies, socialLog, unlogged>>
        BY <1>4
           DEF Social!Start, Social!CreateSettings, Social!List, Social!Skip, Social!Take,
              Social!EndRun, Social!Compose, Social!Respond
    <2>2. \A v \in Workers \ {w} : serving'[v] = serving[v]
        BY <1>1, <1>4
           DEF Social!Start, Social!CreateSettings, Social!List, Social!Skip, Social!Take,
              Social!EndRun, Social!Compose, Social!Respond, Social!Finish
    <2>3. serving[w].pc # "log"
        BY <1>4
           DEF Social!Start, Social!CreateSettings, Social!List, Social!Skip, Social!Take,
              Social!EndRun, Social!Compose, Social!Respond
    <2>4. serving'[w].pc # "log"
        <3>1. CASE Social!Start(w) \/ \E m \in Messages : Social!Respond(w, m)
            BY <1>1, <3>1 DEF Social!Start, Social!Respond, Social!Idle
        <3>2. CASE Social!List(w) \/ Social!Compose(w)
            BY <1>1, <3>2 DEF Social!List, Social!Compose, Answering
        <3>3. CASE Social!Skip(w)
            BY <1>1, <3>3 DEF Social!Skip, Answering
        <3>4. CASE Social!Take(w)
            BY <1>1, <3>4 DEF Social!Take, Answering
        <3>5. CASE Social!CreateSettings(w) \/ Social!EndRun(w)
            BY <1>1, <3>5
               DEF Social!CreateSettings, Social!EndRun, Social!Finish, Social!Idle, Answering
        <3> QED BY <1>4, <3>1, <3>2, <3>3, <3>4, <3>5
    <2> QED BY <1>3, <2>1, <2>2, <2>3, <2>4
<1>5. ASSUME NEW w \in Workers, Social!Refused(w) PROVE AnswersCounted'
    <2>1. /\ serving[w].pc = "send" /\ ~serving[w].ok
          /\ UNCHANGED <<socialReplies, socialLog, unlogged>>
        BY <1>5 DEF Social!Refused, SocialTyped, MessageInHand
    <2>2. \A v \in Workers \ {w} : serving'[v] = serving[v]
        BY <1>1, <1>5 DEF Social!Refused
    <2>3. serving'[w].ok = serving[w].ok
        BY <1>1, <1>5 DEF Social!Refused, Answering
    <2> QED BY <1>3, <2>1, <2>2, <2>3
<1>6. ASSUME NEW w \in Workers, Social!Accepted(w) PROVE AnswersCounted'
    <2> DEFINE n == serving[w].message
    <2>1. n \in Messages /\ serving[w].pc = "send"
        BY <1>6 DEF Social!Accepted, SocialTyped, MessageInHand, AnsweringWork
    <2>2. /\ socialReplies' = [socialReplies EXCEPT ![n] = @ + 1]
          /\ UNCHANGED <<socialLog, unlogged>>
          /\ serving' = [serving EXCEPT ![w].pc = "log", ![w].ok = TRUE]
        BY <1>6 DEF Social!Accepted, Social!Sent, Social!Up
    <2>3. \A m \in Messages : UnderWay(m)' = IF m = n THEN UnderWay(m) \cup {w} ELSE UnderWay(m)
        BY <1>1, <2>1, <2>2 DEF UnderWay, Answering
    <2>4. w \notin UnderWay(n)
        BY <2>1 DEF UnderWay
    <2> HIDE DEF n
    <2>5. ASSUME NEW m \in Messages PROVE Logged(m)'
        <3>1. CASE m = n
            <4>1. /\ IsFiniteSet(UnderWay(m) \cup {w})
                  /\ Cardinality(UnderWay(m) \cup {w}) = Cardinality(UnderWay(m)) + 1
                BY <1>1, <2>4, <3>1, FS_AddElement
            <4>2. /\ socialReplies'[m] = socialReplies[m] + 1
                  /\ socialLog'[m] = socialLog[m] /\ unlogged'[m] = unlogged[m]
                  /\ UnderWay(m)' = UnderWay(m) \cup {w}
                BY <1>1, <2>1, <2>2, <2>3, <3>1
            <4> QED BY <1>1, <4>1, <4>2 DEF Logged
        <3>2. CASE m # n
            BY <1>1, <2>1, <2>2, <2>3, <3>2 DEF Logged
        <3> QED BY <3>1, <3>2
    <2> QED BY <2>5 DEF AnswersCounted
<1>7. ASSUME NEW w \in Workers, Social!AnswerLost(w) PROVE AnswersCounted'
    <2> DEFINE n == serving[w].message
    <2>1. n \in Messages /\ serving[w].pc = "send"
        BY <1>7 DEF Social!AnswerLost, SocialTyped, MessageInHand, AnsweringWork
    <2>2. /\ socialReplies' = [socialReplies EXCEPT ![n] = @ + 1]
          /\ unlogged' = [unlogged EXCEPT ![n] = @ + 1]
          /\ UNCHANGED socialLog
          /\ serving' = [serving EXCEPT ![w].pc = "log", ![w].ok = FALSE]
        BY <1>7 DEF Social!AnswerLost, Social!Sent, Social!Up
    <2>3. \A m \in Messages : UnderWay(m)' = UnderWay(m)
        BY <1>1, <2>1, <2>2 DEF UnderWay, Answering
    <2> HIDE DEF n
    <2> QED BY <1>1, <2>1, <2>2, <2>3 DEF AnswersCounted, Logged
\* An answer sent is logged, or its process dies before.
<1>8. ASSUME NEW w \in Workers, serving[w].pc = "log" /\ serving[w].ok,
             \A v \in Workers \ {w} : serving'[v] = serving[v], serving'[w].pc # "log",
             UNCHANGED socialReplies,
             \/ UNCHANGED unlogged
                /\ socialLog' = [socialLog EXCEPT ![serving[w].message] = @ + 1]
             \/ UNCHANGED socialLog
                /\ unlogged' = [unlogged EXCEPT ![serving[w].message] = @ + 1]
      PROVE  AnswersCounted'
    <2> DEFINE n == serving[w].message
    <2>1. n \in Messages
        BY <1>8 DEF SocialTyped, MessageInHand, AnsweringWork
    <2>2. \A m \in Messages : UnderWay(m)' = IF m = n THEN UnderWay(m) \ {w} ELSE UnderWay(m)
        BY <1>8 DEF UnderWay
    <2>3. w \in UnderWay(n)
        BY <1>8 DEF UnderWay
    <2>4. \/ UNCHANGED unlogged /\ socialLog' = [socialLog EXCEPT ![n] = @ + 1]
          \/ UNCHANGED socialLog /\ unlogged' = [unlogged EXCEPT ![n] = @ + 1]
        BY <1>8
    <2> HIDE DEF n
    <2>5. ASSUME NEW m \in Messages PROVE Logged(m)'
        <3>1. CASE m = n
            <4>1. /\ IsFiniteSet(UnderWay(m) \ {w})
                  /\ Cardinality(UnderWay(m) \ {w}) = Cardinality(UnderWay(m)) - 1
                BY <1>1, <2>3, <3>1, FS_RemoveElement
            <4>2. socialLog'[m] + unlogged'[m] = socialLog[m] + unlogged[m] + 1
                BY <1>1, <2>1, <2>4, <3>1
            <4>3. socialReplies'[m] = socialReplies[m] /\ UnderWay(m)' = UnderWay(m) \ {w}
                BY <1>8, <2>2, <3>1
            <4>4. socialLog'[m] \in Nat /\ unlogged'[m] \in Nat
                BY <1>1, <2>1, <2>4, <3>1
            <4> QED BY <1>1, <4>1, <4>2, <4>3, <4>4 DEF Logged
        <3>2. CASE m # n
            <4>1. socialLog'[m] = socialLog[m] /\ unlogged'[m] = unlogged[m]
                BY <1>1, <2>1, <2>4, <3>2
            <4> QED BY <1>1, <1>8, <2>2, <3>2, <4>1 DEF Logged
        <3> QED BY <3>1, <3>2
    <2> QED BY <2>5 DEF AnswersCounted
<1>9. ASSUME NEW w \in Workers, Social!Log(w) \/ Social!Crash(w) PROVE AnswersCounted'
    <2>1. /\ \A v \in Workers \ {w} : serving'[v] = serving[v]
          /\ serving'[w].pc # "log" /\ UNCHANGED socialReplies
        <3>1. CASE Social!Log(w)
            <4> DEFINE t == [Social!Idle EXCEPT !.pc = "next", !.auto = TRUE,
                                                !.left = serving[w].left]
            <4>1. /\ serving' = [serving EXCEPT ![w] = IF serving[w].auto THEN t ELSE Social!Idle]
                  /\ UNCHANGED socialReplies
                BY <3>1 DEF Social!Log, Social!Finish
            <4>2. t.pc # "log" /\ Social!Idle.pc # "log"
                BY DEF Social!Idle
            <4> HIDE DEF t
            <4> QED BY <1>1, <4>1, <4>2
        <3>2. CASE Social!Crash(w)
            BY <1>1, <3>2 DEF Social!Crash, Social!Finish, Social!Idle
        <3> QED BY <1>9, <3>1, <3>2
    <2>2. CASE serving[w].pc = "log" /\ serving[w].ok
        <3>1. \/ UNCHANGED unlogged
                 /\ socialLog' = [socialLog EXCEPT ![serving[w].message] = @ + 1]
              \/ UNCHANGED socialLog
                 /\ unlogged' = [unlogged EXCEPT ![serving[w].message] = @ + 1]
            BY <1>9, <2>2 DEF Social!Log, Social!Crash, Social!Up
        <3> QED BY <1>8, <2>1, <2>2, <3>1
    <2>3. CASE ~(serving[w].pc = "log" /\ serving[w].ok)
        <3>1. UNCHANGED <<socialLog, unlogged>>
            BY <1>9, <2>3 DEF Social!Log, Social!Crash
        <3> QED BY <1>3, <2>1, <2>3, <3>1
    <2> QED BY <2>2, <2>3
<1>10. ASSUME \/ \E m \in Messages : Social!Arrive(m)
              \/ \E new \in Social!Settings : Social!Update(new)
              \/ UNCHANGED Social!vars
       PROVE  AnswersCounted'
    <2>1. UNCHANGED <<socialReplies, socialLog, unlogged, serving>>
        BY <1>10 DEF Social!Arrive, Social!Update, Social!vars
    <2> QED BY <1>2, <2>1 DEF UnderWay
<1> QED BY <1>4, <1>5, <1>6, <1>7, <1>9, <1>10 DEF Social!Next

\* A step that takes up some messages is Deliveries' Ask.
LEMMA SocialAsks ==
    ASSUME NEW items \in SUBSET Messages, UNCHANGED socialReplies,
           socialAsked' = [m \in Messages |-> IF m \in items THEN socialAsked[m] + 1
                                                             ELSE socialAsked[m]]
    PROVE  SocialDelivers
BY DEF SocialDelivers, Social!Delivery!Next, Social!Delivery!Ask

\* AnswersAsked is kept, and each step is one of Deliveries.
LEMMA AnswersAskedStep ==
    ASSUME SocialTyped, AnswersAsked, [Social!Next]_(Social!vars)
    PROVE  AnswersAsked' /\ SocialDelivers
<1> USE DEF Social!At, Social!history, Social!bounds
<1>1. /\ \A m \in Messages :
            /\ socialReplies[m] \in Nat /\ socialAsked[m] \in Nat
            /\ IsFiniteSet(Coming(m)) /\ Cardinality(Coming(m)) \in Nat
            /\ socialReplies[m] + Cardinality(Coming(m)) <= socialAsked[m]
      /\ serving \in [Workers -> Answering] /\ socialReplies \in [Messages -> Nat]
      /\ socialAsked \in [Messages -> Nat] /\ arrived \subseteq Messages
      /\ \A w \in Workers : MessageInHand(serving[w])
    BY FS_CardinalityType DEF SocialTyped, SocialTypes, AnswersAsked, Asked
<1>2. ASSUME NEW m \in Messages, Coming(m)' \subseteq Coming(m)
      PROVE  /\ IsFiniteSet(Coming(m)') /\ Cardinality(Coming(m)') \in Nat
             /\ Cardinality(Coming(m)') <= Cardinality(Coming(m))
    BY <1>1, <1>2, FS_Subset, FS_CardinalityType
\* No request takes a message up.
<1>3. ASSUME UNCHANGED <<socialReplies, socialAsked>>, \A m \in Messages : Coming(m)' \subseteq Coming(m)
      PROVE  AnswersAsked' /\ SocialDelivers
    <2>1. ASSUME NEW m \in Messages PROVE Asked(m)'
        <3>1. /\ IsFiniteSet(Coming(m)') /\ Cardinality(Coming(m)') \in Nat
              /\ Cardinality(Coming(m)') <= Cardinality(Coming(m))
            BY <1>2, <1>3
        <3> QED BY <1>1, <1>3, <3>1 DEF Asked
    <2> QED BY <1>3, <2>1 DEF AnswersAsked, SocialDelivers, Social!Delivery!vars
\* Worker w takes up the messages listed.
<1>4. ASSUME NEW w \in Workers, NEW items \in SUBSET Messages, UNCHANGED socialReplies,
             \A m \in Messages : Coming(m)' \subseteq
                 IF m \in items THEN Coming(m) \cup {w} ELSE Coming(m),
             socialAsked' = [m \in Messages |-> IF m \in items THEN socialAsked[m] + 1
                                                               ELSE socialAsked[m]]
      PROVE  AnswersAsked' /\ SocialDelivers
    <2>1. ASSUME NEW m \in Messages PROVE Asked(m)'
        <3>1. CASE m \in items
            <4>1. /\ IsFiniteSet(Coming(m) \cup {w})
                  /\ Cardinality(Coming(m) \cup {w}) \in
                        {Cardinality(Coming(m)), Cardinality(Coming(m)) + 1}
                BY <1>1, FS_AddElement
            <4>2. /\ IsFiniteSet(Coming(m)') /\ Cardinality(Coming(m)') \in Nat
                  /\ Cardinality(Coming(m)') <= Cardinality(Coming(m) \cup {w})
                BY <1>4, <3>1, <4>1, FS_Subset, FS_CardinalityType
            <4> QED BY <1>1, <1>4, <3>1, <4>1, <4>2 DEF Asked
        <3>2. CASE m \notin items
            <4>1. /\ IsFiniteSet(Coming(m)') /\ Cardinality(Coming(m)') \in Nat
                  /\ Cardinality(Coming(m)') <= Cardinality(Coming(m))
                BY <1>2, <1>4, <3>2
            <4> QED BY <1>1, <1>4, <3>2, <4>1 DEF Asked
        <3> QED BY <3>1, <3>2
    <2> QED BY <1>4, <2>1, SocialAsks DEF AnswersAsked
<1>5. ASSUME NEW w \in Workers,
             \/ Social!Start(w) \/ Social!CreateSettings(w) \/ Social!Skip(w)
             \/ Social!Take(w) \/ Social!EndRun(w) \/ Social!Compose(w) \/ Social!Refused(w)
             \/ Social!Log(w) \/ Social!Crash(w)
      PROVE  AnswersAsked' /\ SocialDelivers
    <2>1. UNCHANGED <<socialReplies, socialAsked>>
        BY <1>5 DEF Social!Start, Social!CreateSettings, Social!Skip, Social!Take,
              Social!EndRun, Social!Compose, Social!Refused, Social!Log, Social!Crash
    <2>2. \A v \in Workers \ {w} : serving'[v] = serving[v]
        BY <1>1, <1>5 DEF Social!Start, Social!CreateSettings, Social!Skip, Social!Take,
              Social!EndRun, Social!Compose, Social!Refused, Social!Log, Social!Crash, Social!Finish
    <2>3. ASSUME NEW m \in Messages,
                 \/ m \in serving'[w].left
                 \/ serving'[w].pc \in {"compose", "send"} /\ serving'[w].message = m
          PROVE  w \in Coming(m)
        <3> SUFFICES \/ m \in serving[w].left
                     \/ serving[w].pc \in {"compose", "send"} /\ serving[w].message = m
            BY DEF Coming
        <3>1. CASE Social!Start(w)
            <4>1. serving'[w].left = {} /\ serving'[w].pc \in {"create", "list"}
                BY <1>1, <3>1 DEF Social!Start, Social!Idle
            <4> QED BY <2>3, <4>1
        <3>2. CASE Social!CreateSettings(w) \/ Social!EndRun(w) \/ Social!Crash(w)
            <4>1. \/ serving'[w] = Social!Idle
                  \/ serving[w].pc = "create" /\ serving'[w].left = serving[w].left
                     /\ serving'[w].pc = "list"
                BY <1>1, <3>2
                   DEF Social!CreateSettings, Social!EndRun, Social!Crash, Social!Finish,
                      Answering
            <4> QED BY <2>3, <4>1 DEF Social!Idle
        <3>3. CASE Social!Skip(w)
            BY <1>1, <2>3, <3>3 DEF Social!Skip, Answering
        <3>4. CASE Social!Take(w)
            <4>1. PICK n \in serving[w].left :
                     serving' = [serving EXCEPT ![w].pc = "compose", ![w].message = n,
                                        ![w].left = @ \ {n}, ![w].seen = Social!Read(w)]
                BY <3>4 DEF Social!Take
            <4>2. serving'[w].left = serving[w].left \ {n} /\ serving'[w].message = n
                BY <1>1, <4>1 DEF Answering
            <4> QED BY <2>3, <4>1, <4>2
        <3>5. CASE Social!Compose(w)
            <4>1. /\ serving'[w].left = serving[w].left /\ serving'[w].message = serving[w].message
                  /\ serving[w].pc = "compose"
                BY <1>1, <3>5 DEF Social!Compose, Answering
            <4> QED BY <2>3, <4>1
        <3>6. CASE Social!Refused(w)
            <4>1. serving'[w].left = serving[w].left /\ serving'[w].pc = "log"
                BY <1>1, <3>6 DEF Social!Refused, Answering
            <4> QED BY <2>3, <4>1
        <3>7. CASE Social!Log(w)
            <4> DEFINE t == [Social!Idle EXCEPT !.pc = "next", !.auto = TRUE,
                                                !.left = serving[w].left]
            <4>1. serving'[w] = IF serving[w].auto THEN t ELSE Social!Idle
                BY <1>1, <3>7 DEF Social!Log, Social!Finish
            <4>2. /\ t.left = serving[w].left /\ t.pc = "next"
                  /\ Social!Idle.left = {} /\ Social!Idle.pc = "idle"
                BY DEF Social!Idle
            <4> HIDE DEF t
            <4> QED BY <2>3, <4>1, <4>2
        <3> QED BY <1>5, <3>1, <3>2, <3>3, <3>4, <3>5, <3>6, <3>7
    <2>4. \A m \in Messages : Coming(m)' \subseteq Coming(m)
        BY <2>2, <2>3 DEF Coming
    <2> QED BY <1>3, <2>1, <2>4
<1>6. ASSUME NEW w \in Workers, Social!List(w) PROVE AnswersAsked' /\ SocialDelivers
    <2>1. PICK listed \in {arrived, {}} :
             /\ serving' = [serving EXCEPT ![w].pc = "next", ![w].left = listed]
             /\ socialAsked' = [m \in Messages |-> socialAsked[m] + IF m \in listed THEN 1 ELSE 0]
        BY <1>6 DEF Social!List
    <2>2. UNCHANGED socialReplies /\ listed \in SUBSET Messages
        BY <1>1, <1>6 DEF Social!List
    <2>3. /\ serving'[w].left = listed /\ serving'[w].pc = "next"
          /\ \A v \in Workers \ {w} : serving'[v] = serving[v]
        BY <1>1, <2>1 DEF Answering
    <2>4. \A m \in Messages :
             Coming(m)' \subseteq IF m \in listed THEN Coming(m) \cup {w} ELSE Coming(m)
        BY <2>3 DEF Coming
    <2>5. socialAsked' = [m \in Messages |-> IF m \in listed THEN socialAsked[m] + 1
                                                             ELSE socialAsked[m]]
        BY <1>1, <2>1
    <2> QED BY <1>4, <2>2, <2>4, <2>5
<1>7. ASSUME NEW w \in Workers, NEW n \in Messages, Social!Respond(w, n)
      PROVE  AnswersAsked' /\ SocialDelivers
    <2>1. /\ serving' = [serving EXCEPT ![w] = [Social!Idle EXCEPT !.pc = "send", !.message = n]]
          /\ socialAsked' = [socialAsked EXCEPT ![n] = @ + 1]
          /\ UNCHANGED socialReplies
        BY <1>7 DEF Social!Respond
    <2>2. /\ serving'[w].left = {} /\ serving'[w].message = n
          /\ \A v \in Workers \ {w} : serving'[v] = serving[v]
        BY <1>1, <2>1 DEF Social!Idle
    <2>3. \A m \in Messages :
             Coming(m)' \subseteq IF m \in {n} THEN Coming(m) \cup {w} ELSE Coming(m)
        BY <2>2 DEF Coming
    <2>4. socialAsked' = [m \in Messages |-> IF m \in {n} THEN socialAsked[m] + 1
                                                          ELSE socialAsked[m]]
        BY <1>1, <2>1
    <2> DEFINE items == {n}
    <2>5. items \in SUBSET Messages /\ UNCHANGED socialReplies
        BY <2>1
    <2>6. \A m \in Messages :
             Coming(m)' \subseteq IF m \in items THEN Coming(m) \cup {w} ELSE Coming(m)
        BY <2>3
    <2>7. socialAsked' = [m \in Messages |-> IF m \in items THEN socialAsked[m] + 1
                                                             ELSE socialAsked[m]]
        BY <2>4
    <2> HIDE DEF items
    <2> QED BY <1>4, <2>5, <2>6, <2>7
<1>8. ASSUME NEW w \in Workers, Social!Accepted(w) \/ Social!AnswerLost(w)
      PROVE  AnswersAsked' /\ SocialDelivers
    <2>1. PICK n \in Messages :
             n = serving[w].message /\ n \notin serving[w].left /\ serving[w].pc = "send"
        BY <1>1, <1>8 DEF Social!Accepted, Social!AnswerLost, MessageInHand, AnsweringWork
    <2>2. /\ socialReplies' = [socialReplies EXCEPT ![n] = @ + 1]
          /\ UNCHANGED socialAsked
          /\ \E ok \in BOOLEAN : serving' = [serving EXCEPT ![w].pc = "log", ![w].ok = ok]
        BY <1>8, <2>1 DEF Social!Accepted, Social!AnswerLost, Social!Sent, Social!Up
    <2>3. /\ serving'[w].pc = "log" /\ serving'[w].left = serving[w].left
          /\ \A v \in Workers \ {w} : serving'[v] = serving[v]
        BY <1>1, <2>2 DEF Answering
    <2>4. \A m \in Messages : Coming(m)' = IF m = n THEN Coming(m) \ {w} ELSE Coming(m)
        BY <2>1, <2>3 DEF Coming
    <2>5. w \in Coming(n)
        BY <2>1 DEF Coming
    <2>6. /\ IsFiniteSet(Coming(n)') /\ Cardinality(Coming(n)') = Cardinality(Coming(n)) - 1
          /\ Cardinality(Coming(n)') \in Nat
        <3>1. IsFiniteSet(Coming(n)) /\ Coming(n)' = Coming(n) \ {w}
            BY <1>1, <2>1, <2>4
        <3> QED BY <2>5, <3>1, FS_RemoveElement, FS_CardinalityType
    <2>7. ASSUME NEW m \in Messages PROVE Asked(m)'
        <3>1. CASE m = n
            <4>1. socialReplies'[m] = socialReplies[m] + 1 /\ socialAsked'[m] = socialAsked[m]
                BY <1>1, <2>2, <3>1
            <4>2. /\ socialReplies[m] \in Nat /\ socialAsked[m] \in Nat
                  /\ Cardinality(Coming(m)) \in Nat
                  /\ socialReplies[m] + Cardinality(Coming(m)) <= socialAsked[m]
                BY <1>1
            <4>3. IsFiniteSet(Coming(m)') /\ Cardinality(Coming(m)') = Cardinality(Coming(m)) - 1
                BY <2>6, <3>1
            <4> QED BY <4>1, <4>2, <4>3 DEF Asked
        <3>2. CASE m # n
            BY <1>1, <2>1, <2>2, <2>4, <3>2 DEF Asked
        <3> QED BY <3>1, <3>2
    <2>8. socialReplies[n] < socialAsked[n]
        BY <1>1, <2>1, <2>6
    <2>9. Social!Delivery!Deliver(n)
        BY <2>2, <2>8 DEF Social!Delivery!Deliver
    <2> QED BY <2>1, <2>7, <2>9 DEF AnswersAsked, SocialDelivers, Social!Delivery!Next
<1>9. ASSUME \/ \E m \in Messages : Social!Arrive(m)
             \/ \E new \in Social!Settings : Social!Update(new)
             \/ UNCHANGED Social!vars
      PROVE  AnswersAsked' /\ SocialDelivers
    <2>1. UNCHANGED <<socialReplies, socialAsked, serving>>
        BY <1>9 DEF Social!Arrive, Social!Update, Social!vars
    <2> QED BY <1>3, <2>1 DEF Coming
<1> QED BY <1>5, <1>6, <1>7, <1>8, <1>9 DEF Social!Next

\* A run that has sent an answer since auto-respond was switched off takes no other.
Stopped(w) == afterOff[w] > 0 =>
    /\ afterOff[w] = 1
    /\ settings \notin {"on", "absent"}
    /\ serving[w].auto => /\ serving[w].pc \notin {"compose", "send"}
                          /\ serving[w].pc # "log" => serving[w].seen # "on"
OffHolds == \A w \in Workers : Stopped(w)

\* OffHolds is kept.
LEMMA OffHoldsStep ==
    ASSUME SocialTyped, OffHolds, [Social!Next]_(Social!vars) PROVE OffHolds'
<1> USE DEF Social!At, Social!history, Social!bounds
<1>1. /\ \A w \in Workers :
            /\ Stopped(w) /\ afterOff[w] \in Nat /\ MessageInHand(serving[w])
      /\ serving \in [Workers -> Answering] /\ afterOff \in [Workers -> Nat]
      /\ SettingsExist
    BY DEF SocialTyped, SocialTypes, OffHolds
\* Worker w goes on and has sent nothing.
<1>2. ASSUME NEW w \in Workers, UNCHANGED <<settings, afterOff>>,
             \A v \in Workers \ {w} : serving'[v] = serving[v],
             Stopped(w)'
      PROVE  OffHolds'
    BY <1>1, <1>2 DEF OffHolds, Stopped
<1>3. Social!Idle.auto = FALSE
    BY DEF Social!Idle
<1>4. ASSUME NEW new \in Social!Settings, Social!Update(new) PROVE OffHolds'
    <2>1. /\ settings' = new /\ new # "absent" /\ UNCHANGED serving
          /\ \A w \in Workers : afterOff'[w] = IF new = "on" THEN 0 ELSE afterOff[w]
        BY <1>4 DEF Social!Update, Social!Settings
    <2> QED BY <1>1, <2>1 DEF OffHolds, Stopped
<1>5. ASSUME NEW w \in Workers, Social!Start(w) PROVE OffHolds'
    <2>1. /\ serving'[w].seen = settings
          /\ serving'[w].pc \in {"create", "list"}
          /\ \A v \in Workers \ {w} : serving'[v] = serving[v]
        BY <1>1, <1>5 DEF Social!Start, Social!Idle
    <2>2. UNCHANGED <<settings, afterOff>>
        BY <1>5 DEF Social!Start
    <2> QED BY <1>1, <1>2, <2>1, <2>2 DEF Stopped
<1>6. ASSUME NEW w \in Workers, Social!CreateSettings(w) PROVE OffHolds'
    <2>1. CASE settings = "absent"
        <3>1. \A v \in Workers : afterOff[v] = 0
            BY <1>1, <2>1 DEF Stopped
        <3>2. UNCHANGED afterOff
            BY <1>6 DEF Social!CreateSettings
        <3> QED BY <3>1, <3>2 DEF OffHolds, Stopped
    <2>2. CASE settings # "absent"
        <3>1. /\ UNCHANGED <<settings, afterOff>>
              /\ serving' = [serving EXCEPT ![w] = Social!Idle]
            BY <1>6, <2>2 DEF Social!CreateSettings, Social!Finish
        <3> QED BY <1>1, <1>2, <1>3, <3>1 DEF Stopped
    <2> QED BY <2>1, <2>2
<1>7. ASSUME NEW w \in Workers, Social!List(w) PROVE OffHolds'
    <2>1. /\ serving'[w].pc = "next" /\ serving'[w].seen = serving[w].seen
          /\ serving'[w].auto = serving[w].auto /\ serving[w].pc = "list"
          /\ \A v \in Workers \ {w} : serving'[v] = serving[v]
        BY <1>1, <1>7 DEF Social!List, Answering
    <2>2. UNCHANGED <<settings, afterOff>>
        BY <1>7 DEF Social!List
    <2> QED BY <1>1, <1>2, <2>1, <2>2 DEF Stopped
<1>8. ASSUME NEW w \in Workers, Social!Skip(w) PROVE OffHolds'
    <2>1. PICK m \in serving[w].left :
             serving' = [serving EXCEPT ![w].left = @ \ {m}, ![w].seen = Social!Read(w)]
        BY <1>8 DEF Social!Skip
    <2>2. /\ serving'[w].pc = "next" /\ serving'[w].seen = Social!Read(w)
          /\ serving'[w].auto = serving[w].auto /\ serving[w].pc = "next"
          /\ \A v \in Workers \ {w} : serving'[v] = serving[v]
        BY <1>1, <1>8, <2>1 DEF Social!Skip, Answering
    <2>3. UNCHANGED <<settings, afterOff>>
        BY <1>8 DEF Social!Skip
    <2> QED BY <1>1, <1>2, <2>2, <2>3 DEF Stopped, Social!Read
<1>9. ASSUME NEW w \in Workers, Social!Take(w) PROVE OffHolds'
    <2>1. PICK m \in serving[w].left :
             serving' = [serving EXCEPT ![w].pc = "compose", ![w].message = m,
                                        ![w].left = @ \ {m}, ![w].seen = Social!Read(w)]
        BY <1>9 DEF Social!Take
    <2>2. /\ serving'[w].auto = serving[w].auto /\ serving[w].pc = "next"
          /\ Social!Read(w) = "on"
          /\ \A v \in Workers \ {w} : serving'[v] = serving[v]
        BY <1>1, <1>9, <2>1 DEF Social!Take, Answering
    <2>3. UNCHANGED <<settings, afterOff>>
        BY <1>9 DEF Social!Take
    <2>4. serving[w].auto => afterOff[w] = 0
        BY <1>1, <2>2 DEF Stopped, Social!Read
    <2> QED BY <1>1, <1>2, <2>2, <2>3, <2>4 DEF Stopped
<1>10. ASSUME NEW w \in Workers, Social!Compose(w) \/ Social!Refused(w) PROVE OffHolds'
    <2>1. /\ serving'[w].auto = serving[w].auto /\ serving[w].pc \in {"compose", "send"}
          /\ \A v \in Workers \ {w} : serving'[v] = serving[v]
        BY <1>1, <1>10 DEF Social!Compose, Social!Refused, Answering
    <2>2. UNCHANGED <<settings, afterOff>>
        BY <1>10 DEF Social!Compose, Social!Refused
    <2> QED BY <1>1, <1>2, <2>1, <2>2 DEF Stopped
<1>11. ASSUME NEW w \in Workers, NEW m \in Messages, Social!Respond(w, m) PROVE OffHolds'
    <2>1. /\ serving'[w].auto = FALSE
          /\ \A v \in Workers \ {w} : serving'[v] = serving[v]
        BY <1>1, <1>11 DEF Social!Respond, Social!Idle
    <2>2. UNCHANGED <<settings, afterOff>>
        BY <1>11 DEF Social!Respond
    <2> QED BY <1>1, <1>2, <2>1, <2>2 DEF Stopped
<1>12. ASSUME NEW w \in Workers, Social!Accepted(w) \/ Social!AnswerLost(w) PROVE OffHolds'
    <2>1. PICK ok \in BOOLEAN : Social!Sent(w, ok)
        BY <1>12 DEF Social!Accepted, Social!AnswerLost
    <2>2. serving[w].pc = "send" /\ UNCHANGED settings
        BY <1>12 DEF Social!Accepted, Social!AnswerLost
    <2>3. /\ serving'[w].pc = "log" /\ serving'[w].auto = serving[w].auto
          /\ \A v \in Workers \ {w} : serving'[v] = serving[v]
        BY <1>1, <2>1 DEF Social!Sent, Answering
    <2>4. afterOff' = IF serving[w].auto /\ settings # "on"
                      THEN [afterOff EXCEPT ![w] = @ + 1] ELSE afterOff
        BY <2>1 DEF Social!Sent
    <2>5. serving[w].auto => afterOff[w] = 0 /\ settings # "absent"
        BY <1>1, <2>2 DEF Stopped, SettingsExist, AnsweringWork
    <2> QED BY <1>1, <2>2, <2>3, <2>4, <2>5 DEF OffHolds, Stopped
<1>13. ASSUME NEW w \in Workers, Social!Log(w) PROVE OffHolds'
    <2> DEFINE t == [Social!Idle EXCEPT !.pc = "next", !.auto = TRUE, !.left = serving[w].left]
    <2>1. /\ serving' = [serving EXCEPT ![w] = IF serving[w].auto THEN t ELSE Social!Idle]
          /\ serving[w].pc = "log" /\ UNCHANGED <<settings, afterOff>>
        BY <1>13 DEF Social!Log, Social!Finish
    <2>2. t.pc = "next" /\ t.seen = "expired"
        BY DEF Social!Idle
    <2> HIDE DEF t
    <2>3. /\ serving'[w].auto => serving[w].auto /\ serving'[w] = t
          /\ \A v \in Workers \ {w} : serving'[v] = serving[v]
        BY <1>1, <1>3, <2>1
    <2> QED BY <1>1, <1>2, <2>1, <2>2, <2>3 DEF Stopped
<1>14. ASSUME NEW w \in Workers, Social!EndRun(w) \/ Social!Crash(w) PROVE OffHolds'
    <2>1. /\ serving' = [serving EXCEPT ![w] = Social!Idle] /\ UNCHANGED <<settings, afterOff>>
        BY <1>14 DEF Social!EndRun, Social!Crash, Social!Finish
    <2> QED BY <1>1, <1>2, <1>3, <2>1 DEF Stopped
<1>15. ASSUME (\E m \in Messages : Social!Arrive(m)) \/ UNCHANGED Social!vars PROVE OffHolds'
    <2>1. UNCHANGED <<settings, afterOff, serving>>
        BY <1>15 DEF Social!Arrive, Social!vars
    <2> QED BY <1>1, <2>1 DEF OffHolds, Stopped
<1> QED BY <1>4, <1>5, <1>6, <1>7, <1>8, <1>9, <1>10, <1>11, <1>12, <1>13, <1>14, <1>15
        DEF Social!Next

\* The inductive invariant of answers to messages.
SocialInv == SocialTyped /\ AnswersCounted /\ AnswersAsked /\ OffHolds

\* It holds initially, and Deliveries starts there.
LEMMA SocialInit == ASSUME Social!Init PROVE SocialInv /\ Social!Delivery!Init
<1> USE DEF Social!Init
<1>1. SocialTyped
    <2>1. Social!Idle \in Answering /\ MessageInHand(Social!Idle) /\ Social!Idle.pc = "idle"
        BY DEF Social!Idle, Answering, MessageInHand, AnsweringWork
    <2>2. /\ serving \in [Workers -> Answering] /\ \A w \in Workers : MessageInHand(serving[w])
          /\ SettingsExist
        BY <2>1 DEF SettingsExist, AnsweringWork
    <2>3. /\ settings = "absent" /\ arrived = {}
          /\ socialReplies \in [Messages -> Nat] /\ socialLog \in [Messages -> Nat]
          /\ socialAsked \in [Messages -> Nat] /\ unlogged \in [Messages -> Nat]
          /\ afterOff \in [Workers -> Nat]
        OBVIOUS
    <2>4. /\ answering \in 0..MaxAnswering /\ updates \in 0..MaxUpdates
          /\ socialFaults \in 0..MaxFaults
        BY Constants
    <2> HIDE DEF Social!Init
    <2> QED BY <2>2, <2>3, <2>4 DEF SocialTyped, SocialTypes
<1>2. \A m \in Messages : UnderWay(m) = {} /\ Coming(m) = {}
    BY DEF UnderWay, Coming, Social!Idle
<1>3. AnswersCounted /\ AnswersAsked
    BY <1>2, FS_EmptySet DEF AnswersCounted, AnswersAsked, Logged, Asked
<1>4. OffHolds
    BY DEF OffHolds, Stopped
<1>5. Social!Delivery!Init
    BY DEF Social!Delivery!Init
<1> QED BY <1>1, <1>3, <1>4, <1>5 DEF SocialInv

\* It is kept, and each step is one of Deliveries.
LEMMA SocialStep == ASSUME SocialInv, [Social!Next]_(Social!vars)
                    PROVE  SocialInv' /\ [Social!Delivery!Next]_(Social!Delivery!vars)
BY SocialTypedStep, AnswersCountedStep, AnswersAskedStep, OffHoldsStep
   DEF SocialInv, SocialDelivers

\* What it implies.
LEMMA SocialPromises == ASSUME SocialInv
    PROVE  Social!TypeOK /\ Social!AnswersAreLogged /\ Social!OffStopsReplies
<1>1. Social!TypeOK
    BY DEF SocialInv, SocialTyped, SocialTypes, Answering, AnsweringWork, Social!TypeOK
<1>2. Social!AnswersAreLogged
    BY SameSocialCardinality
       DEF SocialInv, AnswersCounted, Logged, UnderWay, Social!AnswersAreLogged, Social!At
<1>3. Social!OffStopsReplies
    BY DEF SocialInv, SocialTyped, SocialTypes, OffHolds, Stopped, Social!OffStopsReplies
<1> QED BY <1>1, <1>2, <1>3

-----------------------------------------------------------------------------
(* All together. *)

\* A step is one component's, the others stutter.
LEMMA StepIsOfComponents ==
    ASSUME [Next]_vars
    PROVE  /\ [Request!Next]_(Request!vars) /\ [Call!Next]_(Call!vars)
           /\ [Reply!Next]_(Reply!vars) /\ [Social!Next]_(Social!vars)
<1>1. ASSUME UNCHANGED requestVars PROVE UNCHANGED Request!vars
    BY <1>1 DEF requestVars, Request!vars, Request!job, Request!history
<1>2. ASSUME UNCHANGED callVars PROVE UNCHANGED Call!vars
    BY <1>2 DEF callVars, Call!vars, Call!counts, Call!history, Call!bounds
<1>3. ASSUME UNCHANGED replyVars PROVE UNCHANGED Reply!vars
    BY <1>3 DEF replyVars, Reply!vars, Reply!history, Reply!bounds
<1>4. ASSUME UNCHANGED socialVars PROVE UNCHANGED Social!vars
    BY <1>4 DEF socialVars, Social!vars, Social!history, Social!bounds
<1>5. CASE NextRequest
    <2>1. Request!Next
        <3> USE <1>5 DEF NextRequest, Request!Next, Request!Job
        <3> QED OBVIOUS
    <2>2. UNCHANGED <<callVars, replyVars, socialVars>>
        BY <1>5 DEF NextRequest, OnlyRequest
    <2> QED BY <1>2, <1>3, <1>4, <2>1, <2>2
<1>6. CASE NextCall
    <2>1. Call!Next
        BY <1>6 DEF NextCall, Call!Next
    <2>2. UNCHANGED <<requestVars, replyVars, socialVars>>
        BY <1>6 DEF NextCall, OnlyCall
    <2> QED BY <1>1, <1>3, <1>4, <2>1, <2>2
<1>7. CASE NextReply
    <2>1. Reply!Next
        BY <1>7 DEF NextReply, Reply!Next, Reply!Serve
    <2>2. UNCHANGED <<requestVars, callVars, socialVars>>
        BY <1>7 DEF NextReply, OnlyReply
    <2> QED BY <1>1, <1>2, <1>4, <2>1, <2>2
<1>8. CASE NextSocial
    <2>1. Social!Next
        BY <1>8 DEF NextSocial, Social!Next
    <2>2. UNCHANGED <<requestVars, callVars, replyVars>>
        BY <1>8 DEF NextSocial, OnlySocial
    <2> QED BY <1>1, <1>2, <1>3, <2>1, <2>2
<1>9. CASE UNCHANGED vars
    BY <1>1, <1>2, <1>3, <1>4, <1>9 DEF vars
<1> QED BY <1>5, <1>6, <1>7, <1>8, <1>9 DEF Next

\* The components' invariants hold together.
ContactsInv == RequestInv /\ CallInv /\ ReplyInv /\ SocialInv

\* It holds in every reachable state.
LEMMA Invariants == FairSpec => []ContactsInv
<1>1. Init => ContactsInv
    BY RequestInit, CallInit, ReplyInit, SocialInit DEF Init, ContactsInv
<1>2. ContactsInv /\ [Next]_vars => ContactsInv'
    BY StepIsOfComponents, RequestStep, CallStep, ReplyStep, SocialStep DEF ContactsInv
<1> QED BY <1>1, <1>2, PTL DEF FairSpec

\* The rows and the places of all requests have their types, for any numbers of them.
THEOREM TypesCorrect == FairSpec => []TypeOK
<1>1. ContactsInv => TypeOK
    BY RequestPromises, CallPromises, ReplyPromises, SocialPromises DEF ContactsInv, TypeOK
<1> QED BY <1>1, Invariants, PTL

\* Review requests, texts after missed calls, replies to reviews and answers to messages
\* implement Deliveries: no customer gets a message that nothing asked for, whatever the
\* order of jobs, requests, callbacks, crashes and lost answers.
THEOREM OnlyReasonedMessages == FairSpec => MessagesHaveReasons
<1>1. Init => /\ Request!Delivery!Init /\ Call!Delivery!Init
              /\ Reply!Delivery!Init /\ Social!Delivery!Init
    BY RequestInit, CallInit, ReplyInit, SocialInit DEF Init
<1>2. ContactsInv /\ [Next]_vars =>
          /\ [Request!Delivery!Next]_(Request!Delivery!vars)
          /\ [Call!Delivery!Next]_(Call!Delivery!vars)
          /\ [Reply!Delivery!Next]_(Reply!Delivery!vars)
          /\ [Social!Delivery!Next]_(Social!Delivery!vars)
    BY StepIsOfComponents, RequestStep, CallStep, ReplyStep, SocialStep DEF ContactsInv
<1> QED BY <1>1, <1>2, Invariants, PTL
        DEF FairSpec, MessagesHaveReasons, Request!SentOnceUnlessAgain, Request!Delivery!Spec,
            Call!OneTextPerCall, Call!Delivery!Spec, Reply!RepliesAreApproved,
            Reply!Delivery!Spec, Social!AnswersAreAsked, Social!Delivery!Spec

\* What the owner reads agrees with the rows: a campaign's count of requests, the counts
\* of texts and of unread messages of a number whose handlers have not overlapped, the
\* history of answers.
THEOREM CountersAgree == FairSpec => []CountersMatchRows
<1>1. ContactsInv => CountersMatchRows
    BY RequestPromises, CallPromises, SocialPromises DEF ContactsInv, CountersMatchRows
<1> QED BY <1>1, Invariants, PTL

\* A review request that failed for good, or a missed call that got no text, has been
\* reported to the owner, or a process died over it.
THEOREM OwnerHearsOfFailures == FairSpec => []FailuresReachOwner
<1>1. ContactsInv => FailuresReachOwner
    BY RequestPromises, CallPromises DEF ContactsInv, FailuresReachOwner
<1> QED BY <1>1, Invariants, PTL

\* Unless two requests that publish overlapped, a reply shown as published is the one
\* Google shows, and one shown as pending or failed is not there or its answer was lost.
THEOREM PublishedIsLive == FairSpec => []StatusTellsWhatIsLive
<1>1. ContactsInv => StatusTellsWhatIsLive
    BY ReplyPromises DEF ContactsInv, StatusTellsWhatIsLive
<1> QED BY <1>1, Invariants, PTL

\* A run under way answers at most one more message once auto-respond is switched off.
THEOREM SwitchStopsRuns == FairSpec => []OffStopsReplies
<1>1. ContactsInv => OffStopsReplies
    BY SocialPromises DEF ContactsInv, OffStopsReplies
<1> QED BY <1>1, Invariants, PTL
====
