---- MODULE WebsiteDrafts ----
(***************************************************************************)
(* The drafts for the customer's website (app/services/website_seo.py):    *)
(* asked about, approved, rejected and archived by short requests, and     *)
(* published by a request that awaits the website between loading the      *)
(* draft and storing what came of it.  Content can also be published       *)
(* without a draft; every publication is noted on the website's channel.   *)
(*                                                                         *)
(* A request stores the columns whose values differ from what it loaded.   *)
(* A publication's reference (URL, id or hash) is its number.  The         *)
(* channel is connected throughout: connecting it is in Connections.       *)
(***************************************************************************)
EXTENDS Naturals

CONSTANTS Workers, Drafts,
          NoDraft,      \* content published without a draft
          MaxRequests,  \* bound
          MaxFaults     \* bound: crashes and lost answers

\* What is assumed of the constants; the modules that instantiate this one state it.
WebsiteDraftsAssumption ==
    NoDraft \notin Drafts /\ MaxRequests \in Nat /\ MaxFaults \in Nat

VARIABLES
    rows,       \* the website_seo_drafts rows
    connected,  \* the channel's status: connected, or error
    latest,     \* external: each draft's latest publication on the website, 0 for none
    doing,      \* the request each worker serves
    parted,     \* history: drafts whose stored outcome may differ from what happened
    mixed,      \* history: drafts decided on by overlapping requests
    unsure,     \* history: the channel's status may differ from the last outcome
    tried,      \* history: whether the last try that was stored succeeded
    outcome,    \* history: each draft's status by its last try
    requests, faults  \* bounds

bounds == <<requests, faults>>
history == <<parted, mixed, unsure, tried, outcome>>
vars == <<rows, connected, latest, doing, history, bounds>>

\* approved, rejected, reason, archived and error tell whether these columns are set.
Row == [status : {"draft", "published", "failed"},
        approval : {"not_requested", "pending", "approved", "rejected"},
        approved : BOOLEAN, rejected : BOOLEAN, reason : BOOLEAN,
        archived : BOOLEAN, error : BOOLEAN, url : 0..MaxRequests]
NewRow == [status |-> "draft", approval |-> "not_requested",
           approved |-> FALSE, rejected |-> FALSE, reason |-> FALSE,
           archived |-> FALSE, error |-> FALSE, url |-> 0]
Idle == [at |-> "idle", draft |-> NoDraft, saw |-> NewRow, set |-> NewRow,
          up |-> TRUE, alone |-> TRUE]

Init ==
    /\ rows = [d \in Drafts |-> NewRow]
    /\ connected = TRUE
    /\ latest = [d \in Drafts \cup {NoDraft} |-> 0]
    /\ doing = [w \in Workers |-> Idle]
    /\ parted = {} /\ mixed = {} /\ unsure = FALSE /\ tried = TRUE
    /\ outcome = [d \in Drafts |-> "draft"]
    /\ requests = 0 /\ faults = 0

At(w, place) == doing[w].at = place
Publishing(w) == doing[w].at \in {"awaits", "accepted", "refused"}
Finish(w) == doing' = [doing EXCEPT ![w] = Idle]
Start == requests < MaxRequests /\ requests' = requests + 1

\* The columns of set that get another value than the request saw.  A time that is set
\* is always another one; a text may be (anew).
Times == {"approved", "rejected", "archived"}
Texts == {"reason", "error"}
Changed(r, anew) ==
    {c \in DOMAIN r.set : r.set[c] # r.saw[c] \/ (c \in Times \cup anew /\ r.set[c])}
Stored(r, anew, row) ==
    [c \in DOMAIN row |-> IF c \in Changed(r, anew) THEN r.set[c] ELSE row[c]]

-----------------------------------------------------------------------------
(* request_approval, approve_draft, reject_draft, archive_drafts *)

Asked == [approval |-> "pending", approved |-> FALSE, rejected |-> FALSE, reason |-> FALSE]
Approved ==
    [approval |-> "approved", approved |-> TRUE, rejected |-> FALSE, reason |-> FALSE]
Rejected(reason) == [approval |-> "rejected", rejected |-> TRUE, reason |-> reason]
Archived == [archived |-> TRUE]

Decisions == {Asked, Approved, Archived} \cup {Rejected(reason) : reason \in BOOLEAN}

\* Any of the four; a draft that is archived is left alone.
Decide(w, d, decision) ==
    /\ At(w, "idle") /\ Start
    /\ ~rows[d].archived
    /\ doing' = [doing EXCEPT ![w] = [Idle EXCEPT !.at = "decided", !.draft = d,
                                                 !.saw = rows[d], !.set = decision]]
    /\ UNCHANGED <<rows, connected, latest, history, faults>>

DecisionOf(row) == <<row.approval, row.approved, row.rejected, row.reason>>

CommitDecision(w) ==
    LET r == doing[w] IN
    /\ At(w, "decided")
    /\ \E anew \in SUBSET Texts : rows' = [rows EXCEPT ![r.draft] = Stored(r, anew, @)]
    /\ mixed' = mixed \cup {d \in {r.draft} : DecisionOf(rows[d]) # DecisionOf(r.saw)}
    /\ Finish(w)
    /\ UNCHANGED <<connected, latest, parted, unsure, tried, outcome, bounds>>

-----------------------------------------------------------------------------
(* publish_to_website, _update_channel_publish_state *)

Published(url) == [status |-> "published", url |-> url, error |-> FALSE]
Failed == [status |-> "failed", error |-> TRUE]

\* An approved draft, or content without one.  What two publications at once leave in
\* the rows is a matter of timing.
Publish(w, d) ==
    LET rivals == {v \in Workers \ {w} : Publishing(v)}
        request == [at |-> "awaits", draft |-> d, up |-> connected, alone |-> rivals = {},
                    saw |-> IF d = NoDraft THEN NewRow ELSE rows[d],
                    set |-> Published(requests')]
    IN
    /\ At(w, "idle") /\ Start
    /\ d # NoDraft => ~rows[d].archived /\ rows[d].approval = "approved"
    /\ doing' = [v \in Workers |->
           IF v = w THEN request
           ELSE IF v \in rivals THEN [doing[v] EXCEPT !.alone = FALSE] ELSE doing[v]]
    /\ UNCHANGED <<rows, connected, latest, history, faults>>

Arrives(w) == latest' = [latest EXCEPT ![doing[w].draft] = doing[w].set.url]
Answered(w, answer) == doing' = [doing EXCEPT ![w].at = answer]
Refused(w) == doing' = [doing EXCEPT ![w].at = "refused", ![w].set = Failed]

WebsiteAccepts(w) ==
    /\ At(w, "awaits")
    /\ Arrives(w) /\ Answered(w, "accepted")
    /\ UNCHANGED <<rows, connected, history, bounds>>

WebsiteRefuses(w) ==
    /\ At(w, "awaits")
    /\ Refused(w)
    /\ UNCHANGED <<rows, connected, latest, history, bounds>>

\* The website has the content and the answer does not come.
AnswerLost(w) ==
    /\ At(w, "awaits")
    /\ faults < MaxFaults /\ faults' = faults + 1
    /\ Arrives(w) /\ Refused(w)
    /\ parted' = parted \cup {doing[w].draft}
    /\ UNCHANGED <<rows, connected, mixed, unsure, tried, outcome, requests>>

\* The outcome, on the draft if there is one and on the channel.
StoreOutcome(w) ==
    LET r == doing[w]
        good == At(w, "accepted")
    IN
    /\ doing[w].at \in {"accepted", "refused"}
    /\ \E anew \in SUBSET Texts :
           rows' = [d \in Drafts |-> IF d = r.draft THEN Stored(r, anew, rows[d]) ELSE rows[d]]
    /\ connected' = IF good # r.up THEN good ELSE connected
    /\ parted' = IF r.alone THEN IF good THEN parted \ {r.draft} ELSE parted
                 ELSE parted \cup {r.draft}
    /\ unsure' = ~r.alone /\ tried' = good
    /\ outcome' = [d \in Drafts |-> IF d = r.draft THEN r.set.status ELSE outcome[d]]
    /\ Finish(w)
    /\ UNCHANGED <<latest, mixed, bounds>>

\* The process dies: what the website has is not in the row.
Crash(w) ==
    /\ ~At(w, "idle")
    /\ faults < MaxFaults /\ faults' = faults + 1
    /\ parted' = IF At(w, "accepted") THEN parted \cup {doing[w].draft} ELSE parted
    /\ Finish(w)
    /\ UNCHANGED <<rows, connected, latest, mixed, unsure, tried, outcome, requests>>

Next == \E w \in Workers :
    \/ \E d \in Drafts, decision \in Decisions : Decide(w, d, decision)
    \/ CommitDecision(w)
    \/ \E d \in Drafts \cup {NoDraft} : Publish(w, d)
    \/ WebsiteAccepts(w) \/ WebsiteRefuses(w) \/ AnswerLost(w)
    \/ StoreOutcome(w) \/ Crash(w)

Spec == Init /\ [][Next]_vars

-----------------------------------------------------------------------------
TypeOK ==
    /\ rows \in [Drafts -> Row]
    /\ connected \in BOOLEAN /\ unsure \in BOOLEAN /\ tried \in BOOLEAN
    /\ latest \in [Drafts \cup {NoDraft} -> 0..MaxRequests]
    /\ outcome \in [Drafts -> {"draft", "published", "failed"}]
    /\ parted \subseteq Drafts \cup {NoDraft} /\ mixed \subseteq Drafts
    /\ \A w \in Workers :
           /\ doing[w].at \in {"idle", "decided", "awaits", "accepted", "refused"}
           /\ doing[w].draft \in Drafts \cup {NoDraft}
           /\ doing[w].saw \in Row /\ DOMAIN doing[w].set \subseteq DOMAIN NewRow
    /\ requests \in 0..MaxRequests /\ faults \in 0..MaxFaults

\* Whatever was decided, refused, archived or published beside it, a draft's row has the
\* reference of its latest publication, says published or failed of the last try, and
\* the channel says what the last try came to: unless publications overlapped, or a
\* crash or a lost answer came between the website and the row.
OutcomesAreTold ==
    /\ \A d \in Drafts \ parted :
          \/ \E w \in Workers : doing[w].draft = d /\ At(w, "accepted")
          \/ /\ rows[d].url = latest[d]
             /\ rows[d].status = outcome[d]
             /\ rows[d].error <=> rows[d].status = "failed"
    /\ ~unsure => connected = tried

\* The columns of a decision are of one decision, unless decisions overlapped: an
\* approved draft shows no rejection, one asked about again neither answer.
DecisionsAreWhole ==
    \A d \in Drafts \ mixed :
        /\ rows[d].approval = "approved" =>
               rows[d].approved /\ ~rows[d].rejected /\ ~rows[d].reason
        /\ rows[d].approval = "pending" => ~rows[d].approved /\ ~rows[d].rejected
====
