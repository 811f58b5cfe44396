---- MODULE OnboardingAudits ----
(***************************************************************************)
(* The onboarding audits of one account (app/routers/onboarding.py,        *)
(* app/services/onboarding.py).  Starting an audit, and choosing the       *)
(* business it is about, answers at once and leaves the rest to a          *)
(* background task of the same process: search for the business, read its  *)
(* details, look at its competitors, store the scores.                     *)
(*                                                                         *)
(* A task waits for Google Places three times and commits in between.      *)
(* Nothing runs a task again that an unexpected exception or a restart has *)
(* ended, and a business may be chosen at any time.                        *)
(***************************************************************************)
EXTENDS Integers, FiniteSets

CONSTANTS Audits, Tasks,
          Places, NoPlace,  \* what Google Places knows of
          MaxSelects,       \* bound: businesses chosen by the customer
          MaxDeaths         \* bound: tasks ended by an exception or a restart

\* What is assumed of the constants; the modules that instantiate this one state it.
OnboardingAuditsAssumption ==
    /\ NoPlace \notin Places
    /\ MaxSelects \in Nat /\ MaxDeaths \in Nat

VARIABLES
    audit,      \* the onboarding_audits rows
    doing,      \* the background tasks
    raced,      \* history: audits two tasks of which were under way at once
    died,       \* history: audits a task of which was ended
    alone,      \* history: audits whose last analysis found or sought no competitors
    selects     \* bound

vars == <<audit, doing, raced, died, alone, selects>>

Statuses == {"none", "pending", "searching", "analyzing", "completed", "failed"}
\* Whose data the columns hold: the details and scores, and the competitors.
Row == [status : Statuses, candidates : SUBSET Places,
        place : Places \cup {NoPlace}, facts : Places \cup {NoPlace},
        rivals : Places \cup {NoPlace}]
NoRow == [status |-> "none", candidates |-> {}, place |-> NoPlace, facts |-> NoPlace,
          rivals |-> NoPlace]
Idle == [pc |-> "idle", audit |-> "none", place |-> NoPlace]

Init ==
    /\ audit = [a \in Audits |-> NoRow]
    /\ doing = [t \in Tasks |-> Idle]
    /\ raced = {} /\ died = {} /\ alone = {}
    /\ selects = 0

TaskOf(a) == \E t \in Tasks : doing[t].audit = a
At(t, pc) == doing[t].pc = pc
Go(t, pc) == doing' = [doing EXCEPT ![t].pc = pc]
End(t) == doing' = [doing EXCEPT ![t] = Idle]
\* BackgroundTasks.add_task
AddTask(t, pc, a, p) ==
    /\ doing[t] = Idle
    /\ doing' = [doing EXCEPT ![t] = [pc |-> pc, audit |-> a, place |-> p]]

-----------------------------------------------------------------------------
(* The requests. *)

\* start_onboarding: not when the account has a completed audit
Start(t, a) ==
    /\ \A b \in Audits : audit[b].status # "completed"
    /\ audit[a].status = "none"
    /\ audit' = [audit EXCEPT ![a].status = "pending"]
    /\ AddTask(t, "search", a, NoPlace)
    /\ UNCHANGED <<raced, died, alone, selects>>

\* select_business of the router: one of the candidates, if there are any
Select(t, a, p) ==
    /\ selects < MaxSelects
    /\ selects' = selects + 1
    /\ audit[a].status # "none"
    /\ audit[a].candidates = {} \/ p \in audit[a].candidates
    /\ audit' = [audit EXCEPT ![a].status = "analyzing"]
    /\ AddTask(t, "analyse", a, p)
    /\ raced' = IF TaskOf(a) THEN raced \cup {a} ELSE raced
    /\ UNCHANGED <<died, alone>>

-----------------------------------------------------------------------------
(* search_and_match_business *)

Search(t) ==
    /\ At(t, "search")
    /\ audit' = [audit EXCEPT ![doing[t].audit].status = "searching"]
    /\ Go(t, "searching")
    /\ UNCHANGED <<raced, died, alone, selects>>

\* Places is not configured, or refuses the key
SearchUnavailable(t) ==
    /\ At(t, "searching")
    /\ audit' = [audit EXCEPT ![doing[t].audit].status = "failed"]
    /\ End(t)
    /\ UNCHANGED <<raced, died, alone, selects>>

\* Mutant: the status is left as it is.
NoMatchUnsaid(t) ==
    /\ At(t, "searching")
    /\ audit' = [audit EXCEPT ![doing[t].audit].candidates = {}]
    /\ End(t)
    /\ UNCHANGED <<raced, died, alone, selects>>

NoMatch(t) ==
    /\ At(t, "searching")
    /\ audit' = [audit EXCEPT ![doing[t].audit].candidates = {},
                              ![doing[t].audit].status = "failed"]
    /\ End(t)
    /\ UNCHANGED <<raced, died, alone, selects>>

\* The status stays: the customer is to choose.
ManyMatches(t, candidates) ==
    /\ At(t, "searching")
    /\ Cardinality(candidates) > 1
    /\ audit' = [audit EXCEPT ![doing[t].audit].candidates = candidates]
    /\ End(t)
    /\ UNCHANGED <<raced, died, alone, selects>>

\* One commit stores the candidate and the choice.
OneMatch(t, p) ==
    /\ At(t, "searching")
    /\ audit' = [audit EXCEPT ![doing[t].audit].candidates = {p},
                              ![doing[t].audit].place = p,
                              ![doing[t].audit].status = "analyzing"]
    /\ doing' = [doing EXCEPT ![t].pc = "details", ![t].place = p]
    /\ UNCHANGED <<raced, died, alone, selects>>

-----------------------------------------------------------------------------
(* select_business of the service *)

\* Mutant: the business found first is kept.
AnalyseMatched(t) ==
    /\ At(t, "analyse")
    /\ audit' = [audit EXCEPT ![doing[t].audit].status = "analyzing",
                              ![doing[t].audit].place = IF @ = NoPlace THEN doing[t].place ELSE @]
    /\ Go(t, "details")
    /\ UNCHANGED <<raced, died, alone, selects>>

Analyse(t) ==
    /\ At(t, "analyse")
    /\ audit' = [audit EXCEPT ![doing[t].audit].status = "analyzing",
                              ![doing[t].audit].place = doing[t].place]
    /\ Go(t, "details")
    /\ UNCHANGED <<raced, died, alone, selects>>

DetailsUnavailable(t) ==
    /\ At(t, "details")
    /\ audit' = [audit EXCEPT ![doing[t].audit].status = "failed"]
    /\ End(t)
    /\ UNCHANGED <<raced, died, alone, selects>>

\* The details are in the session only until the next commit.
Located(t) ==
    /\ At(t, "details")
    /\ Go(t, "rivals")
    /\ UNCHANGED <<audit, raced, died, alone, selects>>

\* The scores are of the details and of the competitors the row has: those found
\* now, or else, as the columns of their averages stay, those found earlier.
Completed(t, found) ==
    LET a == doing[t].audit
    IN  /\ audit' = [audit EXCEPT ![a].status = "completed",
                                  ![a].facts = doing[t].place,
                                  ![a].rivals = IF found THEN doing[t].place ELSE @]
        /\ alone' = IF found THEN alone \ {a} ELSE alone \cup {a}
        /\ End(t)
        /\ UNCHANGED <<raced, died, selects>>

\* Without a location competitors are not looked for.
NotLocated(t) ==
    /\ At(t, "details")
    /\ Completed(t, FALSE)

RivalsUnavailable(t) ==
    /\ At(t, "rivals")
    /\ audit' = [audit EXCEPT ![doing[t].audit].status = "failed",
                              ![doing[t].audit].facts = doing[t].place]
    /\ End(t)
    /\ UNCHANGED <<raced, died, alone, selects>>

NoRivals(t) ==
    /\ At(t, "rivals")
    /\ Completed(t, FALSE)

SomeRivals(t) ==
    /\ At(t, "rivals")
    /\ Completed(t, TRUE)

\* An HTTP time-out; competitors none of which has a rating; a restart.
Dies(t) ==
    /\ Cardinality(died) < MaxDeaths
    /\ doing[t] # Idle
    /\ died' = died \cup {doing[t].audit}
    /\ End(t)
    /\ UNCHANGED <<audit, raced, alone, selects>>

Step(t) ==
    \/ Search(t) \/ SearchUnavailable(t) \/ NoMatch(t)
    \/ \E candidates \in SUBSET Places : ManyMatches(t, candidates)
    \/ \E p \in Places : OneMatch(t, p)
    \/ Analyse(t) \/ DetailsUnavailable(t) \/ Located(t) \/ NotLocated(t)
    \/ RivalsUnavailable(t) \/ NoRivals(t) \/ SomeRivals(t)

Next ==
    \E t \in Tasks :
        \/ \E a \in Audits : Start(t, a)
        \/ \E a \in Audits, p \in Places : Select(t, a, p)
        \/ Step(t)
        \/ Dies(t)

Spec == Init /\ [][Next]_vars

\* The event loop goes on with a task that has been started or whose answer is there.
Fairness == \A t \in Tasks : WF_vars(Step(t))
FairSpec == Spec /\ Fairness

-----------------------------------------------------------------------------
TypeOK ==
    /\ audit \in [Audits -> Row]
    /\ \A t \in Tasks :
          doing[t] = Idle \/
          doing[t] \in [pc : {"search", "searching", "analyse", "details", "rivals"},
                        audit : Audits, place : Places \cup {NoPlace}]
    /\ raced \subseteq Audits /\ died \subseteq Audits /\ alone \subseteq Audits
    /\ selects \in 0..MaxSelects

\* A completed audit shows the details of the business it names, the one matched or
\* the one chosen last, and scores it against that business's competitors, unless two
\* tasks were under way for it at once; where the last analysis found no competitors,
\* those of an earlier choice may still count.
ResultIsOfThePlace ==
    \A a \in Audits :
        audit[a].status = "completed" /\ a \notin raced =>
            /\ audit[a].place # NoPlace
            /\ audit[a].facts = audit[a].place
            /\ a \notin alone => audit[a].rivals = audit[a].place

\* Several candidates were found and none chosen: /status has needs_selection.
AwaitsChoice(a) ==
    audit[a].status = "searching" /\ Cardinality(audit[a].candidates) > 1 /\ ~TaskOf(a)

\* "Poll this endpoint to track progress and get results": an audit that was started
\* is completed, has failed or waits for a choice in the end, unless its task was
\* ended by an exception or a restart.
AuditsEnd ==
    \A a \in Audits :
        audit[a].status \in {"pending", "searching", "analyzing"} ~>
            \/ audit[a].status \in {"completed", "failed"}
            \/ AwaitsChoice(a)
            \/ a \in died
====
