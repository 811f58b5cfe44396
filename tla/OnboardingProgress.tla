---- MODULE OnboardingProgress ----
(***************************************************************************)
(* The onboarding checklist of one account (app/services/                  *)
(* onboarding_service.py): four steps, completed in any order and possibly *)
(* again.  A request is handled without a pause in its process, but each   *)
(* process has its own session: it loads the row, and its commit writes    *)
(* the columns it has changed.                                             *)
(*                                                                         *)
(* steps_data is a plain JSON column.  The handler changes the loaded      *)
(* dictionary in place and assigns it back; the session compares the       *)
(* object with itself, sees no change, and does not write the column.      *)
(* Only of an empty dictionary does the handler make a new one.            *)
(***************************************************************************)
EXTENDS Integers, FiniteSets, Sequences

CONSTANTS Workers,
          Steps,        \* ONBOARDING_STEPS, in their order
          MaxAnswers    \* bound: requests

\* What is assumed of the constants; the modules that instantiate this one state it.
OnboardingProgressAssumption ==
    /\ Steps \in Seq(STRING) /\ Steps # <<>>
    /\ MaxAnswers \in Nat

VARIABLES
    row,        \* the onboarding_progress row: steps_data, completed_steps, ...
    doing,      \* each worker's request: the step and the row it has loaded
    answered,   \* history: steps whose completion was answered with 200
    overlapped, \* history: two requests were in progress at once
    answers     \* bound

vars == <<row, doing, answered, overlapped, answers>>

AllSteps == {Steps[i] : i \in DOMAIN Steps}
Total == Len(Steps)
NoRow == [exists |-> FALSE, data |-> {}, completed |-> 0, current |-> "none",
          finished |-> FALSE]
\* get_or_create_progress
NewRow == [NoRow EXCEPT !.exists = TRUE, !.current = Steps[1]]
Idle == [step |-> "none", seen |-> NoRow]

\* _get_next_step
NextStep(data) ==
    LET open == {i \in DOMAIN Steps : Steps[i] \notin data}
    IN  IF open = {} THEN "none"
        ELSE Steps[CHOOSE i \in open : \A j \in open : i <= j]

Init ==
    /\ row = NoRow
    /\ doing = [w \in Workers |-> Idle]
    /\ answered = {}
    /\ overlapped = FALSE
    /\ answers = 0

-----------------------------------------------------------------------------
(* POST /onboarding/complete-step *)

Load(w, step) ==
    /\ doing[w] = Idle
    /\ answers < MaxAnswers
    /\ answers' = answers + 1
    /\ doing' = [doing EXCEPT ![w] = [step |-> step, seen |-> row]]
    /\ overlapped' = (overlapped \/ \E v \in Workers : doing[v] # Idle)
    /\ UNCHANGED <<row, answered>>

\* The step is there already: nothing is changed.
AlreadyCompleted(w) ==
    /\ doing[w] # Idle
    /\ doing[w].step \in doing[w].seen.data
    /\ answered' = answered \cup {doing[w].step}
    /\ doing' = [doing EXCEPT ![w] = Idle]
    /\ UNCHANGED <<row, overlapped, answers>>

\* Mutant: each answer counts.
StoreCounting(old, seen, step) ==
    [old EXCEPT !.data = IF seen.data = {} THEN {step} ELSE @,
                !.completed = seen.completed + 1,
                !.current = NextStep(seen.data \cup {step})]

\* The columns an UPDATE sets; the others keep what another request stored.
Store(old, seen, step) ==
    LET data == seen.data \cup {step}
        completed == Cardinality(data)
        current == NextStep(data)
    IN  [old EXCEPT !.data = IF seen.data = {} THEN data ELSE @,
                    !.completed = IF completed # seen.completed THEN completed ELSE @,
                    !.current = IF current # seen.current THEN current ELSE @,
                    !.finished = @ \/ completed >= Total]

Complete(w) ==
    LET seen == doing[w].seen IN
    /\ doing[w] # Idle
    /\ doing[w].step \notin seen.data
    /\ seen.exists \/ ~row.exists
    /\ row' = IF seen.exists THEN Store(row, seen, doing[w].step)
              ELSE Store(NewRow, NewRow, doing[w].step)
    /\ answered' = answered \cup {doing[w].step}
    /\ doing' = [doing EXCEPT ![w] = Idle]
    /\ UNCHANGED <<overlapped, answers>>

\* The row was created meanwhile, and the insert fails: 500.
InsertFails(w) ==
    /\ doing[w] # Idle
    /\ ~doing[w].seen.exists /\ row.exists
    /\ doing' = [doing EXCEPT ![w] = Idle]
    /\ UNCHANGED <<row, answered, overlapped, answers>>

Next ==
    \E w \in Workers :
        \/ \E step \in AllSteps : Load(w, step)
        \/ AlreadyCompleted(w)
        \/ Complete(w)
        \/ InsertFails(w)

Spec == Init /\ [][Next]_vars

-----------------------------------------------------------------------------
TypeOK ==
    /\ row.exists \in BOOLEAN /\ row.finished \in BOOLEAN
    /\ row.data \subseteq AllSteps
    /\ row.completed \in 0..Total
    /\ row.current \in AllSteps \cup {"none"}
    /\ answered \subseteq AllSteps
    /\ overlapped \in BOOLEAN
    /\ answers \in 0..MaxAnswers

\* The progress shown is earned: no step is marked, and none counted, that was not
\* completed, however often a step is repeated and whatever requests overlap.
ProgressIsEarned ==
    /\ row.data \subseteq answered
    /\ row.completed <= Cardinality(answered)
    /\ row.finished => answered = AllSteps
====
