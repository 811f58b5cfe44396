---- MODULE SocialReplies ----
(***************************************************************************)
(* Answers to the Instagram messages of one location (app/routers/         *)
(* social.py, app/services/social_responder.py).  Auto-respond lists what  *)
(* Instagram has, takes the messages one by one, composes an answer, sends *)
(* it and logs it; the owner may answer a message by hand or change the    *)
(* settings meanwhile.  A commit expires what the session has loaded, so   *)
(* the settings row is read again for the message after it.                *)
(*                                                                         *)
(* The channel is connected and the messages are direct messages: comments *)
(* and mentions are never listed.                                          *)
(***************************************************************************)
EXTENDS Integers, FiniteSets

CONSTANTS Workers, Messages,
          NoMessage,
          MaxAnswering,  \* bound: auto-respond requests and answers by hand
          MaxUpdates,    \* bound: changes of the settings
          MaxFaults      \* bound: crashes and lost answers

\* What is assumed of the constants; the modules that instantiate this one state it.
SocialRepliesAssumption ==
    /\ NoMessage \notin Messages
    /\ MaxAnswering \in Nat /\ MaxUpdates \in Nat /\ MaxFaults \in Nat

VARIABLES
    settings,   \* the social_automation_settings row, unique by location
    arrived,    \* external: messages Instagram lists
    replies,    \* external: answers Instagram accepted, per message
    logged,     \* social_response_logs rows with success, per message
    doing,      \* the request each worker serves
    asked,      \* history: requests that took the message up
    unlogged,   \* history: answers that went out and are not logged as sent
    afterOff,   \* history: answers a worker's run has sent since they were switched off
    answering, updates, faults  \* bounds

history == <<asked, unlogged, afterOff>>
bounds == <<answering, updates, faults>>
vars == <<settings, arrived, replies, logged, doing, history, bounds>>

\* auto_respond_enabled and auto_respond_dms: both, without messages, not enabled
Settings == {"on", "no_dms", "off"}
Idle == [pc |-> "idle", auto |-> FALSE, left |-> {}, message |-> NoMessage,
         seen |-> "expired", ok |-> FALSE]

Init ==
    /\ settings = "absent"
    /\ arrived = {}
    /\ replies = [m \in Messages |-> 0]
    /\ logged = [m \in Messages |-> 0]
    /\ doing = [w \in Workers |-> Idle]
    /\ asked = [m \in Messages |-> 0]
    /\ unlogged = [m \in Messages |-> 0]
    /\ afterOff = [w \in Workers |-> 0]
    /\ answering = 0 /\ updates = 0 /\ faults = 0

At(w, pc) == doing[w].pc = pc
Finish(w) == doing' = [doing EXCEPT ![w] = Idle]
Up(f, w) == [f EXCEPT ![doing[w].message] = @ + 1]

Arrive(m) ==
    /\ m \notin arrived
    /\ arrived' = arrived \cup {m}
    /\ UNCHANGED <<settings, replies, logged, doing, history, bounds>>

\* update_social_settings writes the columns it was given.
Update(new) ==
    /\ updates < MaxUpdates
    /\ updates' = updates + 1
    /\ settings' = new
    /\ afterOff' = [w \in Workers |-> IF new = "on" THEN 0 ELSE afterOff[w]]
    /\ UNCHANGED <<arrived, replies, logged, doing, asked, unlogged, answering, faults>>

-----------------------------------------------------------------------------
(* auto_respond_all *)

Start(w) ==
    /\ At(w, "idle")
    /\ answering < MaxAnswering
    /\ answering' = answering + 1
    /\ doing' = [doing EXCEPT ![w] =
           [Idle EXCEPT !.pc = IF settings = "absent" THEN "create" ELSE "list",
                        !.auto = TRUE, !.seen = settings]]
    /\ UNCHANGED <<settings, arrived, replies, logged, history, updates, faults>>

\* _get_or_create_settings: a row inserted meanwhile fails the request.
CreateSettings(w) ==
    /\ At(w, "create")
    /\ IF settings = "absent"
       THEN /\ settings' = "on"
            /\ doing' = [doing EXCEPT ![w].pc = "list", ![w].seen = "on"]
       ELSE /\ Finish(w)
            /\ UNCHANGED settings
    /\ UNCHANGED <<arrived, replies, logged, history, bounds>>

\* Every message Instagram has, answered or not; none if Instagram refuses.
List(w) ==
    /\ At(w, "list")
    /\ \E listed \in {arrived, {}} :
          /\ doing' = [doing EXCEPT ![w].pc = "next", ![w].left = listed]
          /\ asked' = [m \in Messages |-> asked[m] + IF m \in listed THEN 1 ELSE 0]
    /\ UNCHANGED <<settings, arrived, replies, logged, unlogged, afterOff, bounds>>

\* Mutant: the settings stay as they were when the request began.
ReadOfRequest(w) == IF doing[w].seen = "expired" THEN "on" ELSE doing[w].seen

\* The settings as the session sees them: read again when they are expired.
Read(w) == IF doing[w].seen = "expired" THEN settings ELSE doing[w].seen

\* Disabled for messages, an excluded keyword, or too recent.
Skip(w) ==
    /\ At(w, "next")
    /\ Read(w) # "off"
    /\ \E m \in doing[w].left :
          doing' = [doing EXCEPT ![w].left = @ \ {m}, ![w].seen = Read(w)]
    /\ UNCHANGED <<settings, arrived, replies, logged, history, bounds>>

Take(w) ==
    /\ At(w, "next")
    /\ Read(w) = "on"
    /\ \E m \in doing[w].left :
          doing' = [doing EXCEPT ![w].pc = "compose", ![w].message = m,
                                 ![w].left = @ \ {m}, ![w].seen = Read(w)]
    /\ UNCHANGED <<settings, arrived, replies, logged, history, bounds>>

\* No message is left, auto-respond is off, or the preview refuses the usage.
EndRun(w) ==
    /\ \/ At(w, "next") /\ (doing[w].left = {} \/ Read(w) = "off")
       \/ At(w, "compose")
    /\ Finish(w)
    /\ UNCHANGED <<settings, arrived, replies, logged, history, bounds>>

\* The answer is generated and its usage committed, or it is a template.
Compose(w) ==
    /\ At(w, "compose")
    /\ \E seen \in {"expired", doing[w].seen} :
          doing' = [doing EXCEPT ![w].pc = "send", ![w].seen = seen]
    /\ UNCHANGED <<settings, arrived, replies, logged, history, bounds>>

-----------------------------------------------------------------------------
(* send_response of the page, which no setting stops; the sending and the log *)

Respond(w, m) ==
    /\ At(w, "idle")
    /\ m \in arrived
    /\ answering < MaxAnswering
    /\ answering' = answering + 1
    /\ doing' = [doing EXCEPT ![w] = [Idle EXCEPT !.pc = "send", !.message = m]]
    /\ asked' = [asked EXCEPT ![m] = @ + 1]
    /\ UNCHANGED <<settings, arrived, replies, logged, unlogged, afterOff, updates, faults>>

Sent(w, ok) ==
    /\ replies' = Up(replies, w)
    /\ afterOff' = IF doing[w].auto /\ settings # "on"
                   THEN [afterOff EXCEPT ![w] = @ + 1] ELSE afterOff
    /\ doing' = [doing EXCEPT ![w].pc = "log", ![w].ok = ok]

Accepted(w) ==
    /\ At(w, "send")
    /\ Sent(w, TRUE)
    /\ UNCHANGED <<settings, arrived, logged, asked, unlogged, bounds>>

Refused(w) ==
    /\ At(w, "send")
    /\ doing' = [doing EXCEPT ![w].pc = "log"]
    /\ UNCHANGED <<settings, arrived, replies, logged, history, bounds>>

\* Instagram delivers the answer and its response is lost: logged as a failure.
AnswerLost(w) ==
    /\ At(w, "send")
    /\ faults < MaxFaults
    /\ faults' = faults + 1
    /\ Sent(w, FALSE)
    /\ unlogged' = Up(unlogged, w)
    /\ UNCHANGED <<settings, arrived, logged, asked, answering, updates>>

Log(w) ==
    /\ At(w, "log")
    /\ logged' = IF doing[w].ok THEN Up(logged, w) ELSE logged
    /\ IF doing[w].auto
       THEN doing' = [doing EXCEPT ![w] =
                [Idle EXCEPT !.pc = "next", !.auto = TRUE, !.left = doing[w].left]]
       ELSE Finish(w)
    /\ UNCHANGED <<settings, arrived, replies, history, bounds>>

Crash(w) ==
    /\ ~At(w, "idle")
    /\ faults < MaxFaults
    /\ faults' = faults + 1
    /\ unlogged' = IF At(w, "log") /\ doing[w].ok THEN Up(unlogged, w) ELSE unlogged
    /\ Finish(w)
    /\ UNCHANGED <<settings, arrived, replies, logged, asked, afterOff, answering, updates>>

-----------------------------------------------------------------------------
Next ==
    \/ \E m \in Messages : Arrive(m)
    \/ \E new \in Settings : Update(new)
    \/ \E w \in Workers :
          \/ Start(w) \/ CreateSettings(w) \/ List(w)
          \/ Skip(w) \/ Take(w) \/ EndRun(w) \/ Compose(w)
          \/ \E m \in Messages : Respond(w, m)
          \/ Accepted(w) \/ Refused(w) \/ AnswerLost(w)
          \/ Log(w) \/ Crash(w)

Spec == Init /\ [][Next]_vars

-----------------------------------------------------------------------------
TypeOK ==
    /\ settings \in Settings \cup {"absent"}
    /\ arrived \subseteq Messages
    /\ replies \in [Messages -> Nat] /\ logged \in [Messages -> Nat]
    /\ doing \in [Workers ->
           [pc : {"idle", "create", "list", "next", "compose", "send", "log"},
            auto : BOOLEAN, left : SUBSET Messages, message : Messages \cup {NoMessage},
            seen : Settings \cup {"absent", "expired"}, ok : BOOLEAN]]
    /\ asked \in [Messages -> Nat] /\ unlogged \in [Messages -> Nat]
    /\ afterOff \in [Workers -> Nat]
    /\ answering \in 0..MaxAnswering /\ updates \in 0..MaxUpdates /\ faults \in 0..MaxFaults

\* A message is answered at most once by each request that took it up, an answer
\* by hand or an auto-respond run that listed it.
Delivery == INSTANCE Deliveries WITH
    Items <- Messages, reasons <- asked, delivered <- replies
AnswersAreAsked == Delivery!Spec

\* Every answer a customer got is in the history as sent, or about to be logged, or
\* its process died or its response was lost.
AnswersAreLogged ==
    \A m \in Messages :
        LET underWay == {w \in Workers : At(w, "log") /\ doing[w].ok /\ doing[w].message = m}
        IN  replies[m] = logged[m] + unlogged[m] + Cardinality(underWay)

\* The switch works while auto-respond runs: once the owner has turned it off, a run
\* under way sends the answer it is at, and no other.
OffStopsReplies == \A w \in Workers : afterOff[w] <= 1
====
