---- MODULE MissedCalls ----
(***************************************************************************)
(* Missed-call text back for one number of one location and one customer   *)
(* (app/services/call_text_back_service.py): Twilio reports a missed call  *)
(* (app/routers/webhooks.py, voice-status), the handler logs it, counts it *)
(* and texts the caller back; the customer writes (sms-incoming) and the   *)
(* owner reads the thread (app/routers/calls.py).                          *)
(*                                                                         *)
(* Several processes serve requests.  A request reads rows, may wait for   *)
(* Twilio, and commits the columns it changed with the values it computed  *)
(* from what it read.  A number that is not set up or is switched off      *)
(* leaves every report without effect and is not modelled.                 *)
(***************************************************************************)
EXTENDS Integers, FiniteSets

CONSTANTS Workers, Calls,
          NoCall,        \* a worker serves none
          MaxMessages,   \* bound: what the customer writes
          MaxReads,      \* bound: how often the owner marks the thread read
          MaxFaults      \* bound: crashes and lost answers

\* What is assumed of the constants; the modules that instantiate this one state it.
MissedCallsAssumption ==
    NoCall \notin Calls /\ MaxMessages \in Nat /\ MaxReads \in Nat /\ MaxFaults \in Nat

VARIABLES
    logged,      \* call_logs, unique by twilio_call_sid
    texted,      \* those with sms_sent
    missed,      \* TwilioNumber.missed_calls (and total_calls, which moves with it)
    smsSent,     \* TwilioNumber.sms_sent
    thread,      \* the customer's sms_threads row exists
    unread,      \* its unread_count
    doing,       \* the request each worker serves
    texts,       \* history: texts Twilio accepted, per call
    alerted,     \* history: calls the owner was alerted about
    excused,     \* history: calls a crash or a lost thread race has hit
    unseen,      \* history: stored messages the owner has not read
    overlapped,  \* history: two requests have overlapped
    messages, reads, faults  \* bounds

counts == <<missed, smsSent>>
history == <<texts, alerted, excused, unseen>>
bounds == <<messages, reads, faults>>
vars == <<logged, texted, counts, thread, unread, doing, history, overlapped, bounds>>

Idle == [pc |-> "idle", call |-> NoCall, seen |-> 0]
At(w, pc) == doing[w].pc = pc
Busy(c) == \E w \in Workers : doing[w].call = c

Init ==
    /\ logged = {} /\ texted = {}
    /\ missed = 0 /\ smsSent = 0
    /\ thread = FALSE /\ unread = 0
    /\ doing = [w \in Workers |-> Idle]
    /\ texts = [c \in Calls |-> 0]
    /\ alerted = {} /\ excused = {}
    /\ unseen = 0
    /\ overlapped = FALSE
    /\ messages = 0 /\ reads = 0 /\ faults = 0

Go(w, pc) == doing' = [doing EXCEPT ![w].pc = pc]
GoSeeing(w, pc, value) == doing' = [doing EXCEPT ![w].pc = pc, ![w].seen = value]
Finish(w) == doing' = [doing EXCEPT ![w] = Idle]
\* A free worker takes a request up.
Start(w, pc, call, value) ==
    /\ At(w, "idle")
    /\ doing' = [doing EXCEPT ![w] = [pc |-> pc, call |-> call, seen |-> value]]
    /\ overlapped' = (overlapped \/ \E v \in Workers \ {w} : ~At(v, "idle"))

-----------------------------------------------------------------------------
(* handle_missed_call *)

\* Mutant: a report that comes twice is logged twice.
LogCallAgain(w, c) ==
    /\ Start(w, "count", c, 0)
    /\ ~Busy(c)
    /\ logged' = logged \cup {c}
    /\ UNCHANGED <<texted, counts, thread, unread, history, bounds>>

\* The call is logged first: a repeated report fails on the unique call sid.
LogCall(w, c) ==
    /\ Start(w, "count", c, 0)
    /\ c \notin logged
    /\ logged' = logged \cup {c}
    /\ UNCHANGED <<texted, counts, thread, unread, history, bounds>>

ReadCounts(w) ==
    /\ At(w, "count")
    /\ GoSeeing(w, "bump", missed)
    /\ UNCHANGED <<logged, texted, counts, thread, unread, history, overlapped, bounds>>

CommitCounts(w) ==
    /\ At(w, "bump")
    /\ missed' = doing[w].seen + 1
    /\ Go(w, "preview")
    /\ UNCHANGED <<logged, texted, smsSent, thread, unread, history, overlapped, bounds>>

\* _send_text_back: the settings are loaded before the limits are checked.
Preview(w) ==
    /\ At(w, "preview")
    /\ \E pc \in {"send", "alert"} : GoSeeing(w, pc, smsSent)
    /\ UNCHANGED <<logged, texted, counts, thread, unread, history, overlapped, bounds>>

Accept(w) == texts' = [texts EXCEPT ![doing[w].call] = @ + 1]

TwilioAccepts(w) ==
    /\ At(w, "send")
    /\ Accept(w)
    /\ Go(w, "find")
    /\ UNCHANGED <<logged, texted, counts, thread, unread, alerted, excused, unseen,
                   overlapped, bounds>>

TwilioRefuses(w) ==
    /\ At(w, "send")
    /\ Go(w, "alert")
    /\ UNCHANGED <<logged, texted, counts, thread, unread, history, overlapped, bounds>>

AnswerLost(w) ==
    /\ At(w, "send")
    /\ faults < MaxFaults
    /\ faults' = faults + 1
    /\ Accept(w)
    /\ Go(w, "alert")
    /\ UNCHANGED <<logged, texted, counts, thread, unread, alerted, excused, unseen,
                   overlapped, messages, reads>>

\* _get_or_create_thread looks, and inserts if there is none.
FindThread(w) ==
    /\ At(w, "find")
    /\ Go(w, IF thread THEN "file" ELSE "create")
    /\ UNCHANGED <<logged, texted, counts, thread, unread, history, overlapped, bounds>>

RecordText(w) ==
    /\ texted' = texted \cup {doing[w].call}
    /\ smsSent' = doing[w].seen + 1

\* The commit that inserts the thread stores what the text changed, too.
CreateThread(w) ==
    /\ At(w, "create")
    /\ ~thread
    /\ thread' = TRUE
    /\ RecordText(w)
    /\ Go(w, "file_counted")
    /\ UNCHANGED <<logged, missed, unread, history, overlapped, bounds>>

\* Another request inserted it meanwhile: the unique key fails the commit, all is
\* rolled back, and the handler's own error handling fails on the closed session.
LoseThreadRace(w) ==
    /\ At(w, "create")
    /\ thread
    /\ Finish(w)
    /\ excused' = excused \cup {doing[w].call}
    /\ UNCHANGED <<logged, texted, counts, thread, unread, texts, alerted, unseen,
                   overlapped, bounds>>

\* The message is added to the thread; the usage is recorded next (UsageMetering).
FileText(w) ==
    /\ \/ At(w, "file") /\ RecordText(w)
       \/ At(w, "file_counted") /\ UNCHANGED <<texted, smsSent>>
    /\ Finish(w)
    /\ UNCHANGED <<logged, missed, thread, unread, history, overlapped, bounds>>

\* _notify_text_back_issue
AlertOwner(w) ==
    /\ At(w, "alert")
    /\ alerted' = alerted \cup {doing[w].call}
    /\ Finish(w)
    /\ UNCHANGED <<logged, texted, counts, thread, unread, texts, excused, unseen,
                   overlapped, bounds>>

\* The process dies, or an error leaves the handler: nothing more is committed.
Crash(w) ==
    /\ ~At(w, "idle")
    /\ faults < MaxFaults
    /\ faults' = faults + 1
    /\ Finish(w)
    /\ excused' = excused \cup ({doing[w].call} \ {NoCall})
    /\ UNCHANGED <<logged, texted, counts, thread, unread, texts, alerted, unseen,
                   overlapped, messages, reads>>

-----------------------------------------------------------------------------
(* handle_twilio_incoming_sms, of a message that is no opt-out *)

Receive(w) ==
    /\ messages < MaxMessages
    /\ messages' = messages + 1
    /\ Start(w, IF thread THEN "store" ELSE "open", NoCall, unread)
    /\ UNCHANGED <<logged, texted, counts, thread, unread, history, reads, faults>>

OpenThread(w) ==
    /\ At(w, "open")
    /\ thread' = TRUE
    /\ IF thread THEN Finish(w) ELSE GoSeeing(w, "store", 0)
    /\ UNCHANGED <<logged, texted, counts, unread, history, overlapped, bounds>>

StoreMessage(w) ==
    /\ At(w, "store")
    /\ unread' = doing[w].seen + 1
    /\ unseen' = unseen + 1
    /\ Finish(w)
    /\ UNCHANGED <<logged, texted, counts, thread, texts, alerted, excused, overlapped, bounds>>

(* mark_thread_read *)
ReadThread(w) ==
    /\ thread
    /\ reads < MaxReads
    /\ reads' = reads + 1
    /\ Start(w, "mark", NoCall, unread)
    /\ UNCHANGED <<logged, texted, counts, thread, unread, history, messages, faults>>

\* A column that keeps the value it was read with is not written.
MarkRead(w) ==
    /\ At(w, "mark")
    /\ unread' = IF doing[w].seen = 0 THEN unread ELSE 0
    /\ unseen' = 0
    /\ Finish(w)
    /\ UNCHANGED <<logged, texted, counts, thread, texts, alerted, excused, overlapped, bounds>>

-----------------------------------------------------------------------------
Next == \E w \in Workers :
    \/ \E c \in Calls : LogCall(w, c)
    \/ ReadCounts(w) \/ CommitCounts(w)
    \/ Preview(w)
    \/ TwilioAccepts(w) \/ TwilioRefuses(w) \/ AnswerLost(w)
    \/ FindThread(w) \/ CreateThread(w) \/ LoseThreadRace(w) \/ FileText(w)
    \/ AlertOwner(w)
    \/ Crash(w)
    \/ Receive(w) \/ OpenThread(w) \/ StoreMessage(w)
    \/ ReadThread(w) \/ MarkRead(w)

Spec == Init /\ [][Next]_vars

-----------------------------------------------------------------------------
Places == {"idle", "count", "bump", "preview", "send", "find", "create", "file",
           "file_counted", "alert", "open", "store", "mark"}

TypeOK ==
    /\ logged \subseteq Calls /\ texted \subseteq logged
    /\ missed \in 0..Cardinality(logged) /\ smsSent \in Nat
    /\ thread \in BOOLEAN /\ unread \in Nat
    /\ doing \in [Workers -> [pc : Places, call : Calls \cup {NoCall}, seen : Nat]]
    /\ texts \in [Calls -> Nat]
    /\ alerted \subseteq logged /\ excused \subseteq logged
    /\ unseen \in 0..MaxMessages
    /\ overlapped \in BOOLEAN

\* One text per logged call, however often the call is reported and whatever fails:
\* the log entry is the only reason there ever is.
Delivery == INSTANCE Deliveries WITH
    Items <- Calls,
    reasons <- [c \in Calls |-> IF c \in logged THEN 1 ELSE 0],
    delivered <- texts
OneTextPerCall == Delivery!Spec

\* The number's count of texts is the number of calls marked as texted, also when the
\* handler dies between its two commits; overlapping requests can only lose some.
SentCountMatchesLogs ==
    /\ smsSent <= Cardinality(texted)
    /\ ~overlapped => smsSent = Cardinality(texted)

\* A handled call was texted and marked so, or the owner was alerted.  The excuses are
\* a dead process and a thread that a message of the customer's created first.
TextOrAlert ==
    \A c \in logged \ excused :
        ~Busy(c) => c \in alerted \/ (c \in texted /\ texts[c] = 1)

\* The badge of the thread is the number of messages the owner has not read, as long
\* as requests do not overlap.
UnreadIsExact == ~overlapped => unread = unseen
====
