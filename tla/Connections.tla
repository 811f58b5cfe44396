---- MODULE Connections ----
(***************************************************************************)
(* The channel rows that connect one location to Google or to Instagram    *)
(* (app/models/channel.py): the owner connects, disconnects and refreshes  *)
(* (app/routers/oauth.py), publishing uses the channel and stores how it   *)
(* went (app/services/publisher.py).                                       *)
(*                                                                         *)
(* Several processes serve requests.  Connecting, refreshing and           *)
(* publishing wait for the provider between reading the row and writing    *)
(* it; columns that keep their loaded value are not written.  Credentials  *)
(* are the consent they stem from; their text is encrypted anew each time, *)
(* so they are always written.  Nothing makes (location, type) unique.     *)
(* The row's error texts and counts, expiry date and names are left out.   *)
(***************************************************************************)
EXTENDS Integers

CONSTANTS Workers, Channels,
          NoChannel,     \* no row
          MaxConsents,   \* bound: how often the owner goes through the consent page
          MaxRequests    \* bound: disconnects, refreshes and publications, together

\* What is assumed of the constants; the modules that instantiate this one state it.
ConnectionsAssumption ==
    NoChannel \notin Channels /\ MaxConsents \in Nat /\ MaxRequests \in Nat

VARIABLES
    type,        \* the provider; never changes
    rows,        \* the channels rows of this location and type
    doing,       \* the request each worker serves
    consents,    \* external: consents the provider has exchanged for tokens
    current,     \* history: the consent that was stored last, per row
    refreshed,   \* history: rows a refresh and another change have overlapped on
    overlapped,  \* history: rows any two changes, or a disconnection and a
                 \* publication, have overlapped on
    connecting,  \* history: two first connections have overlapped
    failing,     \* history: rows whose last refresh or publication did not go
                 \* through, and for which no new consent was stored since
    met,         \* history: rows any two requests have overlapped on
    requests     \* bound

history == <<current, refreshed, overlapped, connecting, failing, met>>
vars == <<type, rows, doing, consents, history, requests>>

Statuses == {"none", "connected", "disconnected", "error", "expired"}
Row == [status : Statuses, consent : 0..MaxConsents, active : BOOLEAN]
NoRow == [status |-> "none", consent |-> 0, active |-> FALSE]
Idle == [pc |-> "idle", channel |-> NoChannel, seen |-> NoRow, grant |-> 0]

Init ==
    /\ type \in {"GBP", "INSTAGRAM"}
    /\ rows = [c \in Channels |-> NoRow]
    /\ doing = [w \in Workers |-> Idle]
    /\ consents = 0
    /\ current = [c \in Channels |-> 0]
    /\ refreshed = {} /\ overlapped = {}
    /\ connecting = FALSE
    /\ failing = {} /\ met = {}
    /\ requests = 0

Exists(c) == rows[c].status # "none"
At(w, pc) == doing[w].pc = pc
Go(w, pc) == doing' = [doing EXCEPT ![w].pc = pc]
Finish(w) == doing' = [doing EXCEPT ![w] = Idle]

\* The owner's changes of a row; connecting finds its row last.
Refreshes == {"refresh", "store", "expire"}
Changes == Refreshes \cup {"reconnect", "disconnect"}
Publications == {"publish", "published", "failed"}
Others(w, c, places) == \E v \in Workers \ {w} : doing[v].channel = c /\ doing[v].pc \in places
UsedByOther(w, c) == \E v \in Workers \ {w} : doing[v].channel = c
NoteOverlap(w, c, withRefresh, with) ==
    /\ refreshed' = IF Others(w, c, withRefresh) THEN refreshed \cup {c} ELSE refreshed
    /\ overlapped' = IF Others(w, c, with) THEN overlapped \cup {c} ELSE overlapped
    /\ met' = IF UsedByOther(w, c) THEN met \cup {c} ELSE met

\* How a refresh or a publication went: said by the provider, or by the code's own
\* check when it does not ask the provider.
NoteAnswer(c, fails) == failing' = IF fails THEN failing \cup {c} ELSE failing \ {c}

\* The columns of new that differ from what the worker loaded are written.
Store(w, new) ==
    LET c == doing[w].channel
    IN  rows' = [rows EXCEPT ![c] =
                    [f \in DOMAIN new |-> IF new[f] = doing[w].seen[f] THEN rows[c][f] ELSE new[f]]]
StoreConsent(w, new) ==
    LET c == doing[w].channel
    IN  rows' = [rows EXCEPT ![c] =
                    [f \in DOMAIN new |-> IF f # "consent" /\ new[f] = doing[w].seen[f]
                                          THEN rows[c][f] ELSE new[f]]]

\* A free worker takes a request on a channel up and reads the row.
Read(w, c, pc) ==
    /\ At(w, "idle")
    /\ requests < MaxRequests
    /\ requests' = requests + 1
    /\ doing' = [doing EXCEPT ![w] = [pc |-> pc, channel |-> c, seen |-> rows[c], grant |-> 0]]

-----------------------------------------------------------------------------
(* google_callback, instagram_callback *)

\* The code and what it leads to are exchanged before the row is looked for.
Exchange(w) ==
    /\ At(w, "idle")
    /\ consents < MaxConsents
    /\ consents' = consents + 1
    /\ doing' = [doing EXCEPT ![w].pc = "find", ![w].grant = consents + 1]
    /\ UNCHANGED <<type, rows, history, requests>>

Find(w) ==
    /\ At(w, "find")
    /\ IF \E c \in Channels : Exists(c)
       THEN \E c \in {x \in Channels : Exists(x)} :
               /\ doing' = [doing EXCEPT ![w].pc = "reconnect", ![w].channel = c,
                                         ![w].seen = rows[c]]
               /\ NoteOverlap(w, c, Refreshes, Changes)
               /\ UNCHANGED connecting
       ELSE /\ Go(w, "connect")
            /\ connecting' = (connecting \/ \E v \in Workers \ {w} : At(v, "connect"))
            /\ UNCHANGED <<refreshed, overlapped, met>>
    /\ UNCHANGED <<type, rows, consents, current, failing, requests>>

\* An existing row keeps is_active.
Reconnect(w) ==
    /\ At(w, "reconnect")
    /\ StoreConsent(w, [doing[w].seen EXCEPT !.status = "connected", !.consent = doing[w].grant])
    /\ current' = [current EXCEPT ![doing[w].channel] = doing[w].grant]
    /\ failing' = failing \ {doing[w].channel}
    /\ Finish(w)
    /\ UNCHANGED <<type, consents, refreshed, overlapped, connecting, met, requests>>

Connect(w) ==
    /\ At(w, "connect")
    /\ \E c \in Channels :
          /\ ~Exists(c)
          /\ rows' = [rows EXCEPT ![c] = [status |-> "connected", consent |-> doing[w].grant,
                                          active |-> TRUE]]
          /\ current' = [current EXCEPT ![c] = doing[w].grant]
          /\ failing' = failing \ {c}
    /\ Finish(w)
    /\ UNCHANGED <<type, consents, refreshed, overlapped, connecting, met, requests>>

-----------------------------------------------------------------------------
(* disconnect_channel *)

Disconnect(w, c) ==
    /\ Exists(c)
    /\ Read(w, c, "disconnect")
    /\ NoteOverlap(w, c, Refreshes, Changes \cup Publications)
    /\ UNCHANGED <<type, rows, consents, current, connecting, failing>>

CommitDisconnection(w) ==
    /\ At(w, "disconnect")
    /\ Store(w, [doing[w].seen EXCEPT !.status = "disconnected", !.consent = 0, !.active = FALSE])
    /\ Finish(w)
    /\ UNCHANGED <<type, consents, history, requests>>

-----------------------------------------------------------------------------
(* refresh_channel_token *)

\* Without a token to refresh with, the channel expires at once.
Refresh(w, c) ==
    /\ Exists(c)
    /\ IF rows[c].consent = 0
       THEN Read(w, c, "expire") /\ NoteAnswer(c, TRUE)
       ELSE Read(w, c, "refresh") /\ UNCHANGED failing
    /\ NoteOverlap(w, c, Changes, Changes)
    /\ UNCHANGED <<type, rows, consents, current, connecting>>

RefreshAnswered(w) ==
    /\ At(w, "refresh")
    /\ \E fails \in BOOLEAN :
          /\ Go(w, IF fails THEN "expire" ELSE "store")
          /\ NoteAnswer(doing[w].channel, fails)
    /\ UNCHANGED <<type, rows, consents, current, refreshed, overlapped, connecting, met, requests>>

\* The credentials that were read, with a new access token, are stored.
CommitRefresh(w) ==
    /\ At(w, "store")
    /\ StoreConsent(w, [doing[w].seen EXCEPT !.status = "connected"])
    /\ Finish(w)
    /\ UNCHANGED <<type, consents, history, requests>>

\* Mutant: a failed refresh is answered without marking the channel.
ForgetRefreshFailure(w) ==
    /\ At(w, "expire")
    /\ Finish(w)
    /\ UNCHANGED <<type, rows, consents, history, requests>>

\* _mark_refresh_failure
MarkRefreshFailure(w) ==
    /\ At(w, "expire")
    /\ Store(w, [doing[w].seen EXCEPT !.status = "expired"])
    /\ Finish(w)
    /\ UNCHANGED <<type, consents, history, requests>>

-----------------------------------------------------------------------------
(* publish_post, of the channel's side; PostPublishing has the post's. *)

\* _get_active_channel, _get_channel_credentials, _validate_publish_request: the
\* Instagram callback stores no ig_user_id, so an Instagram channel is refused.
Publish(w, c) ==
    /\ Exists(c)
    /\ rows[c].active
    /\ IF rows[c].consent = 0 \/ type = "INSTAGRAM"
       THEN Read(w, c, "failed") /\ NoteAnswer(c, TRUE)
       ELSE Read(w, c, "publish") /\ UNCHANGED failing
    /\ NoteOverlap(w, c, {}, {"disconnect"})
    /\ UNCHANGED <<type, rows, consents, current, connecting>>

PlatformAnswers(w) ==
    /\ At(w, "publish")
    /\ \E fails \in BOOLEAN :
          /\ Go(w, IF fails THEN "failed" ELSE "published")
          /\ NoteAnswer(doing[w].channel, fails)
    /\ UNCHANGED <<type, rows, consents, current, refreshed, overlapped, connecting, met, requests>>

StorePublished(w) ==
    /\ At(w, "published")
    /\ Store(w, [doing[w].seen EXCEPT !.status = "connected"])
    /\ Finish(w)
    /\ UNCHANGED <<type, consents, history, requests>>

\* _is_reauth_failure tells the two apart.
StoreFailure(w) ==
    /\ At(w, "failed")
    /\ \E status \in {"expired", "error"} : Store(w, [doing[w].seen EXCEPT !.status = status])
    /\ Finish(w)
    /\ UNCHANGED <<type, consents, history, requests>>

-----------------------------------------------------------------------------
Next == \E w \in Workers :
    \/ Exchange(w) \/ Find(w) \/ Reconnect(w) \/ Connect(w)
    \/ \E c \in Channels : Disconnect(w, c) \/ Refresh(w, c) \/ Publish(w, c)
    \/ CommitDisconnection(w)
    \/ RefreshAnswered(w) \/ CommitRefresh(w) \/ MarkRefreshFailure(w)
    \/ PlatformAnswers(w) \/ StorePublished(w) \/ StoreFailure(w)

Spec == Init /\ [][Next]_vars

-----------------------------------------------------------------------------
TypeOK ==
    /\ type \in {"GBP", "INSTAGRAM"}
    /\ rows \in [Channels -> Row]
    /\ \A c \in Channels : Exists(c) <=> current[c] # 0
    /\ doing \in [Workers -> [pc : {"idle", "find", "reconnect", "connect", "disconnect", "refresh",
                                    "store", "expire", "publish", "published", "failed"},
                              channel : Channels \cup {NoChannel}, seen : Row,
                              grant : 0..MaxConsents]]
    /\ consents \in 0..MaxConsents
    /\ current \in [Channels -> 0..consents]
    /\ refreshed \subseteq Channels /\ overlapped \subseteq Channels
    /\ connecting \in BOOLEAN
    /\ failing \subseteq Channels /\ met \subseteq Channels
    /\ requests \in 0..MaxRequests

\* A channel's credentials are those of the consent that was stored last, or none,
\* unless a refresh and another change have overlapped.
CredentialsAreCurrent ==
    \A c \in Channels \ refreshed : rows[c].consent \in {0, current[c]}

\* A channel that is shown as connected has credentials, a disconnected one has none,
\* unless two changes, or a disconnection and a publication, have overlapped.
StatusMatchesCredentials ==
    \A c \in Channels \ overlapped :
        /\ rows[c].status = "connected" => rows[c].consent # 0
        /\ rows[c].status = "disconnected" => rows[c].consent = 0

\* Between requests, and unless two have overlapped on it, a channel says connected
\* only when its last refresh or publication went through or a new consent came since,
\* and says expired or error only when that one failed.
StatusTellsLastAnswer ==
    \A c \in Channels \ met :
        (\A w \in Workers : doing[w].channel # c) =>
            /\ rows[c].status = "connected" => c \notin failing
            /\ rows[c].status \in {"expired", "error"} => c \in failing

\* A second row needs two first connections at once.
OneChannelPerType ==
    ~connecting => \A b, c \in Channels : Exists(b) /\ Exists(c) => b = c

\* "Reconnect the channel in Integrations, then retry the failed publish job.": a
\* channel that has just been connected again can be published to.
ReconnectedIsActive ==
    [][\A w \in Workers : Reconnect(w) => rows'[doing[w].channel].active
                                          \/ Others(w, doing[w].channel, {"disconnect"})]_vars
====
