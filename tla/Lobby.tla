------------------------------- MODULE Lobby -------------------------------
(***************************************************************************)
(* The chat connection of the lobby (librose/lobby.cpp, tsock and          *)
(* tchat_sock): it connects to an IRC server whenever it is not connected, *)
(* logs in, joins every channel of its list and follows who is in them.    *)
(*                                                                         *)
(* Everything runs on the main thread: tlobby::pump() calls process(), the *)
(* socket's signals call OnConnect, OnRead and OnClose, and the chat dialog*)
(* joins and parts channels.  The server and the two directions of the     *)
(* connection are external: requests reach it in order, it accepts a login *)
(* some time after it took it, and it answers a JOIN with UJOINED, the list*)
(* of names in two messages and ENDOFNAMES in one go.  Time is not counted:*)
(* a time-out may strike at any moment its state allows, and so may the end*)
(* of the wait for a response.                                             *)
(***************************************************************************)
EXTENDS Naturals, Sequences, FiniteSets

CONSTANTS
    ChannelOrder,   \* the channels, in the order of their ids
    AppChannel,     \* game_config::app_channel, which is never parted
    Friend,         \* tlobby_channel::t_friend, the list of friends
    Nicks,          \* the other users
    Friends,        \* preferences::chat_person()
    Me,             \* the nick of this client
    MaxSessions,    \* bound: connections made
    MaxClicks,      \* bound: channels joined or parted by hand
    MaxLink,        \* bound: messages to the client when the server adds to them
    MaxRequests     \* bound: requests to the server when a ping or a task adds
                    \* to them, the first task of a connection apart

Channels == {ChannelOrder[i] : i \in 1..Len(ChannelOrder)}

ASSUME LobbyAssumption ==
    /\ ChannelOrder \in Seq(Channels)
    /\ AppChannel \in Channels
    /\ Friend \notin Channels
    /\ Me \notin Nicks
    /\ Friends \subseteq Nicks
    /\ {MaxSessions, MaxClicks, MaxLink, MaxRequests} \subseteq Nat
    /\ MaxSessions > 0

VARIABLES
    state_,         \* tsock::tstate
    channels,       \* the channels in the map, the friends apart
    users,          \* tlobby_channel::users, as a set
    cids,           \* users_: the channels each user is in
    users_receiving,
    err,            \* the server refused the channel
    noresponse,     \* noresponse_msgs_, as a set of cookies
    pong_receiving_,
    session,        \* connections made so far
    clicks,         \* joins and parts by hand so far
    carried,        \* history: channels that entered this session with users
                    \* or an unfinished list of the last one
    requests,       \* to the server
    link,           \* to the client
    asked,          \* the server took the login
    registered,     \* the server accepted the login
    members         \* channel -> who is in it, says the server, while we are

tables == <<channels, users, cids, users_receiving, err>>
history == <<session, clicks, carried>>
server == <<asked, registered, members>>
vars == <<state_, tables, noresponse, pong_receiving_, history, requests, link, server>>

max_noresponse_msgs_ == 2

Request(t, c) == [t |-> t, c |-> c]
About(t, c) == [t |-> t, c |-> c, n |-> {}]
Event(t, c, u) == [t |-> t, c |-> c, n |-> {u}]
Names(c, n) == [t |-> "NAMREPLAY", c |-> c, n |-> n]

Join(c) == <<"join", c>>
Userlist(c) == <<"userlist", c>>
Monitor == <<"monitor", Friend>>

Init ==
    /\ state_ = "none"
    /\ channels = {}
    /\ users = [c \in Channels \union {Friend} |-> {}]
    /\ cids = [u \in Nicks \union {Me} |-> {}]
    /\ users_receiving = [c \in Channels |-> FALSE]
    /\ err = [c \in Channels |-> FALSE]
    /\ noresponse = {}
    /\ pong_receiving_ = FALSE
    /\ session = 0 /\ clicks = 0 /\ carried = {}
    /\ requests = <<>> /\ link = <<>>
    /\ asked = FALSE /\ registered = FALSE
    /\ members = [c \in Channels |-> {}]

----------------------------------------------------------------------------
(* Users of a channel, kept on both sides.                                 *)

\* tlobby_channel::insert_user of each of S.
insert_users(c, S) ==
    /\ users' = [users EXCEPT ![c] = @ \union S]
    /\ cids' = [u \in DOMAIN cids |-> IF u \in S THEN cids[u] \union {c} ELSE cids[u]]

\* erase_user(npos), then insert_user of each of S.
replace_users(c, S) ==
    /\ users' = [users EXCEPT ![c] = S]
    /\ cids' = [u \in DOMAIN cids |-> IF u \in S THEN cids[u] \union {c} ELSE cids[u] \ {c}]

\* erase_user of one user, from each of the channels of C.
erase_user(u, C) ==
    /\ users' = [c \in DOMAIN users |-> IF c \in C THEN users[c] \ {u} ELSE users[c]]
    /\ cids' = [cids EXCEPT ![u] = @ \ C]

\* Mutant: the channels forget their users, the users not their channels.
erase_all_users_OneView(C) ==
    /\ users' = [c \in DOMAIN users |-> IF c \in C THEN {} ELSE users[c]]
    /\ UNCHANGED cids

\* erase_user(npos), for each of the channels of C.
erase_all_users(C) ==
    /\ users' = [c \in DOMAIN users |-> IF c \in C THEN {} ELSE users[c]]
    /\ cids' = [u \in DOMAIN cids |-> cids[u] \ C]

joined(c) == users[c] # {}

----------------------------------------------------------------------------
(* Requests that wait for a response.  A work state W holds the cookies and*)
(* the requests while a handler goes through its calls.                    *)

Work == [cookies |-> noresponse, sent |-> requests]

Commit(W) == noresponse' = W.cookies /\ requests' = W.sent

\* Mutant: one cookie too many.
Accepted_OneMore(W, k) == Cardinality(W.cookies \ {k}) <= max_noresponse_msgs_

\* insert_noresponse_msg renews its own cookie.
Accepted(W, k) == Cardinality(W.cookies \ {k}) < max_noresponse_msgs_

insert_noresponse_msg(W, k) == [W EXCEPT !.cookies = @ \union (IF Accepted(W, k) THEN {k} ELSE {})]

erase_noresponse_msg(W, k) == [W EXCEPT !.cookies = @ \ {k}]

Send(W, r) == [W EXCEPT !.sent = Append(@, r)]

\* join_channel(channel, false) and p_monitor: sent only when there is room.
TryRequest(W, k, r) ==
    LET N == insert_noresponse_msg(W, k) IN IF Accepted(W, k) THEN Send(N, r) ELSE N

WantsJoin(c) == c \in channels /\ ~joined(c) /\ ~err[c] /\ ~users_receiving[c]

\* do_task: the friends come first in the map, then the channels; the first
\* request that finds no room ends it.  who: who_reqeusting is old enough.
Ask(acc, k, r) == [work |-> TryRequest(acc.work, k, r), valid |-> Accepted(acc.work, k)]

Monitored(W0, who) ==
    LET start == [work |-> W0, valid |-> TRUE] IN
    IF who /\ joined(Friend) THEN Ask(start, Monitor, Request("MONITOR", Friend)) ELSE start

Visit(acc, c) ==
    IF acc.valid /\ WantsJoin(c) THEN Ask(acc, Join(c), Request("JOIN", c)) ELSE acc

\* The loop of do_task, after the friends and so many channels.
visited(W0, who) ==
    LET after[i \in 0..Len(ChannelOrder)] ==
            IF i = 0 THEN Monitored(W0, who) ELSE Visit(after[i-1], ChannelOrder[i])
    IN after

do_task(W0, who) == visited(W0, who)[Len(ChannelOrder)].work

\* Mutant: a join that is not answered waits for ever.
Expire_NotJoin(k) ==
    /\ k \in noresponse \ {Join(c) : c \in Channels}
    /\ noresponse' = noresponse \ {k}
    /\ UNCHANGED <<state_, tables, pong_receiving_, history, requests, link, server>>

\* noresponse_threshold_ passes for a cookie: the next insert_noresponse_msg
\* drops it before it counts the others, and nobody looks at it until then.
Expire(k) ==
    /\ k \in noresponse
    /\ noresponse' = noresponse \ {k}
    /\ UNCHANGED <<state_, tables, pong_receiving_, history, requests, link, server>>

----------------------------------------------------------------------------
(* The connection.                                                         *)

\* The first connection fills the map from the preferences.
FirstConnect ==
    /\ \E saved \in SUBSET Channels : channels' = saved \union {AppChannel}
    /\ insert_users(Friend, Friends)

\* process() in state none: the server is not reached yet.
Connect ==
    /\ state_ = "none"
    /\ IF channels = {} THEN FirstConnect ELSE UNCHANGED <<channels, users, cids>>
    /\ state_' = "created"
    /\ session' = session + 1
    /\ carried' = {c \in channels : joined(c) \/ users_receiving[c]}
    /\ noresponse' = {}
    /\ pong_receiving_' = FALSE
    /\ UNCHANGED <<users_receiving, err, clicks, requests, link, server>>

\* OnConnect sends the login; the server has greeted.
OnConnect ==
    /\ state_ = "created"
    /\ state_' = "consulting"
    /\ requests' = <<Request("LOGIN", Friend)>>
    /\ link' = <<About("NOTICE", Friend)>>
    /\ UNCHANGED <<tables, noresponse, pong_receiving_, history, server>>

\* The socket is closed: what was on its way is lost, the server forgets us.
\* The last connection the bound admits is not lost.
Disconnected ==
    /\ session < MaxSessions
    /\ state_' = "none"
    /\ requests' = <<>> /\ link' = <<>>
    /\ asked' = FALSE /\ registered' = FALSE
    /\ members' = [c \in Channels |-> {}]

\* tchat_sock::reset_connect.
reset_connect ==
    /\ erase_all_users(channels)
    /\ Disconnected
    /\ UNCHANGED <<channels, users_receiving, err>>

\* process() finds that nothing was received for too long.
TimeOut ==
    /\ state_ = "consulting" \/ (state_ = "ready" /\ pong_receiving_)
    /\ reset_connect
    /\ UNCHANGED <<noresponse, pong_receiving_, history>>

\* tsock::OnClose: the peer closed, or the connection broke or was refused.
OnClose ==
    /\ state_ # "none"
    /\ Disconnected
    /\ UNCHANGED <<tables, noresponse, pong_receiving_, history>>

\* process() in state ready: a ping,
SendPing ==
    /\ state_ = "ready" /\ ~pong_receiving_
    /\ Len(requests) < MaxRequests
    /\ requests' = Append(requests, Request("PING", Friend))
    /\ pong_receiving_' = TRUE
    /\ UNCHANGED <<state_, tables, noresponse, history, link, server>>

\* ... or the tasks, when a response made them due or task_threshold_ has passed.
RunTask ==
    /\ state_ = "ready" /\ ~pong_receiving_
    /\ Len(requests) < MaxRequests
    /\ \E who \in BOOLEAN : Commit(do_task(Work, who))
    /\ UNCHANGED <<state_, tables, pong_receiving_, history, link, server>>

----------------------------------------------------------------------------
(* handle_command, after what mini_read did first (W).                     *)

process_login(W) ==
    /\ state_ = "consulting"
    /\ state_' = "ready"
    /\ insert_users(Friend, {Me})
    /\ Commit(W)
    /\ UNCHANGED <<channels, users_receiving, err>>

process_ujoined(m, W) ==
    /\ Commit(insert_noresponse_msg(erase_noresponse_msg(W, Join(m.c)), Userlist(m.c)))
    /\ UNCHANGED tables

\* Mutants: the old users are never erased; they are erased by every message.
process_userlist_Adds(m, W) ==
    /\ m.c \in channels
    /\ insert_users(m.c, m.n)
    /\ users_receiving' = [users_receiving EXCEPT ![m.c] = TRUE]
    /\ Commit(W)
    /\ UNCHANGED <<channels, err>>

process_userlist_Replaces(m, W) ==
    /\ m.c \in channels
    /\ replace_users(m.c, m.n)
    /\ users_receiving' = [users_receiving EXCEPT ![m.c] = TRUE]
    /\ Commit(W)
    /\ UNCHANGED <<channels, err>>

\* The first message of a list replaces the users, the later ones add to them.
process_userlist(m, W) ==
    /\ m.c \in channels
    /\ IF users_receiving[m.c] THEN insert_users(m.c, m.n) ELSE replace_users(m.c, m.n)
    /\ users_receiving' = [users_receiving EXCEPT ![m.c] = TRUE]
    /\ Commit(W)
    /\ UNCHANGED <<channels, err>>

process_userlist_end(m, W) ==
    /\ users_receiving' = IF m.c \in channels THEN [users_receiving EXCEPT ![m.c] = FALSE]
                          ELSE users_receiving
    /\ Commit(erase_noresponse_msg(W, Userlist(m.c)))
    /\ UNCHANGED <<channels, users, cids, err>>

process_join(m, W) ==
    /\ m.c \in channels
    /\ insert_users(m.c, m.n)
    /\ Commit(W)
    /\ UNCHANGED <<channels, users_receiving, err>>

process_part(m, W) ==
    /\ m.c \in channels
    /\ \E u \in m.n : erase_user(u, {m.c})
    /\ Commit(W)
    /\ UNCHANGED <<channels, users_receiving, err>>

\* From every channel but the friends, where only online changes.
process_quit(m, W) ==
    /\ \E u \in m.n : erase_user(u, cids[u] \ {Friend})
    /\ Commit(W)
    /\ UNCHANGED <<channels, users_receiving, err>>

process_forbid_join(m, W) ==
    /\ err' = IF m.c \in channels THEN [err EXCEPT ![m.c] = TRUE] ELSE err
    /\ Commit(erase_noresponse_msg(W, Join(m.c)))
    /\ UNCHANGED <<channels, users, cids, users_receiving>>

process_online(W) == Commit(erase_noresponse_msg(W, Monitor)) /\ UNCHANGED tables

\* A message that the state or an early return ignores.
Ignored(m, W) ==
    /\ \/ m.t \in {"NOTICE", "PONG"}
       \/ m.t \in {"NAMREPLAY", "JOIN", "PART"} /\ m.c \notin channels
    /\ Commit(W) /\ UNCHANGED tables

Ready(m, W) ==
    /\ state_ = "ready"
    /\ UNCHANGED state_
    /\ \/ m.t = "UJOINED" /\ process_ujoined(m, W)
       \/ m.t = "NAMREPLAY" /\ process_userlist(m, W)
       \/ m.t = "ENDOFNAMES" /\ process_userlist_end(m, W)
       \/ m.t = "JOIN" /\ process_join(m, W)
       \/ m.t = "PART" /\ process_part(m, W)
       \/ m.t = "QUIT" /\ process_quit(m, W)
       \/ m.t = "FORBIDJOIN" /\ process_forbid_join(m, W)
       \/ m.t = "ONLINE" /\ process_online(W)
       \/ Ignored(m, W)

Consulting(m, W) ==
    \/ m.t = "LOGIN" /\ process_login(W)
    \/ state_ = "consulting" /\ UNCHANGED state_ /\ Ignored(m, W)

\* What mini_read does before it looks at the message, whatever the state: a
\* ping or the tasks.  At the greeting, which is what is read first, the tasks
\* are due in any case; later it may be neither.
BeforeRead ==
    LET tasked == {do_task(Work, who) : who \in BOOLEAN}
        pinged == Send(Work, Request("PING", Friend))
    IN IF Head(link).t = "NOTICE" THEN tasked \union {pinged}
       ELSE IF Len(requests) < MaxRequests THEN tasked \union {pinged, Work}
       ELSE {Work}

\* mini_read of one message.
mini_read ==
    /\ link # <<>>
    /\ \E W \in BeforeRead : Ready(Head(link), W) \/ Consulting(Head(link), W)
    /\ pong_receiving_' = FALSE
    /\ link' = Tail(link)
    /\ UNCHANGED <<history, server>>

----------------------------------------------------------------------------
(* The chat dialog, whatever the state of the connection, as long as there *)
(* is a socket; before it is connected what is sent is lost.               *)

Click ==
    /\ state_ # "none"
    /\ clicks < MaxClicks
    /\ clicks' = clicks + 1

SendByHand(r) == IF state_ = "created" THEN Work ELSE Send(Work, r)

\* insert_channel, then join_channel(channel, true): sent in any case.
JoinChannel(c) ==
    /\ c \notin channels
    /\ Click
    /\ channels' = channels \union {c}
    /\ users_receiving' = [users_receiving EXCEPT ![c] = FALSE]
    /\ err' = [err EXCEPT ![c] = FALSE]
    /\ Commit(insert_noresponse_msg(SendByHand(Request("JOIN", c)), Join(c)))
    /\ UNCHANGED <<state_, users, cids, pong_receiving_, session, carried, link, server>>

\* erase_channel.
PartChannel(c) ==
    /\ c \in channels \ {AppChannel}
    /\ Click
    /\ channels' = channels \ {c}
    /\ erase_all_users({c})
    /\ carried' = carried \ {c}
    /\ Commit(SendByHand(Request("PART", c)))
    /\ UNCHANGED <<state_, users_receiving, err, pong_receiving_, session, link, server>>

----------------------------------------------------------------------------
(* The server.                                                             *)

Room == Len(link) < MaxLink

Answer(ms) ==
    /\ requests # <<>>
    /\ Room
    /\ link' = link \o ms
    /\ requests' = Tail(requests)
    /\ UNCHANGED <<state_, tables, noresponse, pong_receiving_, history>>

serve_login ==
    /\ Head(requests).t = "LOGIN"
    /\ Answer(<<>>)
    /\ asked' = TRUE
    /\ UNCHANGED <<registered, members>>

serve_join(c) ==
    /\ Head(requests) = Request("JOIN", c)
    /\ registered /\ members[c] = {}
    /\ \/ \E S \in SUBSET Nicks :
            /\ Answer(<<About("UJOINED", c), Names(c, {Me}), Names(c, S), About("ENDOFNAMES", c)>>)
            /\ members' = [members EXCEPT ![c] = S \union {Me}]
       \/ /\ Answer(<<About("FORBIDJOIN", c)>>)
          /\ UNCHANGED members
    /\ UNCHANGED <<asked, registered>>

serve_part(c) ==
    /\ Head(requests) = Request("PART", c)
    /\ Answer(<<>>)
    /\ members' = [members EXCEPT ![c] = {}]
    /\ UNCHANGED <<asked, registered>>

\* Nothing is answered before the login is accepted, to a member that joins
\* again, and perhaps to a MONITOR either.
serve_nothing ==
    /\ \/ Head(requests).t = "MONITOR"
       \/ Head(requests).t \in {"JOIN", "PING"} /\ ~registered
       \/ Head(requests).t = "JOIN" /\ members[Head(requests).c] # {}
    /\ Answer(<<>>)
    /\ UNCHANGED server

serve_other ==
    /\ registered
    /\ \/ Head(requests).t = "MONITOR" /\ Answer(<<About("ONLINE", Friend)>>)
       \/ Head(requests).t = "PING" /\ Answer(<<About("PONG", Friend)>>)
    /\ UNCHANGED server

Serve ==
    /\ requests # <<>>
    /\ \/ serve_login \/ serve_nothing \/ serve_other
       \/ \E c \in Channels : serve_join(c) \/ serve_part(c)

Tell(m) == Room /\ link' = Append(link, m)

\* The server has checked the nick and the address: the login is accepted.
Welcome ==
    /\ asked /\ ~registered
    /\ registered' = TRUE
    /\ Tell(About("LOGIN", Friend))
    /\ UNCHANGED <<state_, tables, noresponse, pong_receiving_, history, requests, asked, members>>

\* Another user comes or goes, and we are told where we are a member.
OtherJoins(u, c) ==
    /\ members[c] # {} /\ u \notin members[c]
    /\ members' = [members EXCEPT ![c] = @ \union {u}]
    /\ Tell(Event("JOIN", c, u))

OtherParts(u, c) ==
    /\ u \in members[c]
    /\ members' = [members EXCEPT ![c] = @ \ {u}]
    /\ Tell(Event("PART", c, u))

OtherQuits(u) ==
    /\ \E c \in Channels : u \in members[c]
    /\ members' = [c \in Channels |-> members[c] \ {u}]
    /\ Tell(Event("QUIT", Friend, u))

Others ==
    /\ \E u \in Nicks : OtherQuits(u) \/ \E c \in Channels : OtherJoins(u, c) \/ OtherParts(u, c)
    /\ UNCHANGED <<state_, tables, noresponse, pong_receiving_, history, requests, asked, registered>>

Next ==
    \/ Connect \/ OnConnect \/ TimeOut \/ OnClose
    \/ SendPing \/ RunTask \/ mini_read
    \/ \E k \in noresponse : Expire(k)
    \/ \E c \in Channels : JoinChannel(c) \/ PartChannel(c)
    \/ Serve \/ Welcome \/ Others

\* pump() polls and data that arrived is read (in any state at most one of the
\* three is possible); the tasks run again and again; the server goes on
\* answering as long as the client reads; and requests do not wait for ever.
\* That a login is ever accepted, or a connection kept, is not assumed.
Fairness ==
    /\ WF_vars(Connect \/ OnConnect \/ mini_read)
    /\ SF_vars(RunTask) /\ SF_vars(Serve)
    /\ \A k \in {Monitor} \union {Join(c) : c \in Channels} : WF_vars(Expire(k))

Spec == Init /\ [][Next]_vars /\ Fairness

----------------------------------------------------------------------------
(* Properties.                                                             *)

\* Every variable keeps its type; no more than max_noresponse_msgs_ cookies
\* wait at a time.
TypeOK ==
    /\ state_ \in {"none", "created", "consulting", "ready"}
    /\ channels \subseteq Channels /\ carried \subseteq channels
    /\ users \in [Channels \union {Friend} -> SUBSET (Nicks \union {Me})]
    /\ cids \in [Nicks \union {Me} -> SUBSET (Channels \union {Friend})]
    /\ users_receiving \in [Channels -> BOOLEAN]
    /\ err \in [Channels -> BOOLEAN]
    /\ noresponse \subseteq {Monitor} \union {Join(c) : c \in Channels}
                              \union {Userlist(c) : c \in Channels}
    /\ Cardinality(noresponse) <= max_noresponse_msgs_
    /\ pong_receiving_ \in BOOLEAN
    /\ session \in 0..MaxSessions /\ clicks \in 0..MaxClicks
    /\ {asked, registered} \subseteq BOOLEAN
    /\ members \in [Channels -> SUBSET (Nicks \union {Me})]

\* tlobby_channel::users and tlobby_user::cids are two views of one relation:
\* erase_user(npos), the quit of a user and a parted channel keep both, and no
\* user is left pointing to a channel that is not in the map any more.
ViewsAgree ==
    /\ \A u \in Nicks \union {Me}, c \in Channels \union {Friend} : u \in users[c] <=> c \in cids[u]
    /\ \A c \in Channels \ channels : users[c] = {}

\* insert_user VALIDATEs that the user is not in the channel yet: a list of
\* names never names a user twice, not even when a channel is parted and joined
\* again, or the connection lost, in the middle of a list.
ListedOnce ==
    \A i \in 1..Len(link) :
        (i = 1 /\ state_ = "ready" /\ link[i].t = "NAMREPLAY" /\ link[i].c \in channels
               /\ users_receiving[link[i].c])
            => link[i].n \intersect users[link[i].c] = {}

Quiet == state_ = "ready" /\ link = <<>> /\ requests = <<>>

\* When nothing is under way, and a channel did not enter the connection with
\* users or an unfinished list of the last one: the dialog shows who is in it,
\* and do_task does not pass over it when we are neither in it nor refused.  A
\* channel that was parted by hand is left.  Whatever the order in which lists,
\* joins, parts, quits and the user's own clicks met.
Converged ==
    Quiet => \A c \in Channels :
        /\ c \in channels \ carried /\ Me \in members[c] => users[c] = members[c]
        /\ c \in channels \ carried => WantsJoin(c) \/ Me \in members[c] \/ err[c]
        /\ c \notin channels => Me \notin members[c]

Settled(c) == c \notin channels \/ err[c] \/ state_ # "ready" \/ (Me \in members[c] /\ joined(c))

\* A channel of the list that entered the connection with no users and no
\* unfinished list of the last one is joined, unless the server refuses it now or
\* refused it in an earlier connection (err is never taken back) or the
\* connection ends.  The joins of do_task before the login is accepted are
\* ignored and hold the two places for cookies (lobby.cpp:135) meanwhile; so may
\* joins by hand before the socket is connected.
Rejoins == \A c \in Channels : state_ = "ready" /\ c \in channels \ carried ~> Settled(c) \/ c \in carried

\* "once use chat, chat alway in use" (lobby.cpp:980): the same without the
\* exception of what the last connection left behind.
AlwaysRejoins == \A c \in Channels : state_ = "ready" /\ c \in channels ~> Settled(c)
=============================================================================
