---------------------------- MODULE LobbyProofs ----------------------------
(***************************************************************************)
(* The chat connection, for every number of channels, users, messages and  *)
(* connections: the two views of who is in a channel agree, do_task asks   *)
(* for no more than it may, and every variable keeps its type.             *)
(***************************************************************************)
EXTENDS Lobby, FiniteSetTheorems, WellFoundedInduction, TLAPS

\* Who may be in a list, and the lists there are.
Everybody == Nicks \union {Me}
Lists == Channels \union {Friend}

\* What is needed of the types: every channel has a list and every user another,
\* and the map holds channels of the program.
Tables ==
    /\ channels \subseteq Channels
    /\ DOMAIN users = Lists
    /\ DOMAIN cids = Everybody

\* The invariant of the two views.
Inv == Tables /\ ViewsAgree

\* The part of the two views about a channel that is in no map.
Unlisted == \A c \in Channels \ channels : users[c] = {}

\* The part of the two views about every list.
Agree == \A u \in Everybody, c \in Lists : u \in users[c] <=> c \in cids[u]

\* The invariant by its parts.
LEMMA InvIs == Inv <=> Tables /\ Agree /\ Unlisted
BY DEF Inv, ViewsAgree, Agree, Unlisted, Everybody, Lists

----------------------------------------------------------------------------
(* The operations on the lists keep the two views together.                *)

\* Users that come, into a channel of the map or one that enters it,
LEMMA InsertKeeps ==
    ASSUME Inv, NEW c \in Lists, NEW S, insert_users(c, S), channels' \subseteq Channels,
           channels \subseteq channels', c \in channels' \union {Friend}
    PROVE  Inv'
<1> USE DEF insert_users
<1>1. Tables /\ Agree /\ Unlisted
  BY InvIs
<1>2. Tables'
  BY <1>1 DEF Tables, Lists, Everybody
<1>3. Agree'
  BY <1>1 DEF Tables, Agree
<1>4. Unlisted'
  BY <1>1, LobbyAssumption DEF Tables, Unlisted, Lists
<1>5. QED
  BY <1>2, <1>3, <1>4, InvIs, PTL

\* ... a list that begins anew,
LEMMA ReplaceKeeps ==
    ASSUME Inv, NEW c \in channels, NEW S, replace_users(c, S), UNCHANGED channels
    PROVE  Inv'
<1> USE DEF replace_users
<1>1. Tables /\ Agree /\ Unlisted
  BY InvIs
<1>2. Tables'
  BY <1>1 DEF Tables
<1>3. Agree'
  BY <1>1 DEF Tables, Agree
<1>4. Unlisted'
  BY <1>1 DEF Tables, Unlisted, Lists
<1>5. QED
  BY <1>2, <1>3, <1>4, InvIs, PTL

\* ... a user that goes, from any channels,
LEMMA EraseUserKeeps ==
    ASSUME Inv, NEW u, NEW C, erase_user(u, C), UNCHANGED channels
    PROVE  Inv'
<1> USE DEF erase_user
<1>1. Tables /\ Agree /\ Unlisted
  BY InvIs
<1>2. Tables'
  BY <1>1 DEF Tables
<1>3. Agree'
  BY <1>1 DEF Tables, Agree
<1>4. Unlisted'
  BY <1>1 DEF Tables, Unlisted, Lists
<1>5. QED
  BY <1>2, <1>3, <1>4, InvIs, PTL

\* ... and all that go, from channels of which some may leave the map.
LEMMA EraseAllKeeps ==
    ASSUME Inv, NEW C, erase_all_users(C), channels' \subseteq channels, channels \ C \subseteq channels'
    PROVE  Inv'
<1> USE DEF erase_all_users
<1>1. Tables /\ Agree /\ Unlisted
  BY InvIs
<1>2. Tables'
  BY <1>1 DEF Tables
<1>3. Agree'
  BY <1>1 DEF Tables, Agree
<1>4. Unlisted'
  BY <1>1 DEF Tables, Unlisted, Lists
<1>5. QED
  BY <1>2, <1>3, <1>4, InvIs, PTL

\* What leaves the lists alone and only adds to the map.
LEMMA StutterKeeps ==
    ASSUME Inv, UNCHANGED <<users, cids>>, channels \subseteq channels', channels' \subseteq Channels
    PROVE  Inv'
<1>1. Tables /\ Agree /\ Unlisted
  BY InvIs
<1>2. Tables' /\ Agree' /\ Unlisted'
  BY <1>1 DEF Tables, Agree, Unlisted
<1>3. QED
  BY <1>2, InvIs, PTL

----------------------------------------------------------------------------
(* The actions.                                                            *)

\* At the start every list is empty.
LEMMA InitKeeps == Init => Inv
BY DEF Init, Inv, Tables, ViewsAgree, Lists, Everybody

\* The connection that is made and lost.
LEMMA ConnectionKeeps ==
    ASSUME Inv, Connect \/ OnConnect \/ TimeOut \/ OnClose
    PROVE  Inv'
<1>1. CASE Connect
  <2>1. CASE channels = {}
    <3>1. PICK saved \in SUBSET Channels : channels' = saved \union {AppChannel}
      BY <1>1, <2>1 DEF Connect, FirstConnect
    <3>2. insert_users(Friend, Friends)
      BY <1>1, <2>1 DEF Connect, FirstConnect
    <3>3. QED
      BY <2>1, <3>1, <3>2, InsertKeeps, LobbyAssumption DEF Lists
  <2>2. CASE channels # {}
    BY <1>1, <2>2, StutterKeeps DEF Connect, Inv, Tables
  <2>3. QED
    BY <2>1, <2>2
<1>2. CASE TimeOut
  BY <1>2, EraseAllKeeps DEF TimeOut, reset_connect
<1>3. CASE OnConnect \/ OnClose
  BY <1>3, StutterKeeps DEF OnConnect, OnClose, tables, Inv, Tables
<1>4. QED
  BY <1>1, <1>2, <1>3

\* The messages of the server.
LEMMA MessageKeeps ==
    ASSUME Inv, mini_read
    PROVE  Inv'
<1> DEFINE m == Head(link)
<1>1. PICK W : Ready(m, W) \/ Consulting(m, W)
  BY DEF mini_read
<1> HIDE DEF m
<1>2. channels \subseteq Channels
  BY DEF Inv, Tables
<1>3. CASE process_login(W)
  BY <1>2, <1>3, InsertKeeps DEF process_login, Lists
<1>4. CASE process_ujoined(m, W) \/ process_online(W) \/ Ignored(m, W)
  BY <1>2, <1>4, StutterKeeps DEF process_ujoined, process_online, Ignored, tables
<1>5. CASE process_userlist_end(m, W) \/ process_forbid_join(m, W)
  BY <1>2, <1>5, StutterKeeps DEF process_userlist_end, process_forbid_join
<1>6. CASE process_userlist(m, W)
  <2>1. m.c \in channels /\ m.c \in Lists /\ UNCHANGED channels
    BY <1>2, <1>6 DEF process_userlist, Lists
  <2>2. insert_users(m.c, m.n) \/ replace_users(m.c, m.n)
    BY <1>6 DEF process_userlist
  <2>3. QED
    BY <1>2, <2>1, <2>2, InsertKeeps, ReplaceKeeps
<1>7. CASE process_join(m, W)
  <2>1. m.c \in channels /\ m.c \in Lists /\ UNCHANGED channels /\ insert_users(m.c, m.n)
    BY <1>2, <1>7 DEF process_join, Lists
  <2>2. QED
    BY <1>2, <2>1, InsertKeeps
<1>8. CASE process_part(m, W) \/ process_quit(m, W)
  BY <1>8, EraseUserKeeps DEF process_part, process_quit
<1>9. QED
  BY <1>1, <1>3, <1>4, <1>5, <1>6, <1>7, <1>8 DEF Ready, Consulting

\* The chat dialog.
LEMMA ClickKeeps ==
    ASSUME Inv, NEW c \in Channels, JoinChannel(c) \/ PartChannel(c)
    PROVE  Inv'
<1>1. CASE JoinChannel(c)
  BY <1>1, StutterKeeps DEF JoinChannel, Inv, Tables
<1>2. CASE PartChannel(c)
  BY <1>2, EraseAllKeeps DEF PartChannel
<1>3. QED
  BY <1>1, <1>2

\* Everything else does not touch the lists.
LEMMA OtherKeeps ==
    ASSUME Inv,
           \/ SendPing \/ RunTask \/ (\E k \in noresponse : Expire(k))
           \/ Serve \/ Welcome \/ Others \/ UNCHANGED vars
    PROVE  Inv'
<1>1. UNCHANGED tables
  BY DEF SendPing, RunTask, Expire, Serve, serve_login, serve_join, serve_part, serve_nothing,
         serve_other, Answer, Welcome, Others, vars
<1>2. QED
  BY <1>1, StutterKeeps DEF tables, Inv, Tables

\* The invariant, in every state of every behaviour.
THEOREM InvariantLobby == Spec => []Inv
<1>1. Init => Inv
  BY InitKeeps
<1>2. Inv /\ [Next]_vars => Inv'
  BY ConnectionKeeps, MessageKeeps, ClickKeeps, OtherKeeps DEF Next
<1>3. QED
  BY <1>1, <1>2, PTL DEF Spec

\* tlobby_channel::users and tlobby_user::cids are two views of one relation, and
\* no user points to a channel that is gone, for any number of channels, users and
\* connections and whatever the server sends.
THEOREM ViewsAgreeAlways == Spec => []ViewsAgree
<1>1. Inv => ViewsAgree
  BY DEF Inv
<1>2. QED
  BY <1>1, InvariantLobby, PTL

----------------------------------------------------------------------------
(* The tasks.  visited is a recursive function over the channels: that it  *)
(* exists and what it computes follows by a least counterexample.          *)

\* A set of natural numbers that is not empty has a least one.
LEMMA Least ==
    ASSUME NEW S \in SUBSET Nat, S # {}
    PROVE  \E k \in S : \A j \in S : k <= j
<1>1. \E k \in S : \A j \in S : ~ (<<j, k>> \in OpToRel(<, Nat))
  BY WFMin, NatLessThanWellFounded
<1>2. PICK k \in S : \A j \in S : ~ (j < k)
  BY <1>1 DEF OpToRel
<1>3. QED
  BY <1>2

\* The values of the loop of do_task after the first j channels.
Loop(f, j, W0, due) ==
    /\ f[0] = Monitored(W0, due)
    /\ \A i \in 1..j : f[i] = Visit(f[i-1], ChannelOrder[i])

\* The loop ends, whatever the number of channels.
LEMMA LoopEnds ==
    ASSUME NEW W0, NEW due, NEW j \in Nat
    PROVE  \E f : f = [i \in 0..j |-> f[i]] /\ Loop(f, j, W0, due)
<1> DEFINE N(k) == \E f : f = [i \in 0..k |-> f[i]] /\ Loop(f, k, W0, due)
           bad == {k \in Nat : ~N(k)}
<1>1. SUFFICES ASSUME bad # {} PROVE FALSE
  OBVIOUS
<1>2. PICK k \in bad : \A i \in bad : k <= i
  BY <1>1, Least
<1>3. k \in Nat /\ ~N(k)
  BY <1>2
<1>4. k # 0
  <2>1. DEFINE f == [i \in 0..0 |-> Monitored(W0, due)]
  <2>2. f = [i \in 0..0 |-> f[i]] /\ Loop(f, 0, W0, due)
    BY DEF Loop
  <2>3. N(0)
    BY <2>2
  <2>4. QED
    BY <2>3, <1>3
<1>5. k - 1 \in Nat /\ N(k - 1)
  BY <1>2, <1>3, <1>4
<1>6. PICK g : g = [i \in 0..(k - 1) |-> g[i]] /\ Loop(g, k - 1, W0, due)
  BY <1>5
<1> DEFINE f == [i \in 0..k |-> IF i = k THEN Visit(g[k - 1], ChannelOrder[k]) ELSE g[i]]
<1>7. f = [i \in 0..k |-> f[i]]
  OBVIOUS
<1>8. f[0] = Monitored(W0, due)
  BY <1>3, <1>4, <1>6 DEF Loop
<1>9. ASSUME NEW i \in 1..k PROVE f[i] = Visit(f[i-1], ChannelOrder[i])
  <2>1. i \in 0..k /\ i - 1 \in 0..k /\ i - 1 # k
    BY <1>3
  <2>2. f[i - 1] = g[i - 1]
    BY <2>1
  <2>3. CASE i = k
    BY <2>1, <2>2, <2>3
  <2>4. CASE i # k
    <3>1. i \in 1..(k - 1)
      BY <1>3, <2>4
    <3>2. g[i] = Visit(g[i - 1], ChannelOrder[i])
      BY <1>6, <3>1 DEF Loop
    <3>3. f[i] = g[i]
      BY <2>1, <2>4
    <3>4. QED
      BY <3>2, <3>3, <2>2
  <2>5. QED
    BY <2>3, <2>4
<1> HIDE DEF f
<1>10. Loop(f, k, W0, due)
  BY <1>8, <1>9 DEF Loop
<1>11. QED
  BY <1>3, <1>7, <1>10

\* visited is that loop.
LEMMA VisitedIs ==
    ASSUME NEW W0, NEW due
    PROVE  Loop(visited(W0, due), Len(ChannelOrder), W0, due)
<1> DEFINE n == Len(ChannelOrder)
           Is(f) == f = [i \in 0..n |-> IF i = 0 THEN Monitored(W0, due) ELSE Visit(f[i-1], ChannelOrder[i])]
<1>1. n \in Nat
  BY LobbyAssumption
<1>2. PICK f : f = [i \in 0..n |-> f[i]] /\ Loop(f, n, W0, due)
  BY <1>1, LoopEnds
<1>3. Is(f)
  <2>1. \A i \in 0..n : f[i] = IF i = 0 THEN Monitored(W0, due) ELSE Visit(f[i-1], ChannelOrder[i])
    BY <1>1, <1>2 DEF Loop
  <2>2. [i \in 0..n |-> f[i]] = [i \in 0..n |-> IF i = 0 THEN Monitored(W0, due) ELSE Visit(f[i-1], ChannelOrder[i])]
    BY <2>1
  <2>3. QED
    BY <1>2, <2>2
<1>4. visited(W0, due) = CHOOSE h : Is(h)
  BY DEF visited
<1>5. Is(visited(W0, due))
  BY <1>3, <1>4
<1> DEFINE v == visited(W0, due)
<1> HIDE DEF v
<1>6. v = [i \in 0..n |-> IF i = 0 THEN Monitored(W0, due) ELSE Visit(v[i-1], ChannelOrder[i])]
  BY <1>5 DEF v
<1> HIDE DEF n
<1>7. v[0] = Monitored(W0, due)
  BY <1>1, <1>6
<1>8. ASSUME NEW i \in 1..n PROVE v[i] = Visit(v[i-1], ChannelOrder[i])
  <2>1. i \in 0..n /\ i # 0
    BY <1>1
  <2>2. QED
    BY <1>6, <2>1
<1>9. QED
  BY <1>7, <1>8 DEF Loop, v, n

\* What may wait for a response.
Cookies == {Monitor} \union {Join(c) : c \in Channels} \union {Userlist(c) : c \in Channels}

\* The requests of the client.
Req == [t : {"LOGIN", "PING", "MONITOR"}, c : {Friend}] \union [t : {"JOIN", "PART"}, c : Channels]

\* A set of cookies that max_noresponse_msgs_ admits.
Few(S) == S \subseteq Cookies /\ IsFiniteSet(S) /\ Cardinality(S) <= max_noresponse_msgs_

\* What the client asks for of itself.
Asks == {Request("MONITOR", Friend), Request("PING", Friend)} \union {Request("JOIN", c) : c \in {d \in Channels : WantsJoin(d)}}

\* The requests as they are, and behind them what the client asks for of itself.
Extends(sent) ==
    /\ sent \in Seq(Req)
    /\ Len(requests) <= Len(sent)
    /\ \A i \in 1..Len(sent) : IF i <= Len(requests) THEN sent[i] = requests[i] ELSE sent[i] \in Asks

\* A work state that a handler may commit.
GoodWork(W) ==
    /\ W \in [cookies : SUBSET Cookies, sent : Seq(Req)]
    /\ Few(W.cookies)
    /\ Extends(W.sent)

\* A cookie that is put in or taken out.
LEMMA InsertFew ==
    ASSUME NEW W, Few(W.cookies), NEW k \in Cookies, W \in [cookies : SUBSET Cookies, sent : Seq(Req)]
    PROVE  /\ insert_noresponse_msg(W, k) \in [cookies : SUBSET Cookies, sent : Seq(Req)]
           /\ Few(insert_noresponse_msg(W, k).cookies)
           /\ insert_noresponse_msg(W, k).sent = W.sent
<1> DEFINE X == insert_noresponse_msg(W, k)
<1>1. X = [W EXCEPT !.cookies = @ \union (IF Accepted(W, k) THEN {k} ELSE {})]
  BY DEF insert_noresponse_msg
<1>2. CASE ~Accepted(W, k)
  <2>1. X.cookies = W.cookies /\ X.sent = W.sent /\ X = [cookies |-> W.cookies, sent |-> W.sent]
    BY <1>1, <1>2
  <2>2. QED
    BY <2>1
<1>3. CASE Accepted(W, k)
  <2>1. X = [cookies |-> W.cookies \union {k}, sent |-> W.sent]
    BY <1>1, <1>3
  <2>2. IsFiniteSet(W.cookies \ {k}) /\ Cardinality(W.cookies \ {k}) < max_noresponse_msgs_
    BY <1>3, FS_RemoveElement DEF Few, Accepted
  <2>3. W.cookies \union {k} = (W.cookies \ {k}) \union {k}
    OBVIOUS
  <2>4. Cardinality(W.cookies \ {k}) \in Nat
    BY <2>2, FS_CardinalityType
  <2>5. IsFiniteSet(W.cookies \union {k}) /\ Cardinality(W.cookies \union {k}) = Cardinality(W.cookies \ {k}) + 1
    BY <2>2, <2>3, FS_AddElement, Zenon
  <2>6. Few(W.cookies \union {k})
    BY <2>2, <2>4, <2>5 DEF Few, max_noresponse_msgs_
  <2>7. QED
    BY <2>1, <2>6 DEF Few
<1>4. QED
  BY <1>2, <1>3

\* Fewer cookies are few, ...
LEMMA FewSubset ==
    ASSUME NEW S, NEW T, Few(S), T \subseteq S
    PROVE  Few(T)
<1>1. IsFiniteSet(T) /\ Cardinality(T) <= Cardinality(S)
  BY FS_Subset DEF Few
<1>2. Cardinality(T) \in Nat /\ Cardinality(S) \in Nat
  BY <1>1, FS_CardinalityType DEF Few
<1>3. QED
  BY <1>1, <1>2 DEF Few, max_noresponse_msgs_

\* ... so a response leaves them so.
LEMMA EraseFew ==
    ASSUME NEW W, Few(W.cookies), NEW k, W \in [cookies : SUBSET Cookies, sent : Seq(Req)]
    PROVE  /\ erase_noresponse_msg(W, k) \in [cookies : SUBSET Cookies, sent : Seq(Req)]
           /\ Few(erase_noresponse_msg(W, k).cookies)
           /\ erase_noresponse_msg(W, k).sent = W.sent
<1>0. erase_noresponse_msg(W, k) = [W EXCEPT !.cookies = @ \ {k}]
  BY DEF erase_noresponse_msg
<1>1. erase_noresponse_msg(W, k) = [cookies |-> W.cookies \ {k}, sent |-> W.sent]
  BY <1>0
<1>2. Few(W.cookies \ {k})
  BY FewSubset
<1>3. QED
  BY <1>1, <1>2 DEF Few

\* One task of do_task.
LEMMA TryGood ==
    ASSUME NEW W, GoodWork(W), NEW k \in Cookies, NEW r \in Asks, r \in Req, requests \in Seq(Req)
    PROVE  GoodWork(TryRequest(W, k, r))
<1> DEFINE N == insert_noresponse_msg(W, k)
<1>1. N \in [cookies : SUBSET Cookies, sent : Seq(Req)] /\ Few(N.cookies) /\ N.sent = W.sent
  BY InsertFew DEF GoodWork
<1>2. TryRequest(W, k, r) = IF Accepted(W, k) THEN Send(N, r) ELSE N
  BY DEF TryRequest
<1> HIDE DEF N
<1>3. CASE ~Accepted(W, k)
  BY <1>1, <1>2, <1>3 DEF GoodWork
<1>4. CASE Accepted(W, k)
  <2>1. TryRequest(W, k, r) = [cookies |-> N.cookies, sent |-> Append(W.sent, r)]
    BY <1>1, <1>2, <1>4 DEF Send
  <2>2. W.sent \in Seq(Req) /\ Extends(W.sent)
    BY DEF GoodWork
  <2>3. Append(W.sent, r) \in Seq(Req)
    BY <2>2
  <2>4. Extends(Append(W.sent, r))
    BY <2>2, <2>3 DEF Extends
  <2>5. QED
    BY <1>1, <2>1, <2>3, <2>4 DEF GoodWork
<1>5. QED
  BY <1>3, <1>4

\* do_task adds requests at the end, and only what it may ask for; the cookies
\* stay few.
LEMMA TasksGood ==
    ASSUME requests \in Seq(Req), Few(noresponse), channels \subseteq Channels, NEW due \in BOOLEAN
    PROVE  GoodWork(Work) /\ GoodWork(do_task(Work, due))
<1>1. GoodWork(Work)
  BY DEF GoodWork, Work, Extends, Few
<1>2. GoodWork(Monitored(Work, due).work)
  <2>1. Monitor \in Cookies /\ Request("MONITOR", Friend) \in Asks /\ Request("MONITOR", Friend) \in Req
    BY DEF Cookies, Asks, Req, Request
  <2>2. GoodWork(TryRequest(Work, Monitor, Request("MONITOR", Friend)))
    BY <1>1, <2>1, TryGood
  <2>3. QED
    BY <1>1, <2>2 DEF Monitored, Ask
<1> DEFINE n == Len(ChannelOrder)
           v == visited(Work, due)
           bad == {i \in 0..n : ~GoodWork(v[i].work)}
<1>3. n \in Nat /\ \A i \in 1..n : ChannelOrder[i] \in Channels
  BY LobbyAssumption DEF Channels
<1>4. v[0] = Monitored(Work, due) /\ \A i \in 1..n : v[i] = Visit(v[i-1], ChannelOrder[i])
  BY VisitedIs DEF Loop
<1> HIDE DEF v, n
<1>5. ASSUME NEW acc, GoodWork(acc.work), NEW c \in Channels
      PROVE  GoodWork(Visit(acc, c).work)
  <2>1. CASE ~(acc.valid /\ WantsJoin(c))
    BY <1>5, <2>1 DEF Visit
  <2>2. CASE acc.valid /\ WantsJoin(c)
    <3>1. Join(c) \in Cookies /\ Request("JOIN", c) \in Asks /\ Request("JOIN", c) \in Req
      BY <2>2 DEF Cookies, Asks, Req, Request
    <3>2. GoodWork(TryRequest(acc.work, Join(c), Request("JOIN", c)))
      BY <1>5, <3>1, TryGood
    <3>3. QED
      BY <2>2, <3>2 DEF Visit, Ask
  <2>3. QED
    BY <2>1, <2>2
<1>6. bad = {}
  <2>1. SUFFICES ASSUME bad # {} PROVE FALSE
    OBVIOUS
  <2>2. bad \in SUBSET Nat
    BY <1>3
  <2>3. PICK i \in bad : \A j \in bad : i <= j
    BY <2>1, <2>2, Least
  <2>4. i \in 0..n /\ ~GoodWork(v[i].work) /\ i # 0
    BY <1>2, <1>4, <2>3
  <2>5. i \in 1..n /\ i - 1 \in 0..n /\ i - 1 \notin bad
    BY <1>3, <2>3, <2>4
  <2>6. GoodWork(v[i-1].work)
    BY <2>5
  <2>7. GoodWork(Visit(v[i-1], ChannelOrder[i]).work)
    BY <1>3, <1>5, <2>5, <2>6
  <2>8. QED
    BY <1>4, <2>4, <2>5, <2>7
<1>7. GoodWork(v[n].work)
  BY <1>3, <1>6
<1>8. QED
  BY <1>1, <1>7 DEF do_task, v, n

----------------------------------------------------------------------------
(* The types.                                                              *)

\* The messages of the server: a list of names says first that we are a member,
\* then who of the others is.
Messages ==
    [t : {"NOTICE", "LOGIN", "PONG", "ONLINE"}, c : {Friend}, n : {{}}]
    \union [t : {"UJOINED", "ENDOFNAMES", "FORBIDJOIN"}, c : Channels, n : {{}}]
    \union [t : {"NAMREPLAY"}, c : Channels, n : {{Me}} \union SUBSET Nicks]
    \union [t : {"JOIN", "PART"}, c : Channels, n : {{u} : u \in Nicks}]
    \union [t : {"QUIT"}, c : {Friend}, n : {{u} : u \in Nicks}]

\* Both directions of the connection carry what the other side sends.
QueuesOK == requests \in Seq(Req) /\ link \in Seq(Messages)

\* Without a connection nothing is on its way and the server knows nothing of us.
Offline ==
    /\ state_ \in {"none", "created"} =>
          link = <<>> /\ requests = <<>> /\ ~asked /\ members = [c \in Channels |-> {}]
    /\ state_ = "none" => session < MaxSessions

\* The invariant of the types: TypeOK, and what it needs of the two queues.
Types == TypeOK /\ IsFiniteSet(noresponse) /\ QueuesOK /\ Offline

\* The types of the two lists.
UserTypes ==
    /\ users \in [Channels \union {Friend} -> SUBSET (Nicks \union {Me})]
    /\ cids \in [Nicks \union {Me} -> SUBSET (Channels \union {Friend})]

\* The types by the parts of the state that change together: the tables, ...
TableTypes ==
    /\ channels \subseteq Channels /\ carried \subseteq channels
    /\ UserTypes
    /\ users_receiving \in [Channels -> BOOLEAN]
    /\ err \in [Channels -> BOOLEAN]

\* ... the server, ...
ServerTypes ==
    /\ asked \in BOOLEAN /\ registered \in BOOLEAN
    /\ members \in [Channels -> SUBSET (Nicks \union {Me})]

\* ... the connection, ...
ClientTypes ==
    /\ state_ \in {"none", "created", "consulting", "ready"}
    /\ pong_receiving_ \in BOOLEAN
    /\ session \in 0..MaxSessions /\ clicks \in 0..MaxClicks

\* ... and the cookies.
Waiting == Few(noresponse)

\* The bounds are numbers.
LEMMA Bounds == MaxSessions \in Nat /\ MaxClicks \in Nat /\ 0 < MaxSessions
BY LobbyAssumption

\* The invariant by these parts.
LEMMA TypesIs ==
    Types <=> TableTypes /\ ServerTypes /\ ClientTypes /\ Waiting /\ QueuesOK /\ Offline
BY DEF Types, TypeOK, TableTypes, UserTypes, ServerTypes, ClientTypes, Waiting, Few, Cookies

\* The operations on the lists keep their types: users that come,
LEMMA InsertTypes ==
    ASSUME UserTypes, NEW c \in Channels \union {Friend}, NEW S \in SUBSET (Nicks \union {Me}), insert_users(c, S)
    PROVE  UserTypes'
BY DEF insert_users, UserTypes

\* ... a list that begins anew,
LEMMA ReplaceTypes ==
    ASSUME UserTypes, NEW c \in Channels, NEW S \in SUBSET (Nicks \union {Me}), replace_users(c, S)
    PROVE  UserTypes'
BY DEF replace_users, UserTypes

\* ... and users that go.
LEMMA EraseTypes ==
    ASSUME UserTypes, NEW C, \/ erase_all_users(C)
                             \/ \E u \in Nicks \union {Me} : erase_user(u, C)
    PROVE  UserTypes'
BY DEF erase_all_users, erase_user, UserTypes

\* The types hold at the start, ...
LEMMA InitTypes == Init => Types
<1>1. Init => TableTypes
  BY LobbyAssumption DEF Init, TableTypes, UserTypes
<1>2. Init => ServerTypes /\ ClientTypes
  <2>1. Init => ServerTypes
    BY DEF Init, ServerTypes
  <2>2. Init => ClientTypes
    <3>1. 0 \in 0..MaxSessions /\ 0 \in 0..MaxClicks
      BY Bounds
    <3>2. QED
      BY <3>1 DEF Init, ClientTypes
  <2>3. QED
    BY <2>1, <2>2
<1>3. Init => Waiting
  BY FS_EmptySet DEF Init, Waiting, Few, max_noresponse_msgs_
<1>4. Init => QueuesOK /\ Offline
  BY LobbyAssumption DEF Init, QueuesOK, Offline
<1>5. QED
  BY <1>1, <1>2, <1>3, <1>4, TypesIs

\* ... after a connection is begun,
LEMMA ConnectTypes ==
    ASSUME Types, Connect
    PROVE  Types'
<1>1. TableTypes /\ ServerTypes /\ ClientTypes /\ QueuesOK /\ Offline
  BY TypesIs
<1>2. channels \subseteq channels' /\ channels' \subseteq Channels /\ UserTypes'
  <2>1. CASE channels = {}
    <3>1. insert_users(Friend, Friends) /\ channels' \subseteq Channels
      BY <2>1, LobbyAssumption DEF Connect, FirstConnect
    <3>2. QED
      BY <1>1, <2>1, <3>1, InsertTypes, LobbyAssumption DEF TableTypes
  <2>2. CASE channels # {}
    BY <1>1, <2>2 DEF Connect, TableTypes, UserTypes
  <2>3. QED
    BY <2>1, <2>2
<1>3. TableTypes'
  BY <1>1, <1>2 DEF Connect, TableTypes
<1>4. ServerTypes' /\ ClientTypes' /\ QueuesOK' /\ Offline'
  <2>1. session' \in 0..MaxSessions
    BY <1>1, Bounds DEF Connect, ClientTypes, Offline
  <2>2. ClientTypes'
    BY <1>1, <2>1 DEF Connect, ClientTypes
  <2>3. ServerTypes' /\ QueuesOK'
    BY <1>1 DEF Connect, server, ServerTypes, QueuesOK
  <2>4. Offline'
    BY <1>1 DEF Connect, server, Offline
  <2>5. QED
    BY <2>2, <2>3, <2>4
<1>5. Waiting'
  BY FS_EmptySet DEF Connect, Waiting, Few, max_noresponse_msgs_
<1>6. QED
  BY <1>3, <1>4, <1>5, TypesIs, PTL

\* ... made, where the login is sent,
LEMMA OnConnectTypes ==
    ASSUME Types, OnConnect
    PROVE  Types'
<1>1. TableTypes /\ ServerTypes /\ ClientTypes /\ Waiting /\ Offline
  BY TypesIs
<1>2. TableTypes' /\ Waiting'
  BY <1>1 DEF OnConnect, Waiting, tables, history, TableTypes, UserTypes
<1>3. ServerTypes' /\ ClientTypes' /\ Offline'
  BY <1>1 DEF OnConnect, server, history, ServerTypes, ClientTypes, Offline
<1>4. Request("LOGIN", Friend) \in Req /\ About("NOTICE", Friend) \in Messages
  BY DEF Request, Req, About, Messages
<1>5. QueuesOK'
  BY <1>4 DEF OnConnect, QueuesOK
<1>6. QED
  BY <1>2, <1>3, <1>5, TypesIs, PTL

\* ... and lost;
LEMMA DisconnectedTypes ==
    ASSUME Types, TimeOut \/ OnClose
    PROVE  Types'
<1>1. TableTypes /\ ServerTypes /\ ClientTypes /\ Waiting
  BY TypesIs
<1>2. Disconnected /\ UNCHANGED <<noresponse, pong_receiving_, history, channels, users_receiving, err>>
  BY DEF TimeOut, OnClose, reset_connect, tables
<1>3. UserTypes'
  <2>1. CASE TimeOut
    BY <1>1, <2>1, EraseTypes DEF TimeOut, reset_connect, TableTypes
  <2>2. CASE OnClose
    BY <1>1, <2>2 DEF OnClose, tables, TableTypes, UserTypes
  <2>3. QED
    BY <2>1, <2>2
<1>4. TableTypes' /\ Waiting'
  BY <1>1, <1>2, <1>3 DEF TableTypes, Waiting, history
<1>5. ServerTypes' /\ ClientTypes' /\ Offline' /\ QueuesOK'
  <2>1. ServerTypes'
    BY <1>1, <1>2 DEF Disconnected, ServerTypes
  <2>2. ClientTypes'
    BY <1>1, <1>2 DEF Disconnected, history, ClientTypes
  <2>3. Offline'
    BY <1>2 DEF Disconnected, history, Offline
  <2>4. QueuesOK'
    BY <1>2 DEF Disconnected, QueuesOK
  <2>5. QED
    BY <2>1, <2>2, <2>3, <2>4
<1>6. QED
  BY <1>4, <1>5, TypesIs, PTL

\* after a ping, the tasks, or the end of a wait;
LEMMA TaskTypes ==
    ASSUME Types, SendPing \/ RunTask \/ (\E k \in noresponse : Expire(k))
    PROVE  Types'
<1>1. TableTypes /\ ServerTypes /\ ClientTypes /\ Waiting /\ Offline /\ QueuesOK
  BY TypesIs
<1>2. TableTypes' /\ ServerTypes'
  BY <1>1 DEF SendPing, RunTask, Expire, tables, history, server, TableTypes, UserTypes, ServerTypes
<1>3. ClientTypes'
  BY <1>1 DEF SendPing, RunTask, Expire, history, ClientTypes
<1>4. Waiting' /\ requests' \in Seq(Req)
  <2>1. CASE SendPing
    <3>1. Request("PING", Friend) \in Req
      BY DEF Request, Req
    <3>2. QED
      BY <1>1, <2>1, <3>1 DEF SendPing, QueuesOK, Waiting
  <2>2. CASE RunTask
    <3>1. PICK due \in BOOLEAN : Commit(do_task(Work, due))
      BY <2>2 DEF RunTask
    <3>2. GoodWork(do_task(Work, due))
      BY <1>1, TasksGood DEF QueuesOK, TableTypes, Waiting
    <3>3. QED
      BY <3>1, <3>2 DEF Commit, GoodWork, Waiting
  <2>3. CASE \E k \in noresponse : Expire(k)
    <3>1. noresponse' \subseteq noresponse /\ requests' = requests
      BY <2>3 DEF Expire
    <3>2. QED
      BY <1>1, <3>1, FewSubset DEF QueuesOK, Waiting
  <2>4. QED
    BY <2>1, <2>2, <2>3
<1>5. link' = link /\ state_' = state_ /\ asked' = asked /\ members' = members /\ session' = session
  BY DEF SendPing, RunTask, Expire, history, server
<1>6. requests' = requests \/ state_ = "ready"
  BY DEF SendPing, RunTask, Expire
<1>7. QueuesOK' /\ Offline'
  BY <1>1, <1>4, <1>5, <1>6 DEF QueuesOK, Offline
<1>8. QED
  BY <1>2, <1>3, <1>4, <1>7, TypesIs, PTL

\* What a click leaves to commit: nothing is sent before the socket is connected.
ByHand(W) ==
    /\ W \in [cookies : SUBSET Cookies, sent : Seq(Req)]
    /\ W.cookies = noresponse
    /\ state_ = "created" => W.sent = requests

LEMMA SentByHand ==
    ASSUME Waiting, requests \in Seq(Req), NEW r \in Req
    PROVE  /\ ByHand(SendByHand(r))
           /\ SendByHand(r).sent = IF state_ = "created" THEN requests ELSE Append(requests, r)
<1>1. Work = [cookies |-> noresponse, sent |-> requests]
  BY DEF Work
<1>2. Append(requests, r) \in Seq(Req)
  OBVIOUS
<1>3. noresponse \in SUBSET Cookies
  BY DEF Waiting, Few
<1>4. SendByHand(r) = [cookies |-> noresponse,
                       sent |-> IF state_ = "created" THEN requests ELSE Append(requests, r)]
  BY <1>1 DEF SendByHand, Send
<1>5. QED
  BY <1>2, <1>3, <1>4 DEF ByHand

\* after a click in the chat dialog.
LEMMA ClickTypes ==
    ASSUME Types, NEW c \in Channels, JoinChannel(c) \/ PartChannel(c)
    PROVE  Types'
<1>1. TableTypes /\ ServerTypes /\ ClientTypes /\ Waiting /\ Offline /\ QueuesOK
  BY TypesIs
<1>2. Click /\ UNCHANGED <<state_, pong_receiving_, session, link, server>>
  BY DEF JoinChannel, PartChannel
<1>3. (state_ = "created" => requests' = requests) => Offline'
  BY <1>1, <1>2 DEF Click, server, Offline
<1>4. ServerTypes' /\ ClientTypes'
  BY <1>1, <1>2, LobbyAssumption DEF Click, server, ServerTypes, ClientTypes
<1>5. CASE JoinChannel(c)
  <2>1. TableTypes'
    BY <1>1, <1>5 DEF JoinChannel, TableTypes, UserTypes
  <2>2. Request("JOIN", c) \in Req /\ Join(c) \in Cookies
    BY DEF Request, Req, Cookies
  <2> DEFINE W == SendByHand(Request("JOIN", c))
  <2>3. ByHand(W)
    BY <1>1, <2>2, SentByHand DEF QueuesOK
  <2>4. Commit(insert_noresponse_msg(W, Join(c)))
    BY <1>5 DEF JoinChannel
  <2> HIDE DEF W
  <2>5. Few(W.cookies)
    BY <1>1, <2>3 DEF Waiting, ByHand
  <2>6. Waiting' /\ requests' = W.sent
    BY <2>2, <2>3, <2>4, <2>5, InsertFew DEF Commit, Waiting, ByHand
  <2>7. QueuesOK' /\ Offline'
    BY <1>1, <1>2, <1>3, <1>4, <2>3, <2>6 DEF QueuesOK, ByHand
  <2>8. QED
    BY <1>4, <2>1, <2>6, <2>7, TypesIs, PTL
<1>6. CASE PartChannel(c)
  <2>1. UserTypes'
    BY <1>1, <1>6, EraseTypes DEF PartChannel, TableTypes
  <2>2. TableTypes'
    BY <1>1, <1>6, <2>1 DEF PartChannel, TableTypes
  <2>3. Request("PART", c) \in Req
    BY DEF Request, Req
  <2> DEFINE W == SendByHand(Request("PART", c))
  <2>4. ByHand(W)
    BY <1>1, <2>3, SentByHand DEF QueuesOK
  <2>5. Commit(W)
    BY <1>6 DEF PartChannel
  <2> HIDE DEF W
  <2>6. Waiting' /\ QueuesOK' /\ Offline'
    BY <1>1, <1>2, <1>3, <1>4, <2>4, <2>5 DEF Commit, QueuesOK, Waiting, ByHand
  <2>7. QED
    BY <1>4, <2>2, <2>6, TypesIs, PTL
<1>7. QED
  BY <1>5, <1>6

\* What mini_read works with: the requests as they are, or after a ping or the tasks.
LEMMA BeforeReadGood ==
    ASSUME TableTypes, Waiting, QueuesOK, NEW W \in BeforeRead
    PROVE  GoodWork(W)
<1>1. CASE W = Send(Work, Request("PING", Friend))
  <2>1. Request("PING", Friend) \in Req /\ Request("PING", Friend) \in Asks
    BY DEF Request, Req, Asks
  <2>2. W = [cookies |-> noresponse, sent |-> Append(requests, Request("PING", Friend))]
    BY <1>1 DEF Send, Work
  <2>3. Extends(Append(requests, Request("PING", Friend)))
    BY <2>1 DEF QueuesOK, Extends
  <2>4. QED
    BY <2>2, <2>3 DEF GoodWork, Waiting, Few, Extends
<1>2. CASE W # Send(Work, Request("PING", Friend))
  <2>1. W = Work \/ \E d \in BOOLEAN : W = do_task(Work, d)
    BY <1>2 DEF BeforeRead
  <2>2. QED
    BY <2>1, TasksGood DEF TableTypes, Waiting, QueuesOK
<1>3. QED
  BY <1>1, <1>2

LEMMA ReadWork ==
    ASSUME Types, mini_read
    PROVE  \E W : GoodWork(W) /\ (Ready(Head(link), W) \/ Consulting(Head(link), W))
<1>1. TableTypes /\ Waiting /\ QueuesOK
  BY TypesIs
<1>2. PICK W \in BeforeRead : Ready(Head(link), W) \/ Consulting(Head(link), W)
  BY DEF mini_read
<1>3. QED
  BY <1>1, <1>2, BeforeReadGood

\* The requests and the cookies that a message leaves.
LEMMA ReadCommits ==
    ASSUME NEW W, GoodWork(W), NEW m \in Messages, Ready(m, W) \/ Consulting(m, W)
    PROVE  Waiting' /\ requests' = W.sent
<1>1. W \in [cookies : SUBSET Cookies, sent : Seq(Req)] /\ Few(W.cookies)
  BY DEF GoodWork
<1>2. CASE Commit(W)
  BY <1>1, <1>2 DEF Commit, Waiting
<1>3. CASE \E k : Commit(erase_noresponse_msg(W, k))
  BY <1>1, <1>3, EraseFew DEF Commit, Waiting
<1>4. CASE m.t = "UJOINED" /\ process_ujoined(m, W)
  <2> DEFINE X == erase_noresponse_msg(W, Join(m.c))
  <2>1. X \in [cookies : SUBSET Cookies, sent : Seq(Req)] /\ Few(X.cookies) /\ X.sent = W.sent
    BY <1>1, EraseFew
  <2>2. m.c \in Channels
    BY <1>4 DEF Messages
  <2>3. Userlist(m.c) \in Cookies
    BY <2>2 DEF Cookies
  <2>4. Commit(insert_noresponse_msg(X, Userlist(m.c)))
    BY <1>4 DEF process_ujoined
  <2> HIDE DEF X
  <2>5. QED
    BY <2>1, <2>3, <2>4, InsertFew DEF Commit, Waiting
<1>5. QED
  BY <1>2, <1>3, <1>4 DEF Ready, Consulting, process_login, process_userlist, process_userlist_end,
     process_join, process_part, process_quit, process_forbid_join, process_online, Ignored

\* The types hold after a message is read, whatever the tasks before it did.
LEMMA ReadTypes ==
    ASSUME Types, mini_read
    PROVE  Types'
<1> DEFINE m == Head(link)
<1>1. TableTypes /\ ServerTypes /\ ClientTypes /\ Waiting /\ Offline /\ QueuesOK
  BY TypesIs
<1>2. PICK W : GoodWork(W) /\ (Ready(m, W) \/ Consulting(m, W))
  BY ReadWork
<1>3. m \in Messages /\ link' = Tail(link) /\ link' \in Seq(Messages) /\ state_ \notin {"none", "created"}
  BY <1>1 DEF mini_read, QueuesOK, Offline
<1>4. pong_receiving_' = FALSE /\ UNCHANGED <<history, server>>
  BY DEF mini_read
<1> HIDE DEF m
<1>5. state_' = state_ \/ state_' = "ready"
  BY <1>2 DEF Ready, Consulting, process_login
<1>6. Waiting' /\ requests' \in Seq(Req)
  BY <1>2, <1>3, ReadCommits DEF GoodWork
<1>7. ServerTypes' /\ ClientTypes' /\ QueuesOK' /\ Offline'
  <2>1. ServerTypes'
    BY <1>1, <1>4 DEF server, ServerTypes
  <2>2. ClientTypes'
    BY <1>1, <1>4, <1>5 DEF history, ClientTypes
  <2>3. QueuesOK' /\ Offline'
    BY <1>3, <1>5, <1>6 DEF QueuesOK, Offline
  <2>4. QED
    BY <2>1, <2>2, <2>3
<1>8. channels' = channels
  BY <1>2 DEF Ready, Consulting, process_login, process_ujoined, process_userlist, process_userlist_end,
     process_join, process_part, process_quit, process_forbid_join, process_online, Ignored, tables
<1>9. UserTypes'
  <2>1. m.n \subseteq Nicks \union {Me} /\ channels \subseteq Channels /\ UserTypes
    BY <1>1, <1>3 DEF Messages, TableTypes
  <2>2. CASE UNCHANGED <<users, cids>>
    BY <2>1, <2>2 DEF UserTypes
  <2>3. CASE process_login(W)
    BY <2>1, <2>3, InsertTypes DEF process_login
  <2>4. CASE process_userlist(m, W)
    <3>1. m.c \in Channels /\ (insert_users(m.c, m.n) \/ replace_users(m.c, m.n))
      BY <2>1, <2>4 DEF process_userlist
    <3>2. QED
      BY <2>1, <3>1, InsertTypes, ReplaceTypes
  <2>5. CASE process_join(m, W)
    <3>1. m.c \in Channels /\ insert_users(m.c, m.n)
      BY <2>1, <2>5 DEF process_join
    <3>2. QED
      BY <2>1, <3>1, InsertTypes
  <2>6. CASE process_part(m, W) \/ process_quit(m, W)
    <3>1. \E C : \E u \in Nicks \union {Me} : erase_user(u, C)
      BY <2>1, <2>6 DEF process_part, process_quit
    <3>2. QED
      BY <2>1, <3>1, EraseTypes
  <2>7. QED
    BY <1>2, <2>2, <2>3, <2>4, <2>5, <2>6 DEF Ready, Consulting, process_ujoined, process_userlist_end,
     process_forbid_join, process_online, Ignored, tables
<1>10. users_receiving' \in [Channels -> BOOLEAN] /\ err' \in [Channels -> BOOLEAN]
  BY <1>1, <1>2 DEF TableTypes, Ready, Consulting, process_login, process_ujoined, process_userlist, process_userlist_end,
     process_join, process_part, process_quit, process_forbid_join, process_online, Ignored, tables
<1>11. TableTypes'
  BY <1>1, <1>4, <1>8, <1>9, <1>10 DEF TableTypes, history
<1>12. QED
  BY <1>6, <1>7, <1>11, TypesIs, PTL

\* What the server adds to the link is messages.
LEMMA AnswerTypes ==
    ASSUME Types, NEW ms \in Seq(Messages), Answer(ms), ServerTypes'
    PROVE  Types'
<1>1. TableTypes /\ ServerTypes /\ ClientTypes /\ Waiting /\ Offline /\ QueuesOK
  BY TypesIs
<1>2. UNCHANGED <<state_, tables, noresponse, pong_receiving_, history>> /\ requests # <<>>
      /\ link' = link \o ms /\ requests' = Tail(requests)
  BY DEF Answer
<1>3. TableTypes' /\ Waiting'
  BY <1>1, <1>2 DEF tables, history, TableTypes, UserTypes, Waiting
<1>4. ClientTypes'
  BY <1>1, <1>2 DEF history, ClientTypes
<1>5. QueuesOK'
  BY <1>1, <1>2 DEF QueuesOK
<1>6. Offline'
  BY <1>1, <1>2 DEF history, Offline
<1>7. QED
  BY <1>3, <1>4, <1>5, <1>6, TypesIs, PTL

\* The answers of the server, ...
LEMMA ServeTypes ==
    ASSUME Types, Serve
    PROVE  Types'
<1>1. ServerTypes /\ QueuesOK
  BY TypesIs
<1>2. ASSUME NEW c \in Channels, serve_join(c) PROVE Types'
  <2>1. CASE \E S \in SUBSET Nicks :
            /\ Answer(<<About("UJOINED", c), Names(c, {Me}), Names(c, S), About("ENDOFNAMES", c)>>)
            /\ members' = [members EXCEPT ![c] = S \union {Me}]
    <3>1. PICK S \in SUBSET Nicks :
            /\ Answer(<<About("UJOINED", c), Names(c, {Me}), Names(c, S), About("ENDOFNAMES", c)>>)
            /\ members' = [members EXCEPT ![c] = S \union {Me}]
      BY <2>1
    <3>2. About("UJOINED", c) \in Messages /\ About("ENDOFNAMES", c) \in Messages
          /\ Names(c, {Me}) \in Messages /\ Names(c, S) \in Messages
      BY DEF About, Names, Messages
    <3>3. ServerTypes'
      BY <1>1, <1>2, <3>1 DEF serve_join, ServerTypes
    <3>4. <<About("UJOINED", c), Names(c, {Me}), Names(c, S), About("ENDOFNAMES", c)>> \in Seq(Messages)
      BY <3>2
    <3>5. QED
      BY <3>1, <3>3, <3>4, AnswerTypes
  <2>2. CASE Answer(<<About("FORBIDJOIN", c)>>) /\ UNCHANGED members
    <3>1. About("FORBIDJOIN", c) \in Messages
      BY DEF About, Messages
    <3>2. ServerTypes'
      BY <1>1, <1>2, <2>2 DEF serve_join, ServerTypes
    <3>3. <<About("FORBIDJOIN", c)>> \in Seq(Messages)
      BY <3>1
    <3>4. QED
      BY <2>2, <3>2, <3>3, AnswerTypes
  <2>3. QED
    BY <1>2, <2>1, <2>2 DEF serve_join
<1>3. ASSUME NEW c \in Channels, serve_part(c) PROVE Types'
  <2>1. ServerTypes' /\ Answer(<<>>)
    BY <1>1, <1>3 DEF serve_part, ServerTypes
  <2>2. <<>> \in Seq(Messages)
    OBVIOUS
  <2>3. QED
    BY <2>1, <2>2, AnswerTypes
<1>4. CASE serve_login
  <2>1. ServerTypes' /\ Answer(<<>>)
    BY <1>1, <1>4 DEF serve_login, ServerTypes
  <2>2. <<>> \in Seq(Messages)
    OBVIOUS
  <2>3. QED
    BY <2>1, <2>2, AnswerTypes
<1>5. CASE serve_nothing \/ serve_other
  <2>1. About("ONLINE", Friend) \in Messages /\ About("PONG", Friend) \in Messages
    BY DEF About, Messages
  <2>2. ServerTypes'
    BY <1>1, <1>5 DEF serve_nothing, serve_other, server, ServerTypes
  <2>3. <<>> \in Seq(Messages) /\ <<About("ONLINE", Friend)>> \in Seq(Messages)
        /\ <<About("PONG", Friend)>> \in Seq(Messages)
    BY <2>1
  <2>4. \/ Answer(<<>>) \/ Answer(<<About("ONLINE", Friend)>>)
        \/ Answer(<<About("PONG", Friend)>>)
    BY <1>5 DEF serve_nothing, serve_other
  <2>5. QED
    BY <2>2, <2>3, <2>4, AnswerTypes
<1>6. QED
  BY <1>2, <1>3, <1>4, <1>5 DEF Serve

\* ... its acceptance of the login, ...
LEMMA WelcomeTypes ==
    ASSUME Types, Welcome
    PROVE  Types'
<1>1. TableTypes /\ ServerTypes /\ ClientTypes /\ Waiting /\ Offline /\ QueuesOK
  BY TypesIs
<1>2. UNCHANGED <<state_, tables, noresponse, pong_receiving_, history, requests, asked, members>>
      /\ registered' = TRUE /\ link' = Append(link, About("LOGIN", Friend)) /\ asked
  BY DEF Welcome, Tell
<1>3. TableTypes' /\ Waiting'
  BY <1>1, <1>2 DEF tables, history, TableTypes, UserTypes, Waiting
<1>4. ClientTypes' /\ ServerTypes'
  BY <1>1, <1>2 DEF history, ClientTypes, ServerTypes
<1>5. About("LOGIN", Friend) \in Messages
  BY DEF About, Messages
<1>6. QueuesOK'
  BY <1>1, <1>2, <1>5 DEF QueuesOK
<1>7. Offline'
  BY <1>1, <1>2 DEF Offline, history
<1>8. QED
  BY <1>3, <1>4, <1>6, <1>7, TypesIs, PTL

\* ... what it tells of the others, ...
LEMMA OthersTypes ==
    ASSUME Types, Others
    PROVE  Types'
<1>1. TableTypes /\ ServerTypes /\ ClientTypes /\ Waiting /\ Offline /\ QueuesOK
  BY TypesIs
<1>2. UNCHANGED <<state_, tables, noresponse, pong_receiving_, history, requests, asked, registered>>
  BY DEF Others
<1>3. TableTypes' /\ Waiting'
  BY <1>1, <1>2 DEF tables, history, TableTypes, UserTypes, Waiting
<1>4. ClientTypes'
  BY <1>1, <1>2 DEF history, ClientTypes
<1>5. ServerTypes'
  BY <1>1, <1>2 DEF Others, OtherJoins, OtherParts, OtherQuits, ServerTypes
<1>6. \E m \in Messages : link' = Append(link, m)
  <2>1. ASSUME NEW u \in Nicks, NEW c \in Channels
        PROVE  /\ Event("JOIN", c, u) \in Messages /\ Event("PART", c, u) \in Messages
               /\ Event("QUIT", Friend, u) \in Messages
    BY DEF Event, Messages
  <2>2. \E u \in Nicks : \/ link' = Append(link, Event("QUIT", Friend, u))
                         \/ \E c \in Channels : \/ link' = Append(link, Event("JOIN", c, u))
                                                \/ link' = Append(link, Event("PART", c, u))
    BY DEF Others, OtherJoins, OtherParts, OtherQuits, Tell
  <2>3. QED
    BY <2>1, <2>2, LobbyAssumption
<1>7. QueuesOK'
  BY <1>1, <1>2, <1>6 DEF QueuesOK
<1>8. \E c \in Channels : members[c] # {}
  BY <1>1 DEF Others, OtherJoins, OtherParts, OtherQuits, ServerTypes
<1>9. Offline'
  BY <1>1, <1>2, <1>8 DEF Offline, history
<1>10. QED
  BY <1>3, <1>4, <1>5, <1>7, <1>9, TypesIs, PTL

\* ... and a step of nobody keep the types.
LEMMA StutterTypes ==
    ASSUME Types, UNCHANGED vars
    PROVE  Types'
BY DEF Types, TypeOK, QueuesOK, Offline, vars, tables, history, server

\* Types is an invariant.
THEOREM TypesInvariant == Spec => []Types
<1>1. Init => Types
  BY InitTypes
<1>2. Types /\ [Next]_vars => Types'
  BY ConnectTypes, OnConnectTypes, DisconnectedTypes, TaskTypes, ClickTypes, ReadTypes, ServeTypes,
     WelcomeTypes, OthersTypes, StutterTypes DEF Next
<1>3. QED
  BY <1>1, <1>2, PTL DEF Spec

\* TypeOK, for any number of channels, users and connections; with it, that no
\* more than max_noresponse_msgs_ cookies wait at a time, although a join by hand
\* and the response to a join insert theirs without asking for room.
THEOREM TypesLobby == Spec => []TypeOK
<1>1. Types => TypeOK
  BY DEF Types
<1>2. QED
  BY <1>1, TypesInvariant, PTL
=============================================================================
