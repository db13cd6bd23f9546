-------------------------- MODULE LobbyListProofs --------------------------
(***************************************************************************)
(* The list of a channel against what the server knows: a list of names    *)
(* never names a user twice, and when nothing is under way the dialog shows*)
(* who is in the channel.  The invariant follows the messages and requests *)
(* that are on their way.                                                  *)
(***************************************************************************)
EXTENDS LobbyProofs

\* The messages of a list: we are a member,
First(m, c) == m.t = "NAMREPLAY" /\ m.c = c /\ m.n = {Me}
\* ... these of the others are,
Second(m, c) == m.t = "NAMREPLAY" /\ m.c = c /\ m.n \subseteq Nicks
\* ... and that is all.
EndOf(m, c) == m.t = "ENDOFNAMES" /\ m.c = c

\* The two messages of a list and its end come together; of a list that is read
\* the rest is at the head of the link.
Whole ==
    \A c \in Channels, i \in 1..Len(link) :
        /\ First(link[i], c) => i + 1 \in 1..Len(link) /\ Second(link[i+1], c)
        /\ Second(link[i], c) => i + 1 \in 1..Len(link) /\ EndOf(link[i+1], c)
        /\ Second(link[i], c) /\ i > 1 => First(link[i-1], c)

\* The request is on its way.
Requested(t, c) == \E i \in 1..Len(requests) : requests[i] = Request(t, c)

\* No list of the channel will come before it is joined again.
Stuck(c) ==
    /\ ~Requested("JOIN", c)
    /\ \A i \in 1..Len(link) : link[i].c = c => link[i].t \notin {"NAMREPLAY", "ENDOFNAMES", "UJOINED"}

\* A list of which something was read: the rest is at the head of the link, or it
\* was cut off by the end of a connection and no other can come.
Receiving ==
    \A c \in channels : users_receiving[c] =>
        \/ Stuck(c)
        \/ link # <<>> /\ Second(link[1], c) /\ users[c] = {Me}
        \/ link # <<>> /\ EndOf(link[1], c)

\* The server has members only in channels that we are in.
Membership == \A c \in Channels : members[c] # {} => Me \in members[c]

\* Every request of kind t about the channel is followed by one of kind s.
Followed(t, s, c) ==
    \A j \in 1..Len(requests) : requests[j] = Request(t, c) =>
        \E i \in (j+1)..Len(requests) : requests[i] = Request(s, c)

\* We are going to leave every channel that is not in the map.
Parted ==
    \A c \in Channels \ channels :
        Followed("JOIN", "PART", c) /\ (members[c] # {} => Requested("PART", c))

\* The message says whether the user is in the channel, ...
Concerns(m, c, u) ==
    \/ m.t = "NAMREPLAY" /\ m.c = c /\ (u # Me \/ Me \in m.n)
    \/ m.t \in {"JOIN", "PART"} /\ m.c = c /\ u \in m.n
    \/ m.t = "QUIT" /\ u \in m.n

\* ... and that it is.
Puts(m, u) == m.t \in {"NAMREPLAY", "JOIN"} /\ u \in m.n

\* The last message about a user in a channel tells what the server knows; when
\* there is none, so does the list of the channel.
LastWord(c, u) ==
    /\ (\A i \in 1..Len(link) : ~Concerns(link[i], c, u)) => (u \in users[c] <=> u \in members[c])
    /\ \A i \in 1..Len(link) :
          Concerns(link[i], c, u) /\ (\A j \in (i+1)..Len(link) : ~Concerns(link[j], c, u))
              => (Puts(link[i], u) <=> u \in members[c])

\* A channel whose list is to be right.
Live(c) == c \in channels \ carried /\ members[c] # {} /\ ~Requested("PART", c)

\* Half a list may be left at the head when the channel is joined anew; a whole
\* one follows.
Started(c) ==
    link # <<>> /\ Second(link[1], c)
        => users_receiving[c] \/ \E i \in 2..Len(link) : First(link[i], c)

\* The list of a live channel follows the server through what is on its way.
Follows == \A c \in Channels : Live(c) => Started(c) /\ \A u \in Everybody : LastWord(c, u)

\* The inductive invariant, above the types and the two views.
ListInv == Whole /\ Receiving /\ Membership /\ Parted /\ Follows

----------------------------------------------------------------------------
(* Requests that come and go.                                              *)

\* What the requests that the client adds of itself do not change.
Harmless ==
    \A c \in Channels :
        /\ Requested("PART", c)' <=> Requested("PART", c)
        /\ Requested("JOIN", c) => Requested("JOIN", c)'
        /\ Requested("JOIN", c)' => Requested("JOIN", c) \/ (c \in channels /\ ~users_receiving[c])
        /\ c \notin channels /\ Followed("JOIN", "PART", c) => Followed("JOIN", "PART", c)'
        /\ Followed("PART", "JOIN", c) => Followed("PART", "JOIN", c)'

\* Other requests behind them change nothing.
LEMMA FollowedGrows ==
    ASSUME requests \in Seq(Req), requests' \in Seq(Req), Len(requests) <= Len(requests'),
           \A i \in 1..Len(requests) : requests'[i] = requests[i],
           NEW t, NEW s, NEW c, Followed(t, s, c),
           \A i \in 1..Len(requests') : i \notin 1..Len(requests) => requests'[i] # Request(t, c)
    PROVE  Followed(t, s, c)'
<1> SUFFICES ASSUME NEW j \in 1..Len(requests'), requests'[j] = Request(t, c)
             PROVE  \E i \in (j+1)..Len(requests') : requests'[i] = Request(s, c)
  BY DEF Followed
<1>1. j \in 1..Len(requests) /\ requests[j] = Request(t, c)
  OBVIOUS
<1>2. PICK i \in (j+1)..Len(requests) : requests[i] = Request(s, c)
  BY <1>1 DEF Followed
<1>3. i \in 1..Len(requests) /\ i \in (j+1)..Len(requests')
  BY <1>1, <1>2
<1>4. QED
  BY <1>2, <1>3

\* do_task asks to join only what is in the map and has no list begun.
LEMMA ExtendsHarmless ==
    ASSUME Types, Extends(requests')
    PROVE  Harmless
<1> DEFINE n == Len(requests)
<1>0. requests \in Seq(Req) /\ requests' \in Seq(Req) /\ n \in Nat /\ Len(requests') \in Nat /\ n <= Len(requests')
  BY DEF Types, QueuesOK, Extends
<1>1. \A i \in 1..n : i \in 1..Len(requests') /\ requests'[i] = requests[i]
  BY <1>0 DEF Extends
<1>2. \A i \in 1..Len(requests') : i \notin 1..n => requests'[i] \in Asks
  BY <1>0 DEF Extends
<1> HIDE DEF n
<1> SUFFICES ASSUME NEW c \in Channels
             PROVE  /\ Requested("PART", c)' <=> Requested("PART", c)
                    /\ Requested("JOIN", c) => Requested("JOIN", c)'
                    /\ Requested("JOIN", c)' => Requested("JOIN", c) \/ (c \in channels /\ ~users_receiving[c])
                    /\ c \notin channels /\ Followed("JOIN", "PART", c) => Followed("JOIN", "PART", c)'
                    /\ Followed("PART", "JOIN", c) => Followed("PART", "JOIN", c)'
  BY DEF Harmless
<1>3. Request("PART", c) \notin Asks
  BY DEF Asks, Request
<1>4. Request("JOIN", c) \in Asks => c \in channels /\ ~users_receiving[c]
  BY DEF Asks, Request, WantsJoin
<1>5. Requested("PART", c)' <=> Requested("PART", c)
  BY <1>1, <1>2, <1>3 DEF Requested, n
<1>6. /\ Requested("JOIN", c) => Requested("JOIN", c)'
      /\ Requested("JOIN", c)' => Requested("JOIN", c) \/ (c \in channels /\ ~users_receiving[c])
  BY <1>1, <1>2, <1>4 DEF Requested, n
<1>7. ASSUME c \notin channels, Followed("JOIN", "PART", c) PROVE Followed("JOIN", "PART", c)'
  BY <1>0, <1>1, <1>2, <1>4, <1>7, FollowedGrows DEF n
<1>8. ASSUME Followed("PART", "JOIN", c) PROVE Followed("PART", "JOIN", c)'
  BY <1>0, <1>1, <1>2, <1>3, <1>8, FollowedGrows DEF n
<1>9. QED
  BY <1>5, <1>6, <1>7, <1>8

\* A request at the end.
LEMMA AppendRequest ==
    ASSUME requests \in Seq(Req), NEW r \in Req, requests' = Append(requests, r), NEW t, NEW s, NEW c
    PROVE  /\ Requested(t, c) => Requested(t, c)'
           /\ r # Request(t, c) => (Requested(t, c)' <=> Requested(t, c))
           /\ r # Request(t, c) /\ Followed(t, s, c) => Followed(t, s, c)'
           /\ r = Request(s, c) => Requested(s, c)'
           /\ r = Request(s, c) /\ t # s => Followed(t, s, c)'
<1> DEFINE n == Len(requests)
<1>1. n \in Nat /\ Len(requests') = n + 1 /\ requests'[n + 1] = r /\ requests' \in Seq(Req)
  OBVIOUS
<1>2. \A i \in 1..n : requests'[i] = requests[i] /\ i \in 1..Len(requests')
  BY <1>1
<1>3. \A i \in 1..Len(requests') : i \in 1..n \/ i = n + 1
  BY <1>1
<1>4. n + 1 \in 1..Len(requests') /\ n <= Len(requests')
  BY <1>1
<1>5. /\ Requested(t, c) => Requested(t, c)'
      /\ r # Request(t, c) => (Requested(t, c)' <=> Requested(t, c))
      /\ r = Request(s, c) => Requested(s, c)'
  BY <1>1, <1>2, <1>3, <1>4 DEF Requested
<1> HIDE DEF n
<1>6. ASSUME r # Request(t, c), Followed(t, s, c) PROVE Followed(t, s, c)'
  BY <1>1, <1>2, <1>3, <1>4, <1>6, FollowedGrows DEF n
<1>7. ASSUME r = Request(s, c), t # s PROVE Followed(t, s, c)'
  <2> SUFFICES ASSUME NEW j \in 1..Len(requests'), requests'[j] = Request(t, c)
               PROVE  \E i \in (j+1)..Len(requests') : requests'[i] = Request(s, c)
    BY DEF Followed
  <2>1. Request(s, c) # Request(t, c)
    BY <1>7 DEF Request
  <2>2. j \in 1..n
    BY <1>1, <1>3, <1>7, <2>1
  <2>3. n + 1 \in (j+1)..Len(requests')
    BY <1>1, <2>2
  <2>4. QED
    BY <1>1, <1>7, <2>3
<1>8. QED
  BY <1>5, <1>6, <1>7

\* The server takes the first request.
LEMMA TailRequest ==
    ASSUME requests \in Seq(Req), requests # <<>>, requests' = Tail(requests), NEW t, NEW s, NEW c
    PROVE  /\ Requested(t, c)' => Requested(t, c)
           /\ Head(requests) # Request(t, c) => (Requested(t, c)' <=> Requested(t, c))
           /\ Followed(t, s, c) => Followed(t, s, c)'
           /\ Followed(t, s, c) /\ Head(requests) = Request(t, c) => Requested(s, c)'
<1> DEFINE n == Len(requests)
<1>1. n \in Nat \ {0} /\ Len(requests') = n - 1 /\ Head(requests) = requests[1]
  OBVIOUS
<1>2. \A i \in 1..Len(requests') : requests'[i] = requests[i + 1] /\ i + 1 \in 1..n
  BY <1>1
<1>3. \A i \in 1..n : i = 1 \/ (i - 1 \in 1..Len(requests') /\ requests'[i - 1] = requests[i])
  <2> TAKE i \in 1..n
  <2>1. i = 1 \/ i - 1 \in 1..Len(requests')
    BY <1>1
  <2>2. i - 1 \in 1..Len(requests') => requests'[i - 1] = requests[i]
    BY <1>2
  <2>3. QED
    BY <2>1, <2>2
<1>4. Requested(t, c)' => Requested(t, c)
  BY <1>2 DEF Requested
<1>5. Head(requests) # Request(t, c) => (Requested(t, c)' <=> Requested(t, c))
  BY <1>1, <1>2, <1>3 DEF Requested
<1> HIDE DEF n
<1>6. ASSUME Followed(t, s, c) PROVE Followed(t, s, c)'
  <2> SUFFICES ASSUME NEW j \in 1..Len(requests'), requests'[j] = Request(t, c)
               PROVE  \E i \in (j+1)..Len(requests') : requests'[i] = Request(s, c)
    BY DEF Followed
  <2>1. j + 1 \in 1..n /\ requests[j + 1] = Request(t, c)
    BY <1>2
  <2>2. PICK i \in (j+2)..n : requests[i] = Request(s, c)
    BY <1>1, <1>6, <2>1 DEF Followed, n
  <2>3. i \in 1..n /\ i # 1 /\ i - 1 \in (j+1)..Len(requests')
    BY <1>1, <2>1, <2>2
  <2>4. QED
    BY <1>3, <2>2, <2>3
<1>7. ASSUME Followed(t, s, c), Head(requests) = Request(t, c) PROVE Requested(s, c)'
  <2>1. PICK i \in 2..n : requests[i] = Request(s, c)
    BY <1>1, <1>7 DEF Followed, n
  <2>2. i \in 1..n /\ i # 1
    BY <1>1, <2>1
  <2>3. QED
    BY <1>3, <2>1, <2>2 DEF Requested
<1>8. QED
  BY <1>4, <1>5, <1>6, <1>7

----------------------------------------------------------------------------
(* The client.                                                             *)

\* What the client does on its own.
LEMMA OwnKeeps ==
    ASSUME ListInv, Types, Harmless, UNCHANGED <<channels, carried, users, users_receiving, link, members>>
    PROVE  ListInv'
<1>1. channels \subseteq Channels
  BY TypesIs DEF TableTypes
<1>2. Whole' /\ Membership'
  BY DEF ListInv, Whole, Membership
<1>3. Receiving'
  BY <1>1 DEF ListInv, Receiving, Stuck, Harmless
<1>4. Parted'
  BY DEF ListInv, Parted, Harmless
<1>5. Follows'
  BY DEF ListInv, Follows, Live, Started, LastWord, Harmless
<1>6. QED
  BY <1>2, <1>3, <1>4, <1>5 DEF ListInv

\* No connection, or one that is made.
LEMMA AwayKeeps ==
    ASSUME Types', link' = <<>> \/ link' = <<About("NOTICE", Friend)>>,
           requests' = <<>> \/ requests' = <<Request("LOGIN", Friend)>>,
           members' = [c \in Channels |-> {}]
    PROVE  ListInv'
<1>1. channels' \subseteq Channels
  BY DEF Types, TypeOK
<1>2. \A i \in 1..Len(link') : link'[i].t = "NOTICE"
  BY DEF About
<1>3. \A i \in 1..Len(requests') : requests'[i].t = "LOGIN"
  BY DEF Request
<1>4. Whole' /\ Membership'
  BY <1>2 DEF Whole, Membership, First, Second
<1>5. ASSUME NEW c \in Channels PROVE Stuck(c)' /\ ~Requested("PART", c)' /\ Followed("JOIN", "PART", c)'
  BY <1>2, <1>3 DEF Stuck, Requested, Followed, Request
<1>6. Receiving' /\ Parted' /\ Follows'
  BY <1>1, <1>5 DEF Receiving, Parted, Follows, Live
<1>7. QED
  BY <1>4, <1>6 DEF ListInv

\* The invariant at the start, ...
LEMMA InitLists == Init => ListInv
<1> SUFFICES ASSUME Init PROVE ListInv
  OBVIOUS
<1>1. link = <<>> /\ requests = <<>> /\ members = [c \in Channels |-> {}] /\ channels = {}
  BY DEF Init
<1>2. QED
  BY <1>1 DEF ListInv, Whole, Receiving, Membership, Parted, Followed, Follows, Live

\* ... after a step of the connection,
LEMMA ConnectionLists ==
    ASSUME Types, Types', Connect \/ OnConnect \/ TimeOut \/ OnClose
    PROVE  ListInv'
<1>1. Offline
  BY DEF Types
<1>2. CASE Connect
  BY <1>1, <1>2, AwayKeeps DEF Connect, Offline, server
<1>3. CASE OnConnect
  BY <1>1, <1>3, AwayKeeps DEF OnConnect, Offline, server
<1>4. CASE TimeOut \/ OnClose
  BY <1>4, AwayKeeps DEF TimeOut, OnClose, reset_connect, Disconnected
<1>5. QED
  BY <1>2, <1>3, <1>4

\* A ping, the tasks, the end of a wait or nothing only add requests.
LEMMA OwnExtends ==
    ASSUME Types, SendPing \/ RunTask \/ (\E k \in noresponse : Expire(k)) \/ UNCHANGED vars
    PROVE  Extends(requests')
<1>1. requests \in Seq(Req) /\ Waiting /\ channels \subseteq Channels
  BY TypesIs DEF QueuesOK, TableTypes
<1>2. CASE SendPing
  <2>1. Request("PING", Friend) \in Req /\ Request("PING", Friend) \in Asks
    BY DEF Request, Req, Asks
  <2>2. requests' = Append(requests, Request("PING", Friend))
    BY <1>2 DEF SendPing
  <2>3. QED
    BY <1>1, <2>1, <2>2 DEF Extends
<1>3. CASE RunTask
  <2>1. PICK due \in BOOLEAN : Commit(do_task(Work, due))
    BY <1>3 DEF RunTask
  <2>2. GoodWork(do_task(Work, due))
    BY <1>1, TasksGood DEF Waiting
  <2>3. QED
    BY <2>1, <2>2 DEF Commit, GoodWork
<1>4. CASE requests' = requests
  BY <1>1, <1>4 DEF Extends
<1>5. QED
  BY <1>2, <1>3, <1>4 DEF Expire, vars

\* ... and after these.
LEMMA OwnLists ==
    ASSUME ListInv, Types, SendPing \/ RunTask \/ (\E k \in noresponse : Expire(k)) \/ UNCHANGED vars
    PROVE  ListInv'
<1>1. UNCHANGED <<channels, carried, users, users_receiving, link, members>>
  BY DEF SendPing, RunTask, Expire, tables, history, server, vars
<1>2. QED
  BY <1>1, OwnExtends, ExtendsHarmless, OwnKeeps

\* What a click sends, before and after the socket is connected.
LEMMA ClickSends ==
    ASSUME Types, NEW c \in Channels, JoinChannel(c) \/ PartChannel(c)
    PROVE  /\ JoinChannel(c) => requests' = IF state_ = "created" THEN requests ELSE Append(requests, Request("JOIN", c))
           /\ PartChannel(c) => requests' = IF state_ = "created" THEN requests ELSE Append(requests, Request("PART", c))
           /\ UNCHANGED <<state_, link, server>>
           /\ state_ = "created" => link = <<>> /\ requests = <<>> /\ members = [d \in Channels |-> {}]
<1>1. Waiting /\ requests \in Seq(Req) /\ Offline
  BY TypesIs DEF QueuesOK
<1>2. JoinChannel(c) => requests' = SendByHand(Request("JOIN", c)).sent
  BY <1>1, SentByHand DEF JoinChannel, Commit, insert_noresponse_msg, SendByHand, Send, Work
<1>3. PartChannel(c) => requests' = SendByHand(Request("PART", c)).sent
  BY DEF PartChannel, Commit
<1>4. Request("JOIN", c) \in Req /\ Request("PART", c) \in Req
  BY DEF Request, Req
<1>5. UNCHANGED <<state_, link, server>>
  BY DEF JoinChannel, PartChannel
<1>6. QED
  BY <1>1, <1>2, <1>3, <1>4, <1>5, SentByHand DEF Offline

\* A channel joined by hand: when we are still a member, the part of an earlier
\* click is on its way, and nothing is claimed of its list.
LEMMA JoinLists ==
    ASSUME ListInv, Types, Types', NEW c \in Channels, JoinChannel(c)
    PROVE  ListInv'
<1>1. CASE state_ = "created"
  BY <1>1, ClickSends, AwayKeeps DEF server
<1>2. CASE state_ # "created"
  <2>1. requests \in Seq(Req) /\ channels \subseteq Channels /\ users_receiving \in [Channels -> BOOLEAN]
    BY TypesIs DEF QueuesOK, TableTypes
  <2>2. requests' = Append(requests, Request("JOIN", c))
    BY <1>2, ClickSends
  <2>3. /\ c \notin channels /\ channels' = channels \union {c}
        /\ users_receiving' = [users_receiving EXCEPT ![c] = FALSE]
        /\ UNCHANGED <<users, carried, link, members>>
    BY DEF JoinChannel, server
  <2>4. \A d \in Channels :
            /\ Requested("PART", d)' <=> Requested("PART", d)
            /\ d # c => /\ Requested("JOIN", d)' <=> Requested("JOIN", d)
                        /\ Followed("JOIN", "PART", d) => Followed("JOIN", "PART", d)'
    <3> TAKE d \in Channels
    <3>1. Request("JOIN", c) \in Req /\ Request("JOIN", c) # Request("PART", d) /\ (d # c => Request("JOIN", c) # Request("JOIN", d))
      BY DEF Request, Req
    <3>2. QED
      BY <2>1, <2>2, <3>1, AppendRequest
  <2>5. Whole' /\ Membership'
    BY <2>3 DEF ListInv, Whole, Membership
  <2>6. Receiving'
    BY <2>1, <2>3, <2>4 DEF ListInv, Receiving, Stuck
  <2>7. Parted'
    BY <2>3, <2>4 DEF ListInv, Parted
  <2>8. Follows'
    <3> SUFFICES ASSUME NEW d \in Channels, Live(d)'
                 PROVE  Started(d)' /\ \A u \in Everybody : LastWord(d, u)'
      BY DEF Follows
    <3>1. d # c
      BY <2>3, <2>4 DEF Live, ListInv, Parted
    <3>2. Live(d)
      BY <2>3, <2>4, <3>1 DEF Live
    <3>3. Started(d) /\ \A u \in Everybody : LastWord(d, u)
      BY <3>2 DEF ListInv, Follows
    <3>4. Started(d)'
      BY <2>1, <2>3, <3>1, <3>3 DEF Started
    <3>5. QED
      BY <2>3, <3>3, <3>4 DEF LastWord
  <2>9. QED
    BY <2>5, <2>6, <2>7, <2>8 DEF ListInv
<1>3. QED
  BY <1>1, <1>2

\* A channel parted by hand.
LEMMA PartLists ==
    ASSUME ListInv, Types, Types', NEW c \in Channels, PartChannel(c)
    PROVE  ListInv'
<1>1. CASE state_ = "created"
  BY <1>1, ClickSends, AwayKeeps DEF server
<1>2. CASE state_ # "created"
  <2>1. requests \in Seq(Req) /\ channels \subseteq Channels /\ UserTypes
    BY TypesIs DEF QueuesOK, TableTypes
  <2>2. /\ requests' = Append(requests, Request("PART", c))
        /\ channels' = channels \ {c} /\ carried' = carried \ {c}
        /\ UNCHANGED <<users_receiving, link, members>>
    BY <1>2, ClickSends DEF PartChannel, server
  <2>3. \A d \in Channels : d # c => users'[d] = users[d]
    BY <2>1 DEF PartChannel, erase_all_users, UserTypes
  <2>4. \A d \in Channels :
            /\ d # c => (Requested("PART", d)' <=> Requested("PART", d))
            /\ Requested("JOIN", d)' <=> Requested("JOIN", d)
            /\ Followed("JOIN", "PART", d) => Followed("JOIN", "PART", d)'
    <3> TAKE d \in Channels
    <3>1. Request("PART", c) \in Req /\ Request("PART", c) # Request("JOIN", d) /\ (d # c => Request("PART", c) # Request("PART", d))
      BY DEF Request, Req
    <3>2. QED
      BY <2>1, <2>2, <3>1, AppendRequest
  <2>5. Requested("PART", c)' /\ Followed("JOIN", "PART", c)'
    <3>1. Request("PART", c) \in Req /\ "JOIN" # "PART"
      BY DEF Request, Req
    <3>2. QED
      BY <2>1, <2>2, <3>1, AppendRequest
  <2>6. Whole' /\ Membership'
    BY <2>2 DEF ListInv, Whole, Membership
  <2>7. Receiving'
    BY <2>1, <2>2, <2>3, <2>4 DEF ListInv, Receiving, Stuck
  <2>8. Parted'
    BY <2>2, <2>4, <2>5 DEF ListInv, Parted
  <2>9. Follows'
    <3> SUFFICES ASSUME NEW d \in Channels, Live(d)'
                 PROVE  Started(d)' /\ \A u \in Everybody : LastWord(d, u)'
      BY DEF Follows
    <3>1. d # c /\ Live(d)
      BY <2>2, <2>4 DEF Live
    <3>2. Started(d) /\ \A u \in Everybody : LastWord(d, u)
      BY <3>1 DEF ListInv, Follows
    <3>3. Started(d)'
      BY <2>2, <3>2 DEF Started
    <3>4. QED
      BY <2>2, <2>3, <3>1, <3>2, <3>3 DEF LastWord
  <2>10. QED
    BY <2>6, <2>7, <2>8, <2>9 DEF ListInv
<1>3. QED
  BY <1>1, <1>2

----------------------------------------------------------------------------
(* The server.                                                             *)

\* Messages at the end of the link that do not concern the user.
LEMMA AppendQuiet ==
    ASSUME link \in Seq(Messages), NEW ms \in Seq(Messages), link' = link \o ms,
           NEW c \in Channels, NEW u \in Everybody, LastWord(c, u),
           \A i \in 1..Len(ms) : ~Concerns(ms[i], c, u),
           users' = users, u \in members'[c] <=> u \in members[c]
    PROVE  LastWord(c, u)'
<1> DEFINE n == Len(link)
<1>1. n \in Nat /\ Len(ms) \in Nat /\ Len(link') = n + Len(ms)
  OBVIOUS
<1>2. \A i \in 1..n : i \in 1..Len(link') /\ link'[i] = link[i]
  BY <1>1
<1>3. \A i \in 1..Len(link') : i \notin 1..n => ~Concerns(link'[i], c, u)
  <2> TAKE i \in 1..Len(link')
  <2> HAVE i \notin 1..n
  <2>1. i - n \in 1..Len(ms) /\ link'[i] = ms[i - n]
    BY <1>1
  <2>2. QED
    BY <2>1
<1> HIDE DEF n
<1>4. (\A i \in 1..Len(link') : ~Concerns(link'[i], c, u)) => (u \in users'[c] <=> u \in members'[c])
  BY <1>2 DEF LastWord, n
<1>5. ASSUME NEW i \in 1..Len(link'), Concerns(link'[i], c, u),
             \A j \in (i+1)..Len(link') : ~Concerns(link'[j], c, u)
      PROVE  Puts(link'[i], u) <=> u \in members'[c]
  <2>1. i \in 1..n /\ link'[i] = link[i]
    BY <1>2, <1>3, <1>5
  <2>2. \A j \in (i+1)..n : j \in 1..n /\ j \in (i+1)..Len(link') /\ link'[j] = link[j]
    BY <1>1, <1>2, <2>1
  <2>3. \A j \in (i+1)..n : ~Concerns(link[j], c, u)
    BY <1>5, <2>2
  <2>4. QED
    BY <1>5, <2>1, <2>3 DEF LastWord, n
<1>6. QED
  BY <1>4, <1>5 DEF LastWord

\* A message at the end of the link that has the last word.
LEMMA AppendWord ==
    ASSUME link \in Seq(Messages), NEW ms \in Seq(Messages), link' = link \o ms,
           NEW c \in Channels, NEW u \in Everybody, NEW k \in 1..Len(ms), Concerns(ms[k], c, u),
           \A i \in (k+1)..Len(ms) : ~Concerns(ms[i], c, u),
           Puts(ms[k], u) <=> u \in members'[c]
    PROVE  LastWord(c, u)'
<1> DEFINE n == Len(link)
<1>1. n \in Nat /\ Len(ms) \in Nat /\ Len(link') = n + Len(ms) /\ k \in Nat
  OBVIOUS
<1>2. n + k \in 1..Len(link') /\ link'[n + k] = ms[k]
  BY <1>1
<1>3. \A i \in 1..Len(link') : i > n + k => ~Concerns(link'[i], c, u)
  <2> TAKE i \in 1..Len(link')
  <2> HAVE i > n + k
  <2>1. i - n \in (k+1)..Len(ms) /\ link'[i] = ms[i - n]
    BY <1>1
  <2>2. QED
    BY <2>1
<1> HIDE DEF n
<1>4. ASSUME NEW i \in 1..Len(link'), Concerns(link'[i], c, u),
             \A j \in (i+1)..Len(link') : ~Concerns(link'[j], c, u)
      PROVE  Puts(link'[i], u) <=> u \in members'[c]
  <2>1. i <= n + k
    BY <1>1, <1>3, <1>4
  <2>2. i = n + k
    <3>1. SUFFICES ASSUME i < n + k PROVE FALSE
      BY <1>1, <2>1
    <3>2. n + k \in (i+1)..Len(link')
      BY <1>1, <1>2, <3>1
    <3>3. QED
      BY <1>2, <1>4, <3>2
  <2>3. QED
    BY <1>2, <2>2
<1>5. QED
  BY <1>2, <1>4 DEF LastWord

\* Every list message is the first or the second, and the first concerns everybody.
LEMMA ListMessages ==
    ASSUME NEW m \in Messages
    PROVE  /\ m.t = "NAMREPLAY" => m.c \in Channels /\ (First(m, m.c) \/ Second(m, m.c))
           /\ \A c : ~(First(m, c) /\ Second(m, c))
           /\ \A c, u : First(m, c) /\ u \in Everybody => Concerns(m, c, u)
BY LobbyAssumption DEF Messages, First, Second, Concerns, Everybody

\* A list and its end, or a message that is no part of a list, at the end of the link.
LEMMA AppendWhole ==
    ASSUME link \in Seq(Messages), NEW ms \in Seq(Messages), link' = link \o ms, Whole,
           \A c \in Channels, i \in 1..Len(ms) :
              /\ First(ms[i], c) => i + 1 \in 1..Len(ms) /\ Second(ms[i+1], c)
              /\ Second(ms[i], c) => i + 1 \in 1..Len(ms) /\ EndOf(ms[i+1], c) /\ i > 1 /\ First(ms[i-1], c)
    PROVE  Whole'
<1> DEFINE n == Len(link)
<1>1. n \in Nat /\ Len(ms) \in Nat /\ Len(link') = n + Len(ms)
  OBVIOUS
<1>2. \A i \in 1..n : i \in 1..Len(link') /\ link'[i] = link[i]
  BY <1>1
<1>3. \A i \in 1..Len(ms) : n + i \in 1..Len(link') /\ link'[n + i] = ms[i]
  BY <1>1
<1> HIDE DEF n
<1> SUFFICES ASSUME NEW c \in Channels, NEW i \in 1..Len(link')
             PROVE  /\ First(link'[i], c) => i + 1 \in 1..Len(link') /\ Second(link'[i+1], c)
                    /\ Second(link'[i], c) => i + 1 \in 1..Len(link') /\ EndOf(link'[i+1], c)
                    /\ Second(link'[i], c) /\ i > 1 => First(link'[i-1], c)
  BY DEF Whole
<1>4. CASE i \in 1..n
  <2>1. link'[i] = link[i]
    BY <1>2, <1>4
  <2>2. First(link[i], c) \/ Second(link[i], c) => i + 1 \in 1..n
    BY <1>4 DEF Whole, n
  <2>3. i + 1 \in 1..n => link'[i+1] = link[i+1] /\ i + 1 \in 1..Len(link')
    BY <1>2
  <2>4. i > 1 => link'[i-1] = link[i-1]
    BY <1>1, <1>2, <1>4
  <2>5. /\ First(link[i], c) => Second(link[i+1], c)
        /\ Second(link[i], c) => EndOf(link[i+1], c)
        /\ Second(link[i], c) /\ i > 1 => First(link[i-1], c)
    BY <1>4 DEF Whole, n
  <2>6. QED
    BY <2>1, <2>2, <2>3, <2>4, <2>5
<1>5. CASE i \notin 1..n
  <2> DEFINE k == i - n
  <2>1. k \in 1..Len(ms) /\ i = n + k
    BY <1>1, <1>5
  <2> HIDE DEF k
  <2>2. link'[i] = ms[k]
    BY <1>3, <2>1
  <2>3. /\ First(ms[k], c) => k + 1 \in 1..Len(ms) /\ Second(ms[k+1], c)
        /\ Second(ms[k], c) => k + 1 \in 1..Len(ms) /\ EndOf(ms[k+1], c) /\ k > 1 /\ First(ms[k-1], c)
    BY <2>1
  <2>4. k + 1 \in 1..Len(ms) => i + 1 \in 1..Len(link') /\ link'[i + 1] = ms[k + 1]
    <3>1. n + (k + 1) = i + 1
      BY <1>1, <2>1
    <3>2. QED
      BY <1>3, <3>1
  <2>5. k > 1 => link'[i - 1] = ms[k - 1]
    <3>1. k > 1 => n + (k - 1) = i - 1 /\ k - 1 \in 1..Len(ms)
      BY <1>1, <2>1
    <3>2. QED
      BY <1>3, <3>1
  <2>6. QED
    BY <2>2, <2>3, <2>4, <2>5
<1>6. QED
  BY <1>4, <1>5

\* What was stuck stays so when nothing of a list of the channel is added.
LEMMA AppendReceiving ==
    ASSUME link \in Seq(Messages), NEW ms \in Seq(Messages), link' = link \o ms, Receiving,
           channels \subseteq Channels,
           \A c \in Channels : Requested("JOIN", c)' => Requested("JOIN", c),
           \A i \in 1..Len(ms) : ms[i].t \in {"NAMREPLAY", "ENDOFNAMES", "UJOINED"} => Requested("JOIN", ms[i].c),
           UNCHANGED <<channels, users, users_receiving>>
    PROVE  Receiving'
<1> SUFFICES ASSUME NEW c \in channels, users_receiving[c]
             PROVE  \/ Stuck(c)'
                    \/ link' # <<>> /\ Second(link'[1], c) /\ users[c] = {Me}
                    \/ link' # <<>> /\ EndOf(link'[1], c)
  BY DEF Receiving
<1>1. link # <<>> => link' # <<>> /\ link'[1] = link[1]
  OBVIOUS
<1>2. ASSUME Stuck(c) PROVE Stuck(c)'
  <2>1. ~Requested("JOIN", c) /\ ~Requested("JOIN", c)'
    BY <1>2 DEF Stuck
  <2>2. ASSUME NEW i \in 1..Len(link'), link'[i].c = c
        PROVE  link'[i].t \notin {"NAMREPLAY", "ENDOFNAMES", "UJOINED"}
    <3>1. CASE i \in 1..Len(link)
      BY <1>2, <2>2, <3>1 DEF Stuck
    <3>2. CASE i \notin 1..Len(link)
      <4>1. i - Len(link) \in 1..Len(ms) /\ link'[i] = ms[i - Len(link)]
        BY <3>2
      <4>2. QED
        BY <2>1, <2>2, <4>1
    <3>3. QED
      BY <3>1, <3>2
  <2>3. QED
    BY <2>1, <2>2 DEF Stuck
<1>3. QED
  BY <1>1, <1>2 DEF Receiving

\* A whole list behind half a one stays behind it.
LEMMA AppendStarted ==
    ASSUME link \in Seq(Messages), NEW ms \in Seq(Messages), link' = link \o ms, users_receiving' = users_receiving,
           NEW c \in Channels,
           Started(c) \/ \E i \in 1..Len(ms) : First(ms[i], c),
           ms # <<>> => ~Second(ms[1], c)
    PROVE  Started(c)'
<1> SUFFICES ASSUME link' # <<>>, Second(link'[1], c)
             PROVE  users_receiving[c] \/ \E i \in 2..Len(link') : First(link'[i], c)
  BY DEF Started
<1>1. link # <<>>
  <2>1. link = <<>> => link' = ms
    OBVIOUS
  <2>2. QED
    BY <2>1
<1>2. link'[1] = link[1]
  BY <1>1
<1>3. \A i \in 2..Len(link) : i \in 2..Len(link') /\ link'[i] = link[i]
  OBVIOUS
<1>4. \A i \in 1..Len(ms) : Len(link) + i \in 2..Len(link') /\ link'[Len(link) + i] = ms[i]
  BY <1>1
<1>5. CASE Started(c)
  BY <1>1, <1>2, <1>3, <1>5 DEF Started
<1>6. CASE \E i \in 1..Len(ms) : First(ms[i], c)
  BY <1>4, <1>6
<1>7. QED
  BY <1>5, <1>6

\* An answer that is no list and adds no member.
LEMMA AnswerQuiet ==
    ASSUME ListInv, Types, NEW ms \in Seq(Messages), Answer(ms),
           \A i \in 1..Len(ms) : ms[i].t \in {"LOGIN", "PONG", "ONLINE", "FORBIDJOIN"},
           \A c \in Channels : members'[c] \in {members[c], {}},
           \A c \in Channels : Head(requests) = Request("PART", c) => members'[c] = {}
    PROVE  ListInv'
<1>1. requests \in Seq(Req) /\ link \in Seq(Messages) /\ channels \subseteq Channels
  BY TypesIs DEF QueuesOK, TableTypes
<1>2. /\ requests # <<>> /\ requests' = Tail(requests) /\ link' = link \o ms
      /\ UNCHANGED <<channels, users, users_receiving, carried>>
  BY DEF Answer, tables, history
<1>3. \A c \in Channels :
          /\ Requested("JOIN", c)' => Requested("JOIN", c)
          /\ members'[c] # {} => (Requested("PART", c)' <=> Requested("PART", c))
          /\ Followed("JOIN", "PART", c) => Followed("JOIN", "PART", c)'
  BY <1>1, <1>2, TailRequest
<1>4. Whole'
  BY <1>1, <1>2, AppendWhole DEF ListInv, First, Second
<1>5. Receiving'
  BY <1>1, <1>2, <1>3, AppendReceiving DEF ListInv
<1>6. Membership'
  BY DEF ListInv, Membership
<1>7. Parted'
  BY <1>2, <1>3 DEF ListInv, Parted
<1>8. Follows'
  <2> SUFFICES ASSUME NEW c \in Channels, Live(c)'
               PROVE  Started(c)' /\ \A u \in Everybody : LastWord(c, u)'
    BY DEF Follows
  <2>1. members'[c] = members[c] /\ Live(c)
    BY <1>2, <1>3 DEF Live
  <2>2. Started(c) /\ \A u \in Everybody : LastWord(c, u)
    BY <2>1 DEF ListInv, Follows
  <2>3. ms # <<>> => ~Second(ms[1], c)
    BY DEF Second
  <2>4. Started(c)'
    BY <1>1, <1>2, <2>2, <2>3, AppendStarted
  <2>5. \A u \in Everybody, i \in 1..Len(ms) : ~Concerns(ms[i], c, u)
    BY DEF Concerns
  <2>6. \A u \in Everybody : LastWord(c, u)'
    BY <1>1, <1>2, <2>1, <2>2, <2>5, AppendQuiet
  <2>7. QED
    BY <2>4, <2>6
<1>9. QED
  BY <1>4, <1>5, <1>6, <1>7, <1>8 DEF ListInv

\* The answer to a join: the list, after which the channel is known.
LEMMA AnswerList ==
    ASSUME ListInv, Types, NEW c \in Channels, NEW S \in SUBSET Nicks, Head(requests) = Request("JOIN", c),
           Answer(<<About("UJOINED", c), Names(c, {Me}), Names(c, S), About("ENDOFNAMES", c)>>),
           members' = [members EXCEPT ![c] = S \union {Me}]
    PROVE  ListInv'
<1> DEFINE ms == <<About("UJOINED", c), Names(c, {Me}), Names(c, S), About("ENDOFNAMES", c)>>
<1>1. /\ requests \in Seq(Req) /\ link \in Seq(Messages) /\ channels \subseteq Channels
      /\ members \in [Channels -> SUBSET (Nicks \union {Me})]
  BY TypesIs DEF QueuesOK, TableTypes, ServerTypes
<1>2. /\ requests # <<>> /\ requests' = Tail(requests) /\ link' = link \o ms
      /\ UNCHANGED <<channels, users, users_receiving, carried>>
  BY DEF Answer, tables, history
<1>3. /\ About("UJOINED", c) \in Messages /\ About("ENDOFNAMES", c) \in Messages
      /\ Names(c, {Me}) \in Messages /\ Names(c, S) \in Messages
  BY DEF About, Names, Messages
<1>4. ms \in Seq(Messages) /\ Len(ms) = 4
  BY <1>3
<1>5. /\ ms[1] = About("UJOINED", c) /\ ms[2] = Names(c, {Me}) /\ ms[3] = Names(c, S) /\ ms[4] = About("ENDOFNAMES", c)
  OBVIOUS
<1> HIDE DEF ms
<1>6. \A d \in Channels :
          /\ Requested("JOIN", d)' => Requested("JOIN", d)
          /\ Requested("PART", d)' <=> Requested("PART", d)
          /\ Followed("JOIN", "PART", d) => Followed("JOIN", "PART", d)'
          /\ d = c /\ Followed("JOIN", "PART", d) => Requested("PART", d)'
  <2> TAKE d \in Channels
  <2>1. Head(requests) # Request("PART", d)
    BY DEF Request
  <2>2. QED
    BY <1>1, <1>2, <2>1, TailRequest
<1>7. Requested("JOIN", c)
  BY <1>1, <1>2 DEF Requested
<1>8. \A i \in 1..Len(ms) : ms[i].c = c
  <2>1. \A i \in 1..Len(ms) : i = 1 \/ i = 2 \/ i = 3 \/ i = 4
    BY <1>4
  <2>2. QED
    BY <1>5, <2>1 DEF About, Names
<1>9. \A d \in Channels :
          /\ First(ms[2], c) /\ Second(ms[3], c) /\ EndOf(ms[4], c)
          /\ ~First(ms[1], d) /\ ~Second(ms[1], d) /\ ~First(ms[4], d) /\ ~Second(ms[4], d)
          /\ ~Second(ms[2], d) /\ ~First(ms[3], d)
          /\ (First(ms[2], d) \/ Second(ms[3], d)) => d = c
  BY <1>5, LobbyAssumption DEF First, Second, EndOf, About, Names
<1>10. Whole'
  <2>1. ASSUME NEW d \in Channels, NEW i \in 1..Len(ms)
        PROVE  /\ First(ms[i], d) => i + 1 \in 1..Len(ms) /\ Second(ms[i+1], d)
               /\ Second(ms[i], d) => i + 1 \in 1..Len(ms) /\ EndOf(ms[i+1], d) /\ i > 1 /\ First(ms[i-1], d)
    <3>1. CASE i = 1 \/ i = 4
      BY <1>9, <3>1
    <3>2. CASE i = 2
      BY <1>4, <1>9, <3>2
    <3>3. CASE i = 3
      BY <1>4, <1>9, <3>3
    <3>4. QED
      BY <1>4, <3>1, <3>2, <3>3
  <2>2. QED
    BY <1>1, <1>2, <1>4, <2>1, AppendWhole DEF ListInv
<1>11. Receiving'
  BY <1>1, <1>2, <1>4, <1>6, <1>7, <1>8, AppendReceiving DEF ListInv
<1>12. Membership'
  BY <1>1 DEF ListInv, Membership
<1>13. \A d \in Channels : d # c => members'[d] = members[d]
  BY <1>1
<1>14. members'[c] = S \union {Me}
  BY <1>1
<1>15. Parted'
  BY <1>2, <1>6, <1>13 DEF ListInv, Parted
<1>16. ASSUME NEW d \in Channels, d # c, Live(d)' PROVE Started(d)' /\ \A u \in Everybody : LastWord(d, u)'
  <2>1. Live(d)
    BY <1>2, <1>6, <1>13, <1>16 DEF Live
  <2>2. Started(d) /\ \A u \in Everybody : LastWord(d, u)
    BY <2>1 DEF ListInv, Follows
  <2>3. Started(d)'
    BY <1>1, <1>2, <1>4, <1>9, <2>2, AppendStarted
  <2>4. \A u \in Everybody, i \in 1..Len(ms) : ~Concerns(ms[i], d, u)
    <3>1. ASSUME NEW i \in 1..Len(ms) PROVE ms[i].t \in {"UJOINED", "NAMREPLAY", "ENDOFNAMES"}
      <4>1. i = 1 \/ i = 2 \/ i = 3 \/ i = 4
        BY <1>4
      <4>2. QED
        BY <1>5, <4>1 DEF About, Names
    <3>2. QED
      BY <1>8, <1>16, <3>1 DEF Concerns
  <2>5. \A u \in Everybody : LastWord(d, u)'
    BY <1>1, <1>2, <1>4, <1>13, <1>16, <2>2, <2>4, AppendQuiet
  <2>6. QED
    BY <2>3, <2>5
<1>17. Started(c)'
  <2>1. \E i \in 1..Len(ms) : First(ms[i], c)
    BY <1>4, <1>9
  <2>2. QED
    BY <1>1, <1>2, <1>4, <1>9, <2>1, AppendStarted
<1>18. ASSUME NEW u \in Everybody PROVE LastWord(c, u)'
  <2>1. ~Concerns(ms[4], c, u)
    BY <1>5 DEF Concerns, About
  <2>2. CASE u = Me
    <3>1. Concerns(ms[2], c, u) /\ Puts(ms[2], u) /\ ~Concerns(ms[3], c, u)
      BY <1>5, <2>2, LobbyAssumption DEF Concerns, Puts, Names
    <3>2. \A i \in (2+1)..Len(ms) : i = 3 \/ i = 4
      BY <1>4
    <3>3. u \in members'[c] /\ 2 \in 1..Len(ms)
      BY <1>4, <1>14, <2>2
    <3>4. QED
      BY <1>1, <1>2, <1>4, <2>1, <3>1, <3>2, <3>3, AppendWord
  <2>3. CASE u # Me
    <3>1. Concerns(ms[3], c, u) /\ (Puts(ms[3], u) <=> u \in S)
      BY <1>5, <2>3 DEF Concerns, Puts, Names
    <3>2. \A i \in (3+1)..Len(ms) : i = 4
      BY <1>4
    <3>3. (u \in members'[c] <=> u \in S) /\ 3 \in 1..Len(ms)
      BY <1>4, <1>14, <2>3
    <3>4. QED
      BY <1>1, <1>2, <1>4, <2>1, <3>1, <3>2, <3>3, AppendWord
  <2>4. QED
    BY <2>2, <2>3
<1>19. Follows'
  BY <1>16, <1>17, <1>18 DEF Follows
<1>20. QED
  BY <1>10, <1>11, <1>12, <1>15, <1>19 DEF ListInv

\* The server answers.
LEMMA ServeLists ==
    ASSUME ListInv, Types, Serve
    PROVE  ListInv'
<1>1. members \in [Channels -> SUBSET (Nicks \union {Me})]
  BY TypesIs DEF ServerTypes
<1>2. ASSUME NEW c \in Channels, serve_join(c) PROVE ListInv'
  <2>1. CASE \E S \in SUBSET Nicks :
            /\ Answer(<<About("UJOINED", c), Names(c, {Me}), Names(c, S), About("ENDOFNAMES", c)>>)
            /\ members' = [members EXCEPT ![c] = S \union {Me}]
    BY <1>2, <2>1, AnswerList DEF serve_join
  <2>2. CASE Answer(<<About("FORBIDJOIN", c)>>) /\ UNCHANGED members
    <3>1. About("FORBIDJOIN", c) \in Messages /\ About("FORBIDJOIN", c).t = "FORBIDJOIN"
      BY DEF About, Messages
    <3>2. <<About("FORBIDJOIN", c)>> \in Seq(Messages)
          /\ \A i \in 1..Len(<<About("FORBIDJOIN", c)>>) : <<About("FORBIDJOIN", c)>>[i].t = "FORBIDJOIN"
      BY <3>1
    <3>3. \A d \in Channels : Head(requests) # Request("PART", d)
      BY <1>2 DEF serve_join, Request
    <3>4. QED
      BY <2>2, <3>2, <3>3, AnswerQuiet
  <2>3. QED
    BY <1>2, <2>1, <2>2 DEF serve_join
<1>3. ASSUME NEW c \in Channels, serve_part(c) PROVE ListInv'
  <2>1. Answer(<<>>) /\ <<>> \in Seq(Messages) /\ members' = [members EXCEPT ![c] = {}]
    BY <1>3 DEF serve_part
  <2>2. \A d \in Channels : members'[d] = IF d = c THEN {} ELSE members[d]
    BY <1>1, <2>1
  <2>3. \A d \in Channels : Head(requests) = Request("PART", d) => d = c
    BY <1>3 DEF serve_part, Request
  <2>4. \A d \in Channels : /\ members'[d] \in {members[d], {}}
                            /\ Head(requests) = Request("PART", d) => members'[d] = {}
    BY <2>2, <2>3
  <2>5. \A i \in 1..Len(<<>>) : <<>>[i].t = "LOGIN"
    OBVIOUS
  <2>6. QED
    BY <2>1, <2>4, <2>5, AnswerQuiet
<1>4. CASE serve_login
  <2>1. Answer(<<>>) /\ <<>> \in Seq(Messages) /\ UNCHANGED members
    BY <1>4 DEF serve_login
  <2>2. \A d \in Channels : Head(requests) # Request("PART", d)
    BY <1>4 DEF serve_login, Request
  <2>3. \A i \in 1..Len(<<>>) : <<>>[i].t = "LOGIN"
    OBVIOUS
  <2>4. QED
    BY <2>1, <2>2, <2>3, AnswerQuiet
<1>5. CASE serve_nothing \/ serve_other
  <2>1. About("ONLINE", Friend) \in Messages /\ About("PONG", Friend) \in Messages
        /\ About("ONLINE", Friend).t = "ONLINE" /\ About("PONG", Friend).t = "PONG"
    BY DEF About, Messages
  <2>2. UNCHANGED members /\ \A d \in Channels : Head(requests) # Request("PART", d)
    BY <1>5 DEF serve_nothing, serve_other, server, Request
  <2>3. /\ <<>> \in Seq(Messages) /\ <<About("ONLINE", Friend)>> \in Seq(Messages)
        /\ <<About("PONG", Friend)>> \in Seq(Messages)
        /\ \A i \in 1..Len(<<About("ONLINE", Friend)>>) : <<About("ONLINE", Friend)>>[i].t = "ONLINE"
        /\ \A i \in 1..Len(<<About("PONG", Friend)>>) : <<About("PONG", Friend)>>[i].t = "PONG"
    BY <2>1
  <2>4. \/ Answer(<<>>) \/ Answer(<<About("ONLINE", Friend)>>)
        \/ Answer(<<About("PONG", Friend)>>)
    BY <1>5 DEF serve_nothing, serve_other
  <2>5. \A i \in 1..Len(<<>>) : <<>>[i].t = "LOGIN"
    OBVIOUS
  <2>6. QED
    BY <2>2, <2>3, <2>4, <2>5, AnswerQuiet
<1>6. QED
  BY <1>2, <1>3, <1>4, <1>5 DEF Serve

\* The login is accepted.
LEMMA WelcomeLists ==
    ASSUME ListInv, Types, Welcome
    PROVE  ListInv'
<1> DEFINE ms == <<About("LOGIN", Friend)>>
<1>1. link \in Seq(Messages) /\ channels \subseteq Channels
  BY TypesIs DEF QueuesOK, TableTypes
<1>2. link' = Append(link, About("LOGIN", Friend))
      /\ UNCHANGED <<channels, users, users_receiving, carried, requests, members>>
  BY DEF Welcome, Tell, tables, history
<1>3. About("LOGIN", Friend) \in Messages /\ About("LOGIN", Friend).t = "LOGIN"
  BY DEF About, Messages
<1>4. ms \in Seq(Messages) /\ link' = link \o ms /\ \A i \in 1..Len(ms) : ms[i].t = "LOGIN"
  BY <1>1, <1>2, <1>3
<1> HIDE DEF ms
<1>5. \A c \in Channels : /\ Requested("JOIN", c)' <=> Requested("JOIN", c)
                          /\ Requested("PART", c)' <=> Requested("PART", c)
                          /\ Followed("JOIN", "PART", c)' <=> Followed("JOIN", "PART", c)
  BY <1>2 DEF Requested, Followed
<1>6. Whole'
  BY <1>1, <1>4, AppendWhole DEF ListInv, First, Second
<1>7. Receiving'
  BY <1>1, <1>2, <1>4, <1>5, AppendReceiving DEF ListInv
<1>8. Membership' /\ Parted'
  BY <1>2, <1>5 DEF ListInv, Membership, Parted
<1>9. Follows'
  <2> SUFFICES ASSUME NEW c \in Channels, Live(c)'
               PROVE  Started(c)' /\ \A u \in Everybody : LastWord(c, u)'
    BY DEF Follows
  <2>1. Live(c)
    BY <1>2, <1>5 DEF Live
  <2>2. Started(c) /\ \A u \in Everybody : LastWord(c, u)
    BY <2>1 DEF ListInv, Follows
  <2>3. ms # <<>> => ~Second(ms[1], c)
    BY <1>4 DEF Second
  <2>4. Started(c)'
    BY <1>1, <1>2, <1>4, <2>2, <2>3, AppendStarted
  <2>5. \A u \in Everybody, i \in 1..Len(ms) : ~Concerns(ms[i], c, u)
    BY <1>4 DEF Concerns
  <2>6. \A u \in Everybody : LastWord(c, u)'
    BY <1>1, <1>2, <1>4, <2>2, <2>5, AppendQuiet
  <2>7. QED
    BY <2>4, <2>6
<1>10. QED
  BY <1>6, <1>7, <1>8, <1>9 DEF ListInv

\* One message about another user, that the server's members agree with.
LEMMA TellLists ==
    ASSUME ListInv, Types, NEW m \in Messages, link' = Append(link, m), m.t \in {"JOIN", "PART", "QUIT"},
           NEW v \in Nicks, m.n = {v},
           \A c \in Channels : Concerns(m, c, v) => (Puts(m, v) <=> v \in members'[c]),
           \A c \in Channels, u \in Everybody : ~Concerns(m, c, u) => (u \in members'[c] <=> u \in members[c]),
           \A c \in Channels : members'[c] # {} => members[c] # {} /\ Me \in members'[c],
           UNCHANGED <<channels, carried, users, users_receiving, requests>>
    PROVE  ListInv'
<1> DEFINE ms == <<m>>
<1>1. requests \in Seq(Req) /\ link \in Seq(Messages) /\ channels \subseteq Channels
  BY TypesIs DEF QueuesOK, TableTypes
<1>2. ms \in Seq(Messages) /\ Len(ms) = 1 /\ ms[1] = m /\ link' = link \o ms
  BY <1>1
<1> HIDE DEF ms
<1>3. \A i \in 1..Len(ms) : i = 1
  BY <1>2
<1>4. \A c \in Channels : ~First(m, c) /\ ~Second(m, c)
  BY DEF First, Second
<1>5. \A c \in Channels : /\ Requested("JOIN", c)' <=> Requested("JOIN", c)
                          /\ Requested("PART", c)' <=> Requested("PART", c)
                          /\ Followed("JOIN", "PART", c)' <=> Followed("JOIN", "PART", c)
  BY DEF Requested, Followed
<1>6. Whole'
  BY <1>1, <1>2, <1>3, <1>4, AppendWhole DEF ListInv
<1>7. Receiving'
  BY <1>1, <1>2, <1>3, <1>5, AppendReceiving DEF ListInv
<1>8. Membership' /\ Parted'
  BY <1>5 DEF ListInv, Membership, Parted
<1>9. Follows'
  <2> SUFFICES ASSUME NEW c \in Channels, Live(c)'
               PROVE  Started(c)' /\ \A u \in Everybody : LastWord(c, u)'
    BY DEF Follows
  <2>1. Live(c)
    BY <1>5 DEF Live
  <2>2. Started(c) /\ \A u \in Everybody : LastWord(c, u)
    BY <2>1 DEF ListInv, Follows
  <2>3. Started(c)'
    BY <1>1, <1>2, <1>4, <2>2, AppendStarted
  <2>4. ASSUME NEW u \in Everybody PROVE LastWord(c, u)'
    <3>1. CASE Concerns(m, c, u)
      <4>1. u = v
        BY <3>1 DEF Concerns
      <4>2. Puts(m, u) <=> u \in members'[c]
        BY <3>1, <4>1
      <4>3. 1 \in 1..Len(ms) /\ \A i \in (1+1)..Len(ms) : ~Concerns(ms[i], c, u)
        BY <1>2
      <4>4. QED
        BY <1>1, <1>2, <3>1, <4>2, <4>3, AppendWord
    <3>2. CASE ~Concerns(m, c, u)
      <4>1. \A i \in 1..Len(ms) : ~Concerns(ms[i], c, u)
        BY <1>2, <1>3, <3>2
      <4>2. QED
        BY <1>1, <1>2, <2>2, <3>2, <4>1, AppendQuiet
    <3>3. QED
      BY <3>1, <3>2
  <2>5. QED
    BY <2>3, <2>4
<1>10. QED
  BY <1>6, <1>7, <1>8, <1>9 DEF ListInv

\* Another user joins, parts or quits.
LEMMA OthersLists ==
    ASSUME ListInv, Types, Others
    PROVE  ListInv'
<1>1. members \in [Channels -> SUBSET (Nicks \union {Me})] /\ Membership
  BY TypesIs DEF ServerTypes, ListInv
<1>2. UNCHANGED <<channels, carried, users, users_receiving, requests>>
  BY DEF Others, tables, history
<1>3. ASSUME NEW u \in Nicks, NEW c \in Channels, OtherJoins(u, c) PROVE ListInv'
  <2> DEFINE m == Event("JOIN", c, u)
  <2>1. m \in Messages /\ m.t = "JOIN" /\ m.c = c /\ m.n = {u}
    BY DEF Event, Messages
  <2>2. link' = Append(link, m)
    BY <1>3 DEF OtherJoins, Tell
  <2> HIDE DEF m
  <2>3. \A d \in Channels : members'[d] = IF d = c THEN members[d] \union {u} ELSE members[d]
    BY <1>1, <1>3 DEF OtherJoins
  <2>4. \A d \in Channels, v \in Everybody : Concerns(m, d, v) <=> d = c /\ v = u
    BY <2>1 DEF Concerns
  <2>5. Puts(m, u)
    BY <2>1 DEF Puts
  <2>6. \A d \in Channels : members'[d] # {} => members[d] # {} /\ Me \in members'[d]
    BY <1>1, <1>3, <2>3 DEF OtherJoins, Membership
  <2>7. \A d \in Channels : Concerns(m, d, u) => (Puts(m, u) <=> u \in members'[d])
    BY <2>3, <2>4, <2>5 DEF Everybody
  <2>8. \A d \in Channels, v \in Everybody : ~Concerns(m, d, v) => (v \in members'[d] <=> v \in members[d])
    BY <2>3, <2>4
  <2>9. QED
    BY <1>2, <2>1, <2>2, <2>6, <2>7, <2>8, TellLists
<1>4. ASSUME NEW u \in Nicks, NEW c \in Channels, OtherParts(u, c) PROVE ListInv'
  <2> DEFINE m == Event("PART", c, u)
  <2>1. m \in Messages /\ m.t = "PART" /\ m.c = c /\ m.n = {u}
    BY DEF Event, Messages
  <2>2. link' = Append(link, m)
    BY <1>4 DEF OtherParts, Tell
  <2> HIDE DEF m
  <2>3. \A d \in Channels : members'[d] = IF d = c THEN members[d] \ {u} ELSE members[d]
    BY <1>1, <1>4 DEF OtherParts
  <2>4. \A d \in Channels, v \in Everybody : Concerns(m, d, v) <=> d = c /\ v = u
    BY <2>1 DEF Concerns
  <2>5. ~Puts(m, u)
    BY <2>1 DEF Puts
  <2>6. \A d \in Channels : members'[d] # {} => members[d] # {} /\ Me \in members'[d]
    BY <1>1, <2>3, LobbyAssumption DEF Membership
  <2>7. \A d \in Channels : Concerns(m, d, u) => (Puts(m, u) <=> u \in members'[d])
    BY <2>3, <2>4, <2>5 DEF Everybody
  <2>8. \A d \in Channels, v \in Everybody : ~Concerns(m, d, v) => (v \in members'[d] <=> v \in members[d])
    BY <2>3, <2>4
  <2>9. QED
    BY <1>2, <2>1, <2>2, <2>6, <2>7, <2>8, TellLists
<1>5. ASSUME NEW u \in Nicks, OtherQuits(u) PROVE ListInv'
  <2> DEFINE m == Event("QUIT", Friend, u)
  <2>1. m \in Messages /\ m.t = "QUIT" /\ m.n = {u}
    BY <1>5 DEF Event, Messages
  <2>2. link' = Append(link, m)
    BY <1>5 DEF OtherQuits, Tell
  <2> HIDE DEF m
  <2>3. \A d \in Channels : members'[d] = members[d] \ {u}
    BY <1>1, <1>5 DEF OtherQuits
  <2>4. \A d \in Channels, v \in Everybody : Concerns(m, d, v) <=> v = u
    BY <2>1 DEF Concerns
  <2>5. ~Puts(m, u)
    BY <2>1 DEF Puts
  <2>6. \A d \in Channels : members'[d] # {} => members[d] # {} /\ Me \in members'[d]
    BY <1>1, <2>3, LobbyAssumption DEF Membership
  <2>7. \A d \in Channels : Concerns(m, d, u) => (Puts(m, u) <=> u \in members'[d])
    BY <2>3, <2>5
  <2>8. \A d \in Channels, v \in Everybody : ~Concerns(m, d, v) => (v \in members'[d] <=> v \in members[d])
    BY <2>3, <2>4
  <2>9. QED
    BY <1>2, <2>1, <2>2, <2>6, <2>7, <2>8, TellLists
<1>6. QED
  BY <1>3, <1>4, <1>5 DEF Others

----------------------------------------------------------------------------
(* The client reads.                                                       *)

\* The messages but the first.
LEMMA TailWhole ==
    ASSUME Whole, link \in Seq(Messages), link # <<>>, link' = Tail(link)
    PROVE  Whole'
<1> DEFINE n == Len(link)
<1>1. n \in Nat \ {0} /\ Len(link') = n - 1
  OBVIOUS
<1>2. \A i \in 1..Len(link') : link'[i] = link[i + 1] /\ i + 1 \in 1..n
  BY <1>1
<1> HIDE DEF n
<1> SUFFICES ASSUME NEW c \in Channels, NEW i \in 1..Len(link')
             PROVE  /\ First(link'[i], c) => i + 1 \in 1..Len(link') /\ Second(link'[i+1], c)
                    /\ Second(link'[i], c) => i + 1 \in 1..Len(link') /\ EndOf(link'[i+1], c)
                    /\ Second(link'[i], c) /\ i > 1 => First(link'[i-1], c)
  BY DEF Whole
<1>3. link'[i] = link[i + 1] /\ i + 1 \in 1..n
  BY <1>2
<1>4. i + 2 \in 1..n => i + 1 \in 1..Len(link') /\ link'[i + 1] = link[i + 2]
  BY <1>1, <1>2
<1>5. i > 1 => link'[i - 1] = link[i]
  <2>1. i > 1 => i - 1 \in 1..Len(link') /\ (i - 1) + 1 = i
    BY <1>1
  <2>2. QED
    BY <1>2, <2>1
<1>6. /\ First(link[i + 1], c) => i + 2 \in 1..n /\ Second(link[i + 2], c)
      /\ Second(link[i + 1], c) => i + 2 \in 1..n /\ EndOf(link[i + 2], c)
      /\ Second(link[i + 1], c) => First(link[i], c)
  <2>1. (i + 1) + 1 = i + 2 /\ (i + 1) - 1 = i /\ i + 1 > 1
    OBVIOUS
  <2>2. QED
    BY <1>3, <2>1 DEF Whole, n
<1>7. QED
  BY <1>3, <1>4, <1>5, <1>6

\* When the list of a channel takes over what the first message says of a user,
\* the last word stays right.
LEMMA TailWord ==
    ASSUME link \in Seq(Messages), link # <<>>, link' = Tail(link), NEW c \in Channels, NEW u \in Everybody,
           LastWord(c, u), members' = members,
           \/ \E i \in 2..Len(link) : Concerns(link[i], c, u)
           \/ u \in users'[c] <=> IF Concerns(link[1], c, u) THEN Puts(link[1], u) ELSE u \in users[c]
    PROVE  LastWord(c, u)'
<1> DEFINE n == Len(link)
<1>1. n \in Nat \ {0} /\ Len(link') = n - 1
  OBVIOUS
<1>2. \A i \in 1..Len(link') : link'[i] = link[i + 1] /\ i + 1 \in 1..n
  BY <1>1
<1>3. \A i \in 2..n : i - 1 \in 1..Len(link') /\ link'[i - 1] = link[i]
  <2> TAKE i \in 2..n
  <2>1. i - 1 \in 1..Len(link') /\ (i - 1) + 1 = i
    BY <1>1
  <2>2. QED
    BY <1>2, <2>1
<1> HIDE DEF n
<1>4. ASSUME \A i \in 1..Len(link') : ~Concerns(link'[i], c, u)
      PROVE  u \in users'[c] <=> u \in members'[c]
  <2>1. \A i \in 2..n : ~Concerns(link[i], c, u)
    BY <1>3, <1>4
  <2>2. u \in users'[c] <=> IF Concerns(link[1], c, u) THEN Puts(link[1], u) ELSE u \in users[c]
    BY <2>1 DEF n
  <2>3. CASE Concerns(link[1], c, u)
    <3>1. Puts(link[1], u) <=> u \in members[c]
      <4>1. 1 \in 1..n /\ 1 + 1 = 2
        BY <1>1
      <4>2. QED
        BY <2>1, <2>3, <4>1 DEF LastWord, n
    <3>2. QED
      BY <2>2, <2>3, <3>1
  <2>4. CASE ~Concerns(link[1], c, u)
    <3>1. \A i \in 1..n : ~Concerns(link[i], c, u)
      <4>1. \A i \in 1..n : i = 1 \/ i \in 2..n
        BY <1>1
      <4>2. QED
        BY <2>1, <2>4, <4>1
    <3>2. QED
      BY <2>2, <2>4, <3>1 DEF LastWord, n
  <2>5. QED
    BY <2>3, <2>4
<1>5. ASSUME NEW i \in 1..Len(link'), Concerns(link'[i], c, u),
             \A j \in (i+1)..Len(link') : ~Concerns(link'[j], c, u)
      PROVE  Puts(link'[i], u) <=> u \in members'[c]
  <2>1. link'[i] = link[i + 1] /\ i + 1 \in 1..n
    BY <1>2
  <2>2. \A j \in ((i+1)+1)..n : ~Concerns(link[j], c, u)
    <3> TAKE j \in ((i+1)+1)..n
    <3>1. j \in 2..n /\ j - 1 \in (i+1)..Len(link')
      BY <1>1
    <3>2. link'[j - 1] = link[j]
      BY <1>3, <3>1
    <3>3. QED
      BY <1>5, <3>1, <3>2
  <2>3. QED
    BY <1>5, <2>1, <2>2 DEF LastWord, n
<1>6. QED
  BY <1>4, <1>5 DEF LastWord

\* What a message does to the list of a channel.
Heard(c, m) ==
    IF m.t = "NAMREPLAY" /\ m.c = c THEN (IF users_receiving[c] THEN users[c] \union m.n ELSE m.n)
    ELSE IF m.t = "JOIN" /\ m.c = c THEN users[c] \union m.n
    ELSE IF m.t = "QUIT" \/ (m.t = "PART" /\ m.c = c) THEN users[c] \ m.n
    ELSE users[c]

\* mini_read does it, and nothing else to the lists.
LEMMA ReadHears ==
    ASSUME Types, Inv, mini_read, NEW c \in channels
    PROVE  /\ users'[c] = Heard(c, link[1])
           /\ users_receiving'[c] <=>
                 (link[1].t = "NAMREPLAY" /\ link[1].c = c) \/ (users_receiving[c] /\ ~EndOf(link[1], c))
<1> DEFINE m == Head(link)
<1>1. /\ channels \subseteq Channels /\ UserTypes /\ users_receiving \in [Channels -> BOOLEAN]
      /\ link \in Seq(Messages) /\ link # <<>>
  BY TypesIs DEF QueuesOK, TableTypes, mini_read
<1>2. m = link[1] /\ m \in Messages
  BY <1>1
<1>3. c \in Channels /\ c # Friend /\ c \in DOMAIN users
  BY <1>1, LobbyAssumption DEF UserTypes
<1>4. PICK W : Ready(m, W) \/ Consulting(m, W)
  BY DEF mini_read
<1> HIDE DEF m
<1> SUFFICES /\ users'[c] = Heard(c, m)
             /\ users_receiving'[c] <=> (m.t = "NAMREPLAY" /\ m.c = c) \/ (users_receiving[c] /\ ~EndOf(m, c))
  BY <1>2
<1>5. CASE m.t = "NAMREPLAY" /\ process_userlist(m, W)
  <2>1. m.c \in Channels /\ users_receiving' = [users_receiving EXCEPT ![m.c] = TRUE]
    BY <1>1, <1>5 DEF process_userlist
  <2>2. users' = [users EXCEPT ![m.c] = IF users_receiving[m.c] THEN @ \union m.n ELSE m.n]
    BY <1>1, <1>5 DEF process_userlist, insert_users, replace_users
  <2>3. users'[c] = Heard(c, m)
    BY <1>3, <1>5, <2>2 DEF Heard
  <2>4. users_receiving'[c] <=> (m.t = "NAMREPLAY" /\ m.c = c) \/ (users_receiving[c] /\ ~EndOf(m, c))
    BY <1>1, <1>3, <1>5, <2>1 DEF EndOf
  <2>5. QED
    BY <2>3, <2>4
<1>6. CASE m.t = "ENDOFNAMES" /\ process_userlist_end(m, W)
  <2>1. m.c \in Channels /\ users' = users
    BY <1>2, <1>6 DEF Messages, process_userlist_end
  <2>2. users_receiving'[c] <=> users_receiving[c] /\ m.c # c
    BY <1>1, <1>3, <1>6 DEF process_userlist_end
  <2>3. QED
    BY <1>6, <2>1, <2>2 DEF Heard, EndOf
<1>7. CASE m.t = "JOIN" /\ process_join(m, W)
  <2>1. users' = [users EXCEPT ![m.c] = @ \union m.n] /\ users_receiving' = users_receiving
    BY <1>7 DEF process_join, insert_users
  <2>2. QED
    BY <1>3, <1>7, <2>1 DEF Heard, EndOf
<1>8. CASE m.t = "PART" /\ process_part(m, W)
  <2>1. PICK u \in Nicks : m.n = {u}
    BY <1>2, <1>8 DEF Messages
  <2>2. users'[c] = IF c = m.c THEN users[c] \ {u} ELSE users[c]
    BY <1>3, <1>8, <2>1 DEF process_part, erase_user
  <2>3. users_receiving' = users_receiving
    BY <1>8 DEF process_part
  <2>4. QED
    BY <1>8, <2>1, <2>2, <2>3 DEF Heard, EndOf
<1>9. CASE m.t = "QUIT" /\ process_quit(m, W)
  <2>1. PICK u \in Nicks : m.n = {u}
    BY <1>2, <1>9 DEF Messages
  <2>2. u \in users[c] => c \in cids[u] \ {Friend}
    BY <1>3 DEF Inv, ViewsAgree
  <2>3. users'[c] = IF c \in cids[u] \ {Friend} THEN users[c] \ {u} ELSE users[c]
    BY <1>3, <1>9, <2>1 DEF process_quit, erase_user
  <2>4. users_receiving' = users_receiving
    BY <1>9 DEF process_quit
  <2>5. QED
    BY <1>9, <2>1, <2>2, <2>3, <2>4 DEF Heard, EndOf
<1>10. CASE m.t = "FORBIDJOIN" /\ process_forbid_join(m, W)
  BY <1>10 DEF process_forbid_join, Heard, EndOf
<1>11. CASE m.t = "LOGIN" /\ process_login(W)
  <2>1. users' = [users EXCEPT ![Friend] = @ \union {Me}] /\ users_receiving' = users_receiving
    BY <1>11 DEF process_login, insert_users
  <2>2. QED
    BY <1>3, <1>11, <2>1 DEF Heard, EndOf
<1>12. CASE \/ m.t = "UJOINED" /\ process_ujoined(m, W)
            \/ m.t = "ONLINE" /\ process_online(W)
            \/ Ignored(m, W)
  <2>1. users' = users /\ users_receiving' = users_receiving
    BY <1>12 DEF process_ujoined, process_online, Ignored, tables
  <2>2. m.t \in {"UJOINED", "ONLINE", "NOTICE", "PONG"} \/ (m.t \in {"NAMREPLAY", "JOIN", "PART"} /\ m.c # c)
    BY <1>12 DEF Ignored
  <2>3. QED
    BY <2>1, <2>2 DEF Heard, EndOf
<1>13. QED
  BY <1>4, <1>5, <1>6, <1>7, <1>8, <1>9, <1>10, <1>11, <1>12 DEF Ready, Consulting

\* A message is read: the next one, or the list, has the last word now.
LEMMA ReadLists ==
    ASSUME ListInv, Types, Inv, mini_read
    PROVE  ListInv'
<1>1. channels \subseteq Channels /\ link \in Seq(Messages) /\ link # <<>>
  BY TypesIs DEF QueuesOK, TableTypes, mini_read
<1>2. link' = Tail(link) /\ members' = members /\ carried' = carried
  BY DEF mini_read, server, history
<1>3. PICK W : GoodWork(W) /\ (Ready(Head(link), W) \/ Consulting(Head(link), W))
  BY ReadWork
<1>4. Extends(requests')
  <2>1. Head(link) \in Messages
    BY <1>1
  <2>2. requests' = W.sent
    BY <1>3, <2>1, ReadCommits
  <2>3. QED
    BY <1>3, <2>2 DEF GoodWork
<1>5. channels' = channels
  BY <1>3 DEF Ready, Consulting, process_login, process_ujoined, process_userlist, process_userlist_end,
     process_join, process_part, process_quit, process_forbid_join, process_online, Ignored, tables
<1>6. Harmless
  BY <1>4, ExtendsHarmless
<1> DEFINE m == link[1]
<1>7. \A c \in channels :
          /\ users'[c] = Heard(c, m)
          /\ users_receiving'[c] <=> (m.t = "NAMREPLAY" /\ m.c = c) \/ (users_receiving[c] /\ ~EndOf(m, c))
  BY ReadHears
<1>8. m \in Messages /\ Len(link) \in Nat \ {0} /\ Len(link') = Len(link) - 1 /\ 1 \in 1..Len(link)
  BY <1>1, <1>2
<1>9. \A i \in 1..Len(link') : link'[i] = link[i + 1] /\ i + 1 \in 1..Len(link)
  BY <1>1, <1>2
<1>10. 2 \in 1..Len(link) => link' # <<>> /\ link'[1] = link[2]
  <2>1. 2 \in 1..Len(link) => 1 \in 1..Len(link') /\ 1 + 1 = 2
    BY <1>8
  <2>2. link' = <<>> => Len(link') = 0
    OBVIOUS
  <2>3. QED
    BY <1>9, <2>1, <2>2
<1>11. link' # <<>> => link'[1] = link[2] /\ 2 \in 1..Len(link)
  <2>1. link' # <<>> => Len(link') # 0
    <3>1. link' \in Seq(Messages)
      BY <1>1, <1>2
    <3>2. QED
      BY <3>1
  <2>2. Len(link') # 0 => 1 \in 1..Len(link') /\ 1 + 1 = 2
    BY <1>8
  <2>3. QED
    BY <1>9, <2>1, <2>2
<1> HIDE DEF m
<1>12. Whole'
  BY <1>1, <1>2, TailWhole DEF ListInv
<1>13. Membership' /\ Parted'
  BY <1>1, <1>2, <1>5, <1>6 DEF ListInv, Membership, Parted, Harmless
<1>14. \A c \in Channels :
          /\ First(m, c) => 2 \in 1..Len(link) /\ Second(link[2], c)
          /\ Second(m, c) => 2 \in 1..Len(link) /\ EndOf(link[2], c)
          /\ 2 \in 1..Len(link) /\ Second(link[2], c) => First(m, c)
  <2>1. 1 + 1 = 2 /\ 2 - 1 = 1 /\ 2 > 1
    OBVIOUS
  <2>2. QED
    BY <1>8, <2>1 DEF ListInv, Whole, m
<1>15. \A c \in channels : First(m, c) => ~users_receiving[c]
  <2> SUFFICES ASSUME NEW c \in channels, First(m, c), users_receiving[c] PROVE FALSE
    OBVIOUS
  <2>1. ~Stuck(c)
    BY <1>8 DEF Stuck, First, m
  <2>2. ~EndOf(m, c) /\ ~Second(m, c)
    BY LobbyAssumption DEF First, Second, EndOf
  <2>3. QED
    BY <2>1, <2>2 DEF ListInv, Receiving, m
<1>16. Receiving'
  <2> SUFFICES ASSUME NEW c \in channels, users_receiving'[c]
               PROVE  \/ Stuck(c)'
                      \/ link' # <<>> /\ Second(link'[1], c) /\ users'[c] = {Me}
                      \/ link' # <<>> /\ EndOf(link'[1], c)
    BY <1>5 DEF Receiving
  <2>1. c \in Channels
    BY <1>1
  <2>2. CASE First(m, c)
    <3>1. users'[c] = {Me}
      BY <1>7, <1>15, <2>2 DEF Heard, First
    <3>2. QED
      BY <1>10, <1>14, <2>1, <2>2, <3>1
  <2>3. CASE Second(m, c)
    BY <1>10, <1>14, <2>1, <2>3
  <2>4. CASE ~First(m, c) /\ ~Second(m, c)
    <3>1. ~(m.t = "NAMREPLAY" /\ m.c = c)
      BY <1>8, <2>4, ListMessages
    <3>2. users_receiving[c] /\ ~EndOf(m, c)
      BY <1>7, <3>1
    <3>3. Stuck(c)
      BY <2>4, <3>2 DEF ListInv, Receiving, m
    <3>4. ~Requested("JOIN", c)'
      BY <1>6, <2>1, <3>2, <3>3 DEF Stuck, Harmless
    <3>5. Stuck(c)'
      BY <1>9, <3>3, <3>4 DEF Stuck
    <3>6. QED
      BY <3>5
  <2>5. QED
    BY <2>2, <2>3, <2>4
<1>17. Follows'
  <2> SUFFICES ASSUME NEW c \in Channels, Live(c)'
               PROVE  Started(c)' /\ \A u \in Everybody : LastWord(c, u)'
    BY DEF Follows
  <2>1. Live(c) /\ c \in channels
    BY <1>2, <1>5, <1>6 DEF Live, Harmless
  <2>2. Started(c) /\ \A u \in Everybody : LastWord(c, u)
    BY <2>1 DEF ListInv, Follows
  <2>3. Started(c)'
    <3> SUFFICES ASSUME link' # <<>>, Second(link'[1], c) PROVE users_receiving'[c]
      BY DEF Started
    <3>1. First(m, c)
      BY <1>11, <1>14
    <3>2. QED
      BY <1>7, <2>1, <3>1 DEF First
  <2>4. ASSUME NEW u \in Everybody PROVE LastWord(c, u)'
    <3>1. CASE \E i \in 2..Len(link) : Concerns(link[i], c, u)
      BY <1>1, <1>2, <2>2, <3>1, TailWord
    <3>2. CASE ~ \E i \in 2..Len(link) : Concerns(link[i], c, u)
      <4>1. Second(m, c) => users_receiving[c]
        <5>1. \A i \in 2..Len(link) : link[i] \in Messages
          BY <1>1
        <5>2. \A i \in 2..Len(link) : ~First(link[i], c)
          BY <3>2, <5>1, ListMessages
        <5>3. QED
          BY <1>1, <2>2, <5>2 DEF Started, m
      <4>2. Second(m, c) => users[c] = {Me}
        <5> SUFFICES ASSUME Second(m, c) PROVE users[c] = {Me}
          OBVIOUS
        <5>1. ~Stuck(c)
          BY <1>8 DEF Stuck, Second, m
        <5>2. ~EndOf(m, c)
          BY DEF Second, EndOf
        <5>3. QED
          BY <2>1, <4>1, <5>1, <5>2 DEF ListInv, Receiving, m
      <4>3. u \in users'[c] <=> IF Concerns(m, c, u) THEN Puts(m, u) ELSE u \in users[c]
        <5>1. users'[c] = Heard(c, m)
          BY <1>7, <2>1
        <5>2. CASE First(m, c)
          BY <1>15, <2>1, <5>1, <5>2 DEF Heard, First, Concerns, Puts
        <5>3. CASE Second(m, c)
          BY <4>1, <4>2, <5>1, <5>3, LobbyAssumption DEF Heard, Second, Concerns, Puts
        <5>4. CASE ~First(m, c) /\ ~Second(m, c)
          <6>1. ~(m.t = "NAMREPLAY" /\ m.c = c)
            BY <1>8, <5>4, ListMessages
          <6>2. QED
            BY <5>1, <6>1 DEF Heard, Concerns, Puts
        <5>5. QED
          BY <5>2, <5>3, <5>4
      <4>4. QED
        BY <1>1, <1>2, <2>2, <4>3, TailWord DEF m
    <3>3. QED
      BY <3>1, <3>2
  <2>5. QED
    BY <2>3, <2>4
<1>18. QED
  BY <1>12, <1>13, <1>16, <1>17 DEF ListInv

----------------------------------------------------------------------------
(* What do_task passes over: a channel with users or with a list begun.    *)

\* A channel that do_task passes over, or will when it has read what is there.
Seen(c) ==
    \/ joined(c) \/ users_receiving[c]
    \/ \E i \in 1..Len(link) : link[i].t \in {"NAMREPLAY", "JOIN"} /\ link[i].c = c

\* The server refused the channel.
Refused(c) == err[c] \/ \E i \in 1..Len(link) : link[i] = About("FORBIDJOIN", c)

\* A channel that is seen although we are not in it will be joined, or is refused.
Known ==
    \A c \in channels \ carried :
        state_ # "none" /\ Seen(c) /\ members[c] = {} => Requested("JOIN", c) \/ Refused(c)

\* Before the login is accepted nothing is seen of any channel.
LoggedIn ==
    /\ state_ = "ready" \/ (\E i \in 1..Len(link) : link[i].t = "LOGIN") => registered
    /\ ~registered =>
          /\ \A c \in Channels : members[c] = {}
          /\ \A i \in 1..Len(link) : link[i].t \notin {"NAMREPLAY", "JOIN"}
          /\ state_ # "none" => \A c \in channels \ carried : ~Seen(c)

\* The first connection fills the map.
Filled ==
    \/ AppChannel \in channels
    \/ state_ = "none" /\ channels = {} /\ \A c \in Channels : ~users_receiving[c]

\* A part of a channel of the map is followed by a join.
Returning == \A c \in channels : Followed("PART", "JOIN", c)

\* The invariant of what do_task passes over.
SeenInv == Known /\ Returning /\ LoggedIn /\ Filled

\* At the start the map is empty, ...
LEMMA InitSeen == Init => SeenInv
<1> SUFFICES ASSUME Init PROVE SeenInv
  OBVIOUS
<1>1. link = <<>> /\ requests = <<>> /\ channels = {} /\ state_ = "none" /\ members = [c \in Channels |-> {}]
  BY DEF Init
<1>2. Known /\ Returning
  BY <1>1 DEF Known, Returning
<1>3. LoggedIn
  BY <1>1 DEF LoggedIn, Requested
<1>4. Filled
  BY DEF Init, Filled
<1>5. QED
  BY <1>2, <1>3, <1>4 DEF SeenInv

\* ... and the first connection fills it; later ones except what is seen.
LEMMA ConnectSeen ==
    ASSUME SeenInv, Types, Types', Inv, Connect
    PROVE  SeenInv'
<1>1. /\ channels' \subseteq Channels /\ channels \subseteq Channels /\ UserTypes /\ Offline
      /\ users_receiving \in [Channels -> BOOLEAN] /\ state_ = "none"
  BY TypesIs DEF TableTypes, Types, TypeOK, Connect
<1>2. link' = <<>> /\ requests' = <<>> /\ members' = [c \in Channels |-> {}] /\ state_' = "created"
      /\ users_receiving' = users_receiving
  BY <1>1 DEF Connect, Offline, server
<1>3. ASSUME NEW c \in channels', c \notin carried' PROVE ~Seen(c)'
  <2>1. CASE channels = {}
    <3>1. insert_users(Friend, Friends)
      BY <2>1 DEF Connect, FirstConnect
    <3>2. users[c] = {} /\ c # Friend /\ c \in Channels
      BY <1>1, <2>1, LobbyAssumption DEF Inv, ViewsAgree
    <3>3. users'[c] = {}
      BY <1>1, <3>1, <3>2 DEF insert_users, UserTypes
    <3>4. ~users_receiving[c]
      BY <2>1, <3>2, LobbyAssumption DEF SeenInv, Filled
    <3>5. QED
      BY <1>2, <3>3, <3>4 DEF Seen, joined
  <2>2. CASE channels # {}
    <3>1. channels' = channels /\ users' = users /\ carried' = {d \in channels : joined(d) \/ users_receiving[d]}
      BY <2>2 DEF Connect
    <3>2. ~joined(c) /\ ~users_receiving[c]
      BY <1>3, <3>1
    <3>3. QED
      BY <1>2, <3>1, <3>2 DEF Seen, joined
  <2>3. QED
    BY <2>1, <2>2
<1>4. Known'
  BY <1>3 DEF Known
<1>5. Returning' /\ LoggedIn'
  BY <1>2, <1>3 DEF Returning, Followed, LoggedIn, Requested
<1>6. Filled'
  <2>1. CASE channels = {}
    BY <2>1 DEF Connect, FirstConnect, Filled
  <2>2. CASE channels # {}
    BY <2>2 DEF Connect, Filled, SeenInv
  <2>3. QED
    BY <2>1, <2>2
<1>7. QED
  BY <1>4, <1>5, <1>6 DEF SeenInv

\* The login is sent, and the connection lost.
LEMMA OnConnectSeen ==
    ASSUME SeenInv, Types, OnConnect
    PROVE  SeenInv'
<1>1. /\ link = <<>> /\ requests = <<>> /\ members = [c \in Channels |-> {}] /\ state_ = "created"
      /\ channels \subseteq Channels
  BY TypesIs DEF TableTypes, Types, Offline, OnConnect
<1>2. /\ UNCHANGED <<channels, carried, users, users_receiving, err, members, registered>>
      /\ link' = <<About("NOTICE", Friend)>> /\ requests' = <<Request("LOGIN", Friend)>> /\ state_' = "consulting"
  BY DEF OnConnect, tables, history, server
<1>3. \A i \in 1..Len(link') : link'[i].t = "NOTICE"
  BY <1>2 DEF About
<1>4. \A i \in 1..Len(requests') : requests'[i].t = "LOGIN"
  BY <1>2 DEF Request
<1>5. \A c \in Channels : Seen(c)' => Seen(c)
  BY <1>2, <1>3 DEF Seen, joined
<1>6. \A c \in channels \ carried : Seen(c) => err[c]
  BY <1>1 DEF SeenInv, Known, Refused, Requested
<1>7. Known'
  BY <1>1, <1>2, <1>5, <1>6 DEF Known, Refused
<1>8. \A c \in Channels : ~Requested("PART", c)'
  BY <1>4 DEF Requested, Request
<1>9. Returning'
  BY <1>4 DEF Returning, Followed, Request
<1>10. LoggedIn'
  BY <1>1, <1>2, <1>3, <1>5, <1>8 DEF SeenInv, LoggedIn
<1>11. Filled'
  BY <1>1, <1>2 DEF SeenInv, Filled
<1>12. QED
  BY <1>7, <1>9, <1>10, <1>11 DEF SeenInv

\* Without a connection nothing is asked and nobody is a member.
LEMMA DisconnectedSeen ==
    ASSUME SeenInv, TimeOut \/ OnClose
    PROVE  SeenInv'
<1>1. Disconnected /\ UNCHANGED <<channels, users_receiving>>
  BY DEF TimeOut, OnClose, reset_connect, tables
<1>2. Known' /\ Returning' /\ LoggedIn'
  BY <1>1 DEF Disconnected, Known, Returning, Followed, LoggedIn, Requested
<1>3. Filled'
  BY <1>1 DEF SeenInv, Filled, Disconnected
<1>4. QED
  BY <1>2, <1>3 DEF SeenInv

\* A ping, the tasks, the end of a wait or nothing.
LEMMA OwnSeen ==
    ASSUME SeenInv, Types, Harmless, state_' = state_ \/ (registered /\ state_' = "ready" /\ state_ # "none"),
           UNCHANGED <<channels, carried, members, registered>>,
           Filled => Filled',
           \A c \in channels \ carried : (Seen(c)' => Seen(c)) /\ (Refused(c) => Refused(c)'),
           \A i \in 1..Len(link') : \E j \in 1..Len(link) : link'[i].t = link[j].t
    PROVE  SeenInv'
<1>1. channels \subseteq Channels
  BY TypesIs DEF TableTypes
<1>2. Known'
  BY <1>1 DEF SeenInv, Known, Harmless
<1>3. Returning'
  BY <1>1 DEF SeenInv, Returning, Harmless
<1>4. LoggedIn'
  BY <1>1 DEF SeenInv, LoggedIn, Harmless
<1>5. QED
  BY <1>2, <1>3, <1>4 DEF SeenInv

\* ... each in its turn.
LEMMA TasksSeen ==
    ASSUME SeenInv, Types, SendPing \/ RunTask \/ (\E k \in noresponse : Expire(k)) \/ UNCHANGED vars
    PROVE  SeenInv'
<1>1. Extends(requests')
  BY OwnExtends
<1>2. /\ UNCHANGED <<state_, channels, carried, users, users_receiving, err, link, members, registered>>
  BY DEF SendPing, RunTask, Expire, tables, history, server, vars
<1>3. \A c : (Seen(c)' => Seen(c)) /\ (Refused(c) => Refused(c)')
  BY <1>2 DEF Seen, joined, Refused
<1>4. Filled => Filled'
  BY <1>2 DEF Filled
<1>5. QED
  BY <1>1, <1>2, <1>3, <1>4, ExtendsHarmless, OwnSeen

\* A message is read: it shows nothing new, and a refusal is kept.
LEMMA ReadSeen ==
    ASSUME SeenInv, Types, Inv, mini_read
    PROVE  SeenInv'
<1>1. /\ channels \subseteq Channels /\ link \in Seq(Messages) /\ link # <<>>
      /\ err \in [Channels -> BOOLEAN] /\ users_receiving \in [Channels -> BOOLEAN]
  BY TypesIs DEF QueuesOK, TableTypes, mini_read
<1>2. link' = Tail(link) /\ members' = members /\ carried' = carried /\ registered' = registered
  BY DEF mini_read, server, history
<1>3. PICK W : GoodWork(W) /\ (Ready(Head(link), W) \/ Consulting(Head(link), W))
  BY ReadWork
<1> DEFINE m == link[1]
<1>4. m = Head(link) /\ m \in Messages /\ 1 \in 1..Len(link)
  BY <1>1
<1>5. Harmless
  BY <1>3, <1>4, ReadCommits, ExtendsHarmless DEF GoodWork
<1>6. \A i \in 1..Len(link') : link'[i] = link[i + 1] /\ i + 1 \in 1..Len(link)
  BY <1>1, <1>2
<1>7. \A i \in 1..Len(link) : i = 1 \/ (i - 1 \in 1..Len(link') /\ link'[i - 1] = link[i])
  BY <1>1, <1>2
<1> HIDE DEF m
<1>8. channels' = channels
  BY <1>3 DEF Ready, Consulting, process_login, process_ujoined, process_userlist, process_userlist_end,
     process_join, process_part, process_quit, process_forbid_join, process_online, Ignored, tables
<1>9. \A c \in Channels : err[c] => err'[c]
  BY <1>1, <1>3 DEF Ready, Consulting, process_login, process_ujoined, process_userlist, process_userlist_end,
     process_join, process_part, process_quit, process_forbid_join, process_online, Ignored, tables
<1>10. \A c \in channels : m = About("FORBIDJOIN", c) => err'[c]
  BY <1>1, <1>3, <1>4 DEF About, Ready, Consulting, process_forbid_join, Ignored
<1>11. \A c \in channels : Seen(c)' => Seen(c)
  <2> SUFFICES ASSUME NEW c \in channels, Seen(c)' PROVE Seen(c)
    OBVIOUS
  <2>1. /\ users'[c] = Heard(c, m)
        /\ users_receiving'[c] => (m.t = "NAMREPLAY" /\ m.c = c) \/ users_receiving[c]
    BY ReadHears DEF m
  <2>2. m.t \in {"NAMREPLAY", "JOIN"} /\ m.c = c => Seen(c)
    BY <1>4 DEF Seen, m
  <2>3. joined(c)' => Seen(c)
    BY <2>1, <2>2 DEF joined, Heard, Seen
  <2>4. users_receiving'[c] => Seen(c)
    BY <2>1, <2>2 DEF Seen
  <2>5. QED
    BY <1>6, <2>3, <2>4 DEF Seen
<1>12. \A c \in channels : Refused(c) => Refused(c)'
  BY <1>1, <1>7, <1>9, <1>10 DEF Refused, m
<1>13. state_' = state_ \/ (registered /\ state_' = "ready" /\ state_ # "none")
  <2>1. state_' = state_ \/ (m.t = "LOGIN" /\ state_ = "consulting" /\ state_' = "ready")
    BY <1>3, <1>4 DEF Ready, Consulting, process_login
  <2>2. m.t = "LOGIN" => registered
    BY <1>4 DEF SeenInv, LoggedIn, m
  <2>3. QED
    BY <2>1, <2>2
<1>14. Filled => Filled'
  BY <1>1, <1>3, <1>8 DEF Filled, Ready, Consulting, process_login, process_ujoined, process_userlist, process_userlist_end,
     process_join, process_part, process_quit, process_forbid_join, process_online, Ignored, tables
<1>15. \A i \in 1..Len(link') : \E j \in 1..Len(link) : link'[i].t = link[j].t
  BY <1>6
<1>16. QED
  BY <1>2, <1>5, <1>8, <1>11, <1>12, <1>13, <1>14, <1>15, OwnSeen

\* A click: what is joined is requested.
LEMMA JoinSeen ==
    ASSUME SeenInv, Types, Inv, NEW c \in Channels, JoinChannel(c)
    PROVE  SeenInv'
<1>1. requests \in Seq(Req) /\ channels \subseteq Channels
      /\ err \in [Channels -> BOOLEAN] /\ users_receiving \in [Channels -> BOOLEAN]
  BY TypesIs DEF QueuesOK, TableTypes
<1>2. /\ requests' = IF state_ = "created" THEN requests ELSE Append(requests, Request("JOIN", c))
      /\ state_ = "created" => link = <<>> /\ requests = <<>>
  BY ClickSends
<1>3. /\ c \notin channels /\ channels' = channels \union {c}
      /\ users_receiving' = [users_receiving EXCEPT ![c] = FALSE]
      /\ err' = [err EXCEPT ![c] = FALSE]
      /\ UNCHANGED <<state_, users, carried, link, members, registered>>
  BY DEF JoinChannel, server
<1>4. \A d \in Channels :
          /\ Requested("JOIN", d) => Requested("JOIN", d)'
          /\ Followed("PART", "JOIN", d) => Followed("PART", "JOIN", d)'
          /\ d = c => (state_ # "created" => Requested("JOIN", d)') /\ Followed("PART", "JOIN", d)'
  <2> TAKE d \in Channels
  <2>1. CASE state_ # "created"
    <3>1. Request("JOIN", c) \in Req /\ Request("JOIN", c) # Request("PART", d) /\ "PART" # "JOIN"
      BY DEF Request, Req
    <3>2. Requested("JOIN", d) => Requested("JOIN", d)'
      BY <1>1, <1>2, <2>1, <3>1, AppendRequest
    <3>3. QED
      BY <1>1, <1>2, <2>1, <3>1, <3>2, AppendRequest
  <2>2. CASE state_ = "created"
    BY <1>2, <2>2 DEF Requested, Followed
  <2>3. QED
    BY <2>1, <2>2
<1>5. \A d \in Channels : d # c => (Seen(d)' => Seen(d)) /\ (Refused(d) => Refused(d)')
  BY <1>1, <1>3 DEF Seen, joined, Refused
<1>6. Seen(c)' => \E i \in 1..Len(link) : link[i].t \in {"NAMREPLAY", "JOIN"}
  <2>1. users[c] = {}
    BY <1>3 DEF Inv, ViewsAgree
  <2>2. ~users_receiving'[c]
    BY <1>1, <1>3
  <2>3. QED
    BY <1>3, <2>1, <2>2 DEF Seen, joined
<1>7. state_ = "created" => ~Seen(c)'
  BY <1>2, <1>6
<1>8. Known'
  BY <1>1, <1>3, <1>4, <1>5, <1>7 DEF SeenInv, Known
<1>9. Returning'
  BY <1>1, <1>3, <1>4 DEF SeenInv, Returning
<1>10. LoggedIn'
  BY <1>1, <1>3, <1>5, <1>6 DEF SeenInv, LoggedIn
<1>11. Filled'
  BY <1>1, <1>3 DEF SeenInv, Filled, JoinChannel, Click
<1>12. QED
  BY <1>8, <1>9, <1>10, <1>11 DEF SeenInv

\* A part: the channel is out of the map.
LEMMA PartSeen ==
    ASSUME SeenInv, Types, NEW c \in Channels, PartChannel(c)
    PROVE  SeenInv'
<1>1. requests \in Seq(Req) /\ channels \subseteq Channels /\ UserTypes
  BY TypesIs DEF QueuesOK, TableTypes
<1>2. requests' = IF state_ = "created" THEN requests ELSE Append(requests, Request("PART", c))
  BY ClickSends
<1>3. /\ c \in channels /\ c # AppChannel
      /\ channels' = channels \ {c} /\ carried' = carried \ {c}
      /\ UNCHANGED <<state_, users_receiving, err, link, members, registered>>
  BY DEF PartChannel, server
<1>4. \A d \in Channels : d # c => users'[d] = users[d]
  BY <1>1 DEF PartChannel, erase_all_users, UserTypes
<1>5. \A d \in Channels : d # c =>
          /\ Requested("JOIN", d) => Requested("JOIN", d)'
          /\ Followed("PART", "JOIN", d) => Followed("PART", "JOIN", d)'
  <2> TAKE d \in Channels
  <2> HAVE d # c
  <2>1. CASE state_ # "created"
    <3>1. Request("PART", c) \in Req /\ Request("PART", c) # Request("PART", d)
      BY DEF Request, Req
    <3>2. QED
      BY <1>1, <1>2, <2>1, <3>1, AppendRequest
  <2>2. CASE state_ = "created"
    BY <1>2, <2>2 DEF Requested, Followed
  <2>3. QED
    BY <2>1, <2>2
<1>6. \A d \in Channels : d # c => (Seen(d)' => Seen(d)) /\ (Refused(d) => Refused(d)')
  BY <1>3, <1>4 DEF Seen, joined, Refused
<1>7. Known'
  BY <1>1, <1>3, <1>5, <1>6 DEF SeenInv, Known
<1>8. Returning'
  BY <1>1, <1>3, <1>5 DEF SeenInv, Returning
<1>9. LoggedIn' /\ Filled'
  BY <1>1, <1>3, <1>6 DEF SeenInv, LoggedIn, Filled
<1>10. QED
  BY <1>7, <1>8, <1>9 DEF SeenInv

\* An answer: a join is dropped before the login is accepted, where nothing is seen; it
\* makes us a member, or is refused; and a part is followed by a join.
LEMMA AnswerSeen ==
    ASSUME SeenInv, Types, NEW ms \in Seq(Messages), Answer(ms),
           \A i \in 1..Len(ms) : ms[i].t # "LOGIN",
           registered' = registered,
           ~registered => members' = members /\ \A i \in 1..Len(ms) : ms[i].t \notin {"NAMREPLAY", "JOIN"},
           \A c \in Channels :
              /\ Head(requests) = Request("JOIN", c) =>
                    ~registered \/ members'[c] # {} \/ \E i \in 1..Len(ms) : ms[i] = About("FORBIDJOIN", c)
              /\ members'[c] = {} => members[c] = {} \/ Head(requests) = Request("PART", c)
              /\ members'[c] = {} => \A i \in 1..Len(ms) : ~(ms[i].t \in {"NAMREPLAY", "JOIN"} /\ ms[i].c = c)
    PROVE  SeenInv'
<1> DEFINE n == Len(link)
<1>1. requests \in Seq(Req) /\ link \in Seq(Messages) /\ channels \subseteq Channels
  BY TypesIs DEF QueuesOK, TableTypes
<1>2. /\ requests # <<>> /\ requests' = Tail(requests) /\ link' = link \o ms
      /\ UNCHANGED <<state_, channels, users, users_receiving, err, carried>>
  BY DEF Answer, tables, history
<1>3. n \in Nat /\ Len(ms) \in Nat /\ Len(link') = n + Len(ms)
  BY <1>1, <1>2
<1>4. \A i \in 1..n : i \in 1..Len(link') /\ link'[i] = link[i]
  BY <1>1, <1>2, <1>3
<1>5. \A i \in 1..Len(ms) : n + i \in 1..Len(link') /\ link'[n + i] = ms[i]
  BY <1>1, <1>2, <1>3
<1>6. \A i \in 1..Len(link') : i \in 1..n \/ (i - n \in 1..Len(ms) /\ link'[i] = ms[i - n])
  BY <1>1, <1>2, <1>3
<1> HIDE DEF n
<1>7. \A c \in Channels : Seen(c)' /\ members'[c] = {} => Seen(c)
  <2> SUFFICES ASSUME NEW c \in Channels, Seen(c)', members'[c] = {} PROVE Seen(c)
    OBVIOUS
  <2>1. CASE joined(c)' \/ users_receiving'[c]
    BY <1>2, <2>1 DEF Seen, joined
  <2>2. ASSUME NEW i \in 1..Len(link'), link'[i].t \in {"NAMREPLAY", "JOIN"}, link'[i].c = c
        PROVE  i \in 1..n /\ link'[i] = link[i]
    BY <1>4, <1>6, <2>2
  <2>3. QED
    BY <2>1, <2>2 DEF Seen, n
<1>8. \A c \in Channels : Refused(c) \/ (\E i \in 1..Len(ms) : ms[i] = About("FORBIDJOIN", c)) => Refused(c)'
  <2> TAKE c \in Channels
  <2>1. CASE err[c]
    BY <1>2, <2>1 DEF Refused
  <2>2. ASSUME NEW i \in 1..Len(link), link[i] = About("FORBIDJOIN", c)
        PROVE  Refused(c)'
    <3>1. i \in 1..Len(link') /\ link'[i] = link[i]
      BY <1>4, <2>2 DEF n
    <3>2. QED
      BY <2>2, <3>1 DEF Refused, About
  <2>3. ASSUME NEW i \in 1..Len(ms), ms[i] = About("FORBIDJOIN", c)
        PROVE  Refused(c)'
    <3>1. n + i \in 1..Len(link') /\ link'[n + i] = ms[i]
      BY <1>5
    <3>2. QED
      BY <2>3, <3>1 DEF Refused, About
  <2>4. QED
    BY <2>1, <2>2, <2>3 DEF Refused
<1>9. \A c \in Channels :
          /\ Requested("PART", c)' => Requested("PART", c)
          /\ Head(requests) # Request("JOIN", c) /\ Requested("JOIN", c) => Requested("JOIN", c)'
          /\ Followed("PART", "JOIN", c) => Followed("PART", "JOIN", c)'
          /\ Followed("PART", "JOIN", c) /\ Head(requests) = Request("PART", c) => Requested("JOIN", c)'
  BY <1>1, <1>2, TailRequest
<1>10. Returning'
  BY <1>1, <1>2, <1>9 DEF SeenInv, Returning
<1>11. Known'
  <2> SUFFICES ASSUME NEW c \in channels \ carried, state_ # "none", Seen(c)', members'[c] = {}
               PROVE  Requested("JOIN", c)' \/ Refused(c)'
    BY <1>2 DEF Known
  <2>1. c \in Channels /\ Seen(c) /\ registered
    BY <1>1, <1>7 DEF SeenInv, LoggedIn
  <2>2. CASE Head(requests) = Request("PART", c)
    BY <1>9, <2>1, <2>2 DEF SeenInv, Returning
  <2>3. CASE Head(requests) # Request("PART", c)
    <3>1. Requested("JOIN", c) \/ Refused(c)
      BY <2>1, <2>3 DEF SeenInv, Known
    <3>2. Head(requests) = Request("JOIN", c) => Refused(c)'
      BY <1>8, <2>1
    <3>3. QED
      BY <1>8, <1>9, <2>1, <3>1, <3>2
  <2>4. QED
    BY <2>2, <2>3
<1>12. state_' = "ready" \/ (\E i \in 1..Len(link') : link'[i].t = "LOGIN") => registered'
  <2>1. \A i \in 1..Len(link') : link'[i].t = "LOGIN" => \E j \in 1..Len(link) : link[j].t = "LOGIN"
    BY <1>4, <1>6 DEF n
  <2>2. QED
    BY <1>2, <2>1 DEF SeenInv, LoggedIn
<1>13. ASSUME ~registered'
       PROVE  /\ \A c \in Channels : members'[c] = {}
              /\ \A i \in 1..Len(link') : link'[i].t \notin {"NAMREPLAY", "JOIN"}
              /\ state_' # "none" => \A c \in channels' \ carried' : ~Seen(c)'
  <2>1. \A c \in Channels : members'[c] = {}
    BY <1>13 DEF SeenInv, LoggedIn
  <2>2. /\ \A i \in 1..Len(ms) : ms[i].t \notin {"NAMREPLAY", "JOIN"}
        /\ \A i \in 1..n : link[i].t \notin {"NAMREPLAY", "JOIN"}
    BY <1>13 DEF SeenInv, LoggedIn, n
  <2>3. \A i \in 1..Len(link') : link'[i].t \notin {"NAMREPLAY", "JOIN"}
    BY <1>4, <1>6, <2>2
  <2>4. state_' # "none" => \A c \in channels' \ carried' : ~Seen(c)'
    BY <1>1, <1>2, <1>7, <1>13, <2>1 DEF SeenInv, LoggedIn
  <2>5. QED
    BY <2>1, <2>3, <2>4
<1>14. LoggedIn'
  BY <1>12, <1>13 DEF LoggedIn
<1>15. Filled'
  BY <1>2 DEF SeenInv, Filled
<1>16. QED
  BY <1>10, <1>11, <1>14, <1>15 DEF SeenInv

\* The server answers.
LEMMA ServeSeen ==
    ASSUME SeenInv, Types, Serve
    PROVE  SeenInv'
<1>1. members \in [Channels -> SUBSET (Nicks \union {Me})]
  BY TypesIs DEF ServerTypes
<1>2. ASSUME NEW c \in Channels, serve_join(c) PROVE SeenInv'
  <2>1. /\ Head(requests) = Request("JOIN", c) /\ registered' = registered
        /\ \A d \in Channels : Head(requests) = Request("JOIN", d) => d = c
    BY <1>2 DEF serve_join, Request
  <2>2. ASSUME NEW S \in SUBSET Nicks,
               Answer(<<About("UJOINED", c), Names(c, {Me}), Names(c, S), About("ENDOFNAMES", c)>>),
               members' = [members EXCEPT ![c] = S \union {Me}]
        PROVE  SeenInv'
    <3> DEFINE ms == <<About("UJOINED", c), Names(c, {Me}), Names(c, S), About("ENDOFNAMES", c)>>
    <3>1. /\ About("UJOINED", c) \in Messages /\ About("ENDOFNAMES", c) \in Messages
          /\ Names(c, {Me}) \in Messages /\ Names(c, S) \in Messages
      BY DEF About, Names, Messages
    <3>2. ms \in Seq(Messages) /\ Len(ms) = 4
      BY <3>1
    <3>3. \A i \in 1..Len(ms) : ms[i].t # "LOGIN" /\ ms[i].c = c
      <4>1. \A i \in 1..Len(ms) : i = 1 \/ i = 2 \/ i = 3 \/ i = 4
        BY <3>2
      <4>2. ms[1] = About("UJOINED", c) /\ ms[2] = Names(c, {Me}) /\ ms[3] = Names(c, S) /\ ms[4] = About("ENDOFNAMES", c)
        OBVIOUS
      <4>3. QED
        BY <4>1, <4>2 DEF About, Names
    <3>4. Answer(ms)
      BY <2>2
    <3> HIDE DEF ms
    <3>5. members'[c] # {} /\ \A d \in Channels : d # c => members'[d] = members[d]
      BY <1>1, <2>2
    <3>6. registered
      BY <1>2 DEF serve_join
    <3>7. QED
      BY <2>1, <3>2, <3>3, <3>4, <3>5, <3>6, AnswerSeen
  <2>3. CASE Answer(<<About("FORBIDJOIN", c)>>) /\ UNCHANGED members
    <3> DEFINE ms == <<About("FORBIDJOIN", c)>>
    <3>1. About("FORBIDJOIN", c) \in Messages /\ About("FORBIDJOIN", c).t = "FORBIDJOIN"
      BY DEF About, Messages
    <3>2. ms \in Seq(Messages) /\ \A i \in 1..Len(ms) : ms[i].t = "FORBIDJOIN"
      BY <3>1
    <3>3. \E i \in 1..Len(ms) : ms[i] = About("FORBIDJOIN", c)
      OBVIOUS
    <3>4. Answer(ms)
      BY <2>3
    <3> HIDE DEF ms
    <3>5. QED
      BY <2>1, <2>3, <3>2, <3>3, <3>4, AnswerSeen
  <2>4. QED
    BY <1>2, <2>2, <2>3 DEF serve_join
<1>3. ASSUME NEW c \in Channels, serve_part(c) PROVE SeenInv'
  <2> DEFINE ms == <<>>
  <2>1. /\ Answer(ms) /\ members' = [members EXCEPT ![c] = {}]
        /\ registered' = registered /\ Head(requests) = Request("PART", c)
    BY <1>3 DEF serve_part
  <2>2. \A d \in Channels : d # c => members'[d] = members[d]
    BY <1>1, <2>1
  <2>3. \A d \in Channels : Head(requests) # Request("JOIN", d)
    BY <2>1 DEF Request
  <2>4. registered \/ members' = members
    BY <1>1, <2>1 DEF SeenInv, LoggedIn
  <2>5. ms \in Seq(Messages) /\ \A i \in 1..Len(ms) : FALSE
    OBVIOUS
  <2> HIDE DEF ms
  <2>6. QED
    BY <2>1, <2>2, <2>3, <2>4, <2>5, AnswerSeen
<1>4. CASE serve_login
  <2> DEFINE ms == <<>>
  <2>1. Answer(ms) /\ UNCHANGED <<members, registered>>
    BY <1>4 DEF serve_login
  <2>2. \A d \in Channels : Head(requests) # Request("JOIN", d)
    BY <1>4 DEF serve_login, Request
  <2>3. ms \in Seq(Messages) /\ \A i \in 1..Len(ms) : FALSE
    OBVIOUS
  <2> HIDE DEF ms
  <2>4. QED
    BY <2>1, <2>2, <2>3, AnswerSeen
<1>5. CASE serve_nothing
  <2> DEFINE ms == <<>>
  <2>1. Answer(ms) /\ UNCHANGED <<members, registered>>
    BY <1>5 DEF serve_nothing, server
  <2>2. \A d \in Channels : Head(requests) = Request("JOIN", d) => ~registered \/ members'[d] # {}
    BY <1>5, <2>1 DEF serve_nothing, Request
  <2>3. ms \in Seq(Messages) /\ \A i \in 1..Len(ms) : FALSE
    OBVIOUS
  <2> HIDE DEF ms
  <2>4. QED
    BY <2>1, <2>2, <2>3, AnswerSeen
<1>6. CASE serve_other
  <2>1. PICK t \in {"ONLINE", "PONG"} : Answer(<<About(t, Friend)>>)
    BY <1>6 DEF serve_other
  <2> DEFINE ms == <<About(t, Friend)>>
  <2>2. About(t, Friend) \in Messages /\ About(t, Friend).t = t
    BY DEF About, Messages
  <2>3. ms \in Seq(Messages) /\ \A i \in 1..Len(ms) : ms[i].t = t
    BY <2>2
  <2>4. /\ Answer(ms) /\ UNCHANGED <<members, registered>>
        /\ \A d \in Channels : Head(requests) # Request("JOIN", d)
    BY <1>6, <2>1 DEF serve_other, server, Request
  <2> HIDE DEF ms
  <2>5. QED
    BY <2>3, <2>4, AnswerSeen
<1>7. QED
  BY <1>2, <1>3, <1>4, <1>5, <1>6 DEF Serve

\* The login is accepted.
LEMMA WelcomeSeen ==
    ASSUME SeenInv, Types, Welcome
    PROVE  SeenInv'
<1>1. link \in Seq(Messages) /\ channels \subseteq Channels
  BY TypesIs DEF QueuesOK, TableTypes
<1>2. /\ link' = Append(link, About("LOGIN", Friend)) /\ registered' = TRUE
      /\ UNCHANGED <<state_, channels, users, users_receiving, err, carried, requests, members>>
  BY DEF Welcome, Tell, tables, history
<1>3. About("LOGIN", Friend).t = "LOGIN"
  BY DEF About
<1>4. /\ \A i \in 1..Len(link) : i \in 1..Len(link') /\ link'[i] = link[i]
      /\ \A i \in 1..Len(link') : i \in 1..Len(link) \/ link'[i].t = "LOGIN"
  BY <1>1, <1>2, <1>3
<1>5. \A c : (Seen(c)' => Seen(c)) /\ (Refused(c) => Refused(c)')
  BY <1>2, <1>4 DEF Seen, joined, Refused
<1>6. Known'
  BY <1>1, <1>2, <1>5 DEF SeenInv, Known, Requested
<1>7. Returning'
  BY <1>2 DEF SeenInv, Returning, Followed
<1>8. LoggedIn' /\ Filled'
  BY <1>2 DEF SeenInv, LoggedIn, Filled
<1>9. QED
  BY <1>6, <1>7, <1>8 DEF SeenInv

\* We hear of others only where we are a member.
LEMMA OthersSeen ==
    ASSUME SeenInv, Membership, Types, Others
    PROVE  SeenInv'
<1>1. link \in Seq(Messages) /\ channels \subseteq Channels /\ members \in [Channels -> SUBSET (Nicks \union {Me})]
  BY TypesIs DEF QueuesOK, TableTypes, ServerTypes
<1>2. UNCHANGED <<state_, channels, users, users_receiving, err, carried, requests, registered>>
  BY DEF Others, tables, history
<1>3. PICK m : /\ link' = Append(link, m) /\ m.t \in {"JOIN", "PART", "QUIT"}
               /\ \A c \in Channels : m.t = "JOIN" /\ m.c = c => members'[c] # {}
  <2>1. ASSUME NEW u \in Nicks, NEW c \in Channels, OtherJoins(u, c)
        PROVE  /\ link' = Append(link, Event("JOIN", c, u)) /\ Event("JOIN", c, u).t = "JOIN"
               /\ Event("JOIN", c, u).c = c /\ members'[c] # {}
    BY <1>1, <2>1 DEF OtherJoins, Tell, Event
  <2>2. ASSUME NEW u \in Nicks, NEW c \in Channels, OtherParts(u, c)
        PROVE  link' = Append(link, Event("PART", c, u)) /\ Event("PART", c, u).t = "PART"
    BY <2>2 DEF OtherParts, Tell, Event
  <2>3. ASSUME NEW u \in Nicks, OtherQuits(u)
        PROVE  link' = Append(link, Event("QUIT", Friend, u)) /\ Event("QUIT", Friend, u).t = "QUIT"
    BY <2>3 DEF OtherQuits, Tell, Event
  <2>4. QED
    BY <2>1, <2>2, <2>3 DEF Others
<1>4. \A c \in Channels : members'[c] = {} => members[c] = {}
  BY <1>1, LobbyAssumption DEF Others, OtherJoins, OtherParts, OtherQuits, Membership
<1>5. registered
  BY DEF SeenInv, LoggedIn, Others, OtherJoins, OtherParts, OtherQuits
<1>6. /\ \A i \in 1..Len(link) : i \in 1..Len(link') /\ link'[i] = link[i]
      /\ \A i \in 1..Len(link') : i \in 1..Len(link) \/ link'[i] = m
  BY <1>1, <1>3
<1>7. \A c \in Channels : Seen(c)' /\ members'[c] = {} => Seen(c)
  BY <1>2, <1>3, <1>6 DEF Seen, joined
<1>8. \A c \in Channels : Refused(c) => Refused(c)'
  BY <1>2, <1>6 DEF Refused
<1>9. Known'
  BY <1>1, <1>2, <1>4, <1>7, <1>8 DEF SeenInv, Known, Requested
<1>10. Returning'
  BY <1>2 DEF SeenInv, Returning, Followed
<1>11. LoggedIn'
  BY <1>2, <1>5 DEF LoggedIn
<1>12. Filled'
  BY <1>2 DEF SeenInv, Filled
<1>13. QED
  BY <1>9, <1>10, <1>11, <1>12 DEF SeenInv

\* Every step keeps it.
LEMMA NextSeen ==
    ASSUME SeenInv, ListInv, Types, Types', Inv, [Next]_vars
    PROVE  SeenInv'
<1>1. CASE \E c \in Channels : JoinChannel(c) \/ PartChannel(c)
  BY <1>1, JoinSeen, PartSeen
<1>2. CASE ~ \E c \in Channels : JoinChannel(c) \/ PartChannel(c)
  BY <1>2, ConnectSeen, OnConnectSeen, DisconnectedSeen, TasksSeen, ReadSeen, ServeSeen, WelcomeSeen, OthersSeen DEF Next, ListInv
<1>3. QED
  BY <1>1, <1>2

----------------------------------------------------------------------------
(* The theorems.                                                           *)

\* Every step keeps the invariant of the lists.
LEMMA NextLists ==
    ASSUME ListInv, Types, Types', Inv, [Next]_vars
    PROVE  ListInv'
<1>1. CASE \E c \in Channels : JoinChannel(c) \/ PartChannel(c)
  BY <1>1, JoinLists, PartLists
<1>2. CASE ~ \E c \in Channels : JoinChannel(c) \/ PartChannel(c)
  BY <1>2, ConnectionLists, OwnLists, ReadLists, ServeLists, WelcomeLists, OthersLists DEF Next
<1>3. QED
  BY <1>1, <1>2

\* The invariant of the lists, in every state of every behaviour.
THEOREM ListsInvariant == Spec => []ListInv
<1>1. Init => ListInv
  BY InitLists
<1>2. ListInv /\ Types /\ Types' /\ Inv /\ [Next]_vars => ListInv'
  BY NextLists
<1>3. QED
  BY <1>1, <1>2, TypesInvariant, InvariantLobby, PTL DEF Spec

\* What do_task passes over it may pass over, in every state of every behaviour.
THEOREM SeenInvariant == Spec => []SeenInv
<1>1. Init => SeenInv
  BY InitSeen
<1>2. SeenInv /\ ListInv /\ Types /\ Types' /\ Inv /\ [Next]_vars => SeenInv'
  BY NextSeen
<1>3. QED
  BY <1>1, <1>2, ListsInvariant, TypesInvariant, InvariantLobby, PTL DEF Spec

\* insert_user is never asked to insert a user that is in the channel by a list of
\* names, whatever joins, parts, time-outs and half lists came before it.
THEOREM ListedOnceAlways == Spec => []ListedOnce
<1>1. ListInv /\ Types => ListedOnce
  <2> SUFFICES ASSUME ListInv, Types, NEW i \in 1..Len(link), i = 1, link[i].t = "NAMREPLAY",
                      link[i].c \in channels, users_receiving[link[i].c]
               PROVE  link[i].n \intersect users[link[i].c] = {}
    BY DEF ListedOnce
  <2> DEFINE c == link[1].c
  <2>1. c \in channels /\ users_receiving[c] /\ link # <<>> /\ link[1].t = "NAMREPLAY"
    OBVIOUS
  <2>2. ~Stuck(c) /\ ~EndOf(link[1], c)
    BY <2>1 DEF Stuck, EndOf
  <2>3. Second(link[1], c) /\ users[c] = {Me}
    BY <2>1, <2>2 DEF ListInv, Receiving
  <2>4. QED
    BY <2>3, LobbyAssumption DEF Second
<1>2. QED
  BY <1>1, ListsInvariant, TypesInvariant, PTL

\* When nothing is under way, the list of every channel that entered the session
\* clean is what the server says; do_task asks for it again, or we are in it, or it
\* was refused; and a channel that was parted is left: for any number of channels and
\* users and whatever order messages and clicks met in.
THEOREM ConvergedAlways == Spec => []Converged
<1>1. ListInv /\ SeenInv /\ Types => Converged
  <2> SUFFICES ASSUME ListInv, SeenInv, Types, Quiet, NEW c \in Channels
               PROVE  /\ c \in channels \ carried /\ Me \in members[c] => users[c] = members[c]
                      /\ c \in channels \ carried => WantsJoin(c) \/ Me \in members[c] \/ err[c]
                      /\ c \notin channels => Me \notin members[c]
    BY DEF Converged
  <2>1. link = <<>> /\ (\A t : ~Requested(t, c)) /\ state_ = "ready"
    BY DEF Quiet, Requested
  <2>2. c \notin channels => members[c] = {}
    BY <2>1 DEF ListInv, Parted
  <2>3. ASSUME c \in channels \ carried, Me \in members[c] PROVE users[c] = members[c]
    <3>1. Live(c)
      BY <2>1, <2>3 DEF Live
    <3>2. \A u \in Everybody : u \in users[c] <=> u \in members[c]
      BY <2>1, <3>1 DEF ListInv, Follows, LastWord
    <3>3. users[c] \subseteq Everybody /\ members[c] \subseteq Everybody
      BY TypesIs DEF TableTypes, UserTypes, ServerTypes, Everybody
    <3>4. QED
      BY <3>2, <3>3
  <2>4. ASSUME c \in channels \ carried, ~WantsJoin(c), ~err[c] PROVE Me \in members[c]
    <3>1. Seen(c)
      BY <2>4 DEF WantsJoin, Seen
    <3>2. ~Refused(c)
      BY <2>1, <2>4 DEF Refused
    <3>3. members[c] # {}
      BY <2>1, <2>4, <3>1, <3>2 DEF SeenInv, Known
    <3>4. QED
      BY <3>3 DEF ListInv, Membership
  <2>5. QED
    BY <2>2, <2>3, <2>4
<1>2. QED
  BY <1>1, ListsInvariant, SeenInvariant, TypesInvariant, PTL
=============================================================================
