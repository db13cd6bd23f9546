-------------------------- MODULE SignalingProofs --------------------------
(***************************************************************************)
(* What the receive buffer of the signaling connection promises, for every *)
(* size of prefix, chunk and alignment and any number of messages.         *)
(***************************************************************************)
EXTENDS Signaling, TLAPS

\* A connection that is being read, or was, exists; a client that is idle has no
\* open socket; the resolver is not waited for inside OnRead.
ConnectionInv ==
  /\ socket # "none" \/ pc # "idle" \/ boxes > 0 => connection \in Connections
  /\ state \in {"NOT_CONNECTED", "RESOLVING"} => socket \in {"none", "closed"}
  /\ state = "RESOLVING" => pc = "idle" /\ boxes = 0

\* A length is only known when the bytes that say it are in the buffer.
LengthShown == last_msg_should_size # None => recv_data_vsize >= Prefix

\* The buffer begins with the next message, whose length is known or not; the
\* loop is not about to drop it.
AtNext ==
  /\ handled \in 0 .. Messages
  /\ base = bound[connection][handled]
  /\ \/ last_msg_should_size = None
     \/ /\ handled < Messages
        /\ last_msg_should_size = bound[connection][handled + 1] - base - Prefix
  /\ pc \in {"idle", "first", "again"} => ~Complete(last_msg_should_size, recv_data_vsize)
  /\ pc = "handle" => Complete(last_msg_should_size, recv_data_vsize)

\* The buffer begins with the message handled last, which is whole and will be
\* dropped first.
AtLast ==
  /\ pc \in {"idle", "first", "again"}
  /\ handled \in 1 .. Messages
  /\ base = bound[connection][handled - 1]
  /\ last_msg_should_size = bound[connection][handled] - base - Prefix
  /\ Complete(last_msg_should_size, recv_data_vsize)

Framing ==
  /\ state = "RESOLVING" => recv_data_vsize = 0
  /\ connection \in Connections =>
       /\ base + recv_data_vsize = taken
       /\ arrived <= bound[connection][Messages]
       /\ AtNext \/ AtLast

IInv ==
  /\ TypeOK
  /\ ConnectionInv
  /\ LengthShown
  /\ BufferFits
  /\ CleanReconnects => Framing

\* Rounding up to a multiple.
LEMMA RoundUp ==
  ASSUME NEW x \in Nat, NEW a \in Nat \ {0}
  PROVE  /\ ((x + a - 1) \div a) * a \in Nat
         /\ ((x + a - 1) \div a) * a >= x
<1> DEFINE y == x + a - 1
           q == y \div a
<1>1. y \in Nat
  OBVIOUS
<1> HIDE DEF y
<1>2. q \in Nat /\ y % a \in 0 .. a - 1 /\ y = a * q + (y % a)
  BY <1>1, SMTT(30)
<1> HIDE DEF q
<1>3. q * a = a * q /\ q * a \in Nat
  BY <1>2, SMTT(30)
<1>4. q * a >= x
  BY <1>2, <1>3 DEF y
<1>5. QED
  BY <1>3, <1>4 DEF q, y

\* The ends of the messages of a connection.
LEMMA BoundsFacts ==
  ASSUME TypeOK, NEW c \in Connections
  PROVE  /\ \A k \in 0 .. Messages : bound[c][k] \in Nat
         /\ bound[c][0] = 0
         /\ \A k \in 1 .. Messages : bound[c][k] - bound[c][k-1] - Prefix \in 1 .. MaxSize
         /\ \A j, k \in 0 .. Messages : j < k => bound[c][j] < bound[c][k]
<1>1. bound[c] \in Bounds
  BY DEF TypeOK
<1>2. Messages * (Prefix + MaxSize) \in Nat
  BY SignalingAssumption
<1>3. QED
  BY <1>1, <1>2, SignalingAssumption DEF Bounds

\* What is read as a length is a number,
LEMMA LengthIsNat ==
  ASSUME TypeOK, connection \in Connections, NEW o \in Int, NEW l \in LengthAt(o)
  PROVE  l \in Nat
<1> DEFINE starts == {k \in 1 .. Messages : bound[connection][k-1] = o}
<1>1. CASE starts = {}
  BY <1>1, SignalingAssumption DEF LengthAt
<1>2. CASE starts # {}
  <2>1. PICK k \in starts : l = bound[connection][k] - o - Prefix
    BY <1>2 DEF LengthAt
  <2>2. bound[connection][k] - bound[connection][k-1] - Prefix \in 1 .. MaxSize
    BY BoundsFacts
  <2>3. QED
    BY <2>1, <2>2, SignalingAssumption
<1>3. QED
  BY <1>1, <1>2

\* ... and where a message begins, its own.
LEMMA LengthOfNext ==
  ASSUME TypeOK, connection \in Connections, NEW h \in 0 .. Messages, h < Messages
  PROVE  LengthAt(bound[connection][h]) = {bound[connection][h + 1] - bound[connection][h] - Prefix}
<1> DEFINE b == bound[connection]
           starts == {k \in 1 .. Messages : b[k-1] = b[h]}
<1>1. Messages \in Nat /\ h + 1 \in 1 .. Messages /\ (h + 1) - 1 = h
  BY SignalingAssumption
<1>2. \A j, k \in 0 .. Messages : j < k => b[j] < b[k]
  BY BoundsFacts
<1>3. \A k \in 0 .. Messages : b[k] \in Nat
  BY BoundsFacts
<1>4. \A k \in 1 .. Messages : k \in starts => k = h + 1
  <2> SUFFICES ASSUME NEW k \in 1 .. Messages, b[k-1] = b[h] PROVE k = h + 1
    OBVIOUS
  <2>1. k - 1 \in 0 .. Messages /\ ~(k - 1 < h) /\ ~(h < k - 1)
    BY <1>1, <1>2, <1>3
  <2>2. QED
    BY <1>1, <2>1
<1>5. starts = {h + 1}
  BY <1>1, <1>4
<1>6. QED
  BY <1>5 DEF LengthAt

\* At the start there is no connection.
LEMMA InitIInv == Init => IInv
<1> SUFFICES ASSUME Init PROVE IInv
  OBVIOUS
<1>1. connection \notin Connections
  BY DEF Init, Connections
<1>2. TypeOK
  <2>1. 0 \in 0 .. MaxConnections /\ 0 \in 0 .. MaxPosts /\ 0 \in 0 .. MaxBoxes /\ 0 \in 0 .. 0
    BY SignalingAssumption
  <2>2. base \in Int /\ recv_data_vsize \in Nat /\ recv_data_size \in Nat
        /\ last_msg_should_size \in Nat \cup {None} /\ handled \in Nat
        /\ arrived \in Nat /\ taken \in 0 .. arrived
    BY DEF Init
  <2>3. QED
    BY <2>1, <2>2 DEF Init, TypeOK
<1>3. QED
  BY <1>1, <1>2 DEF Init, IInv, ConnectionInv, LengthShown, BufferFits, Framing

\* A new connection begins with an empty buffer, if reconnects are clean.
LEMMA DoConnectKeeps ==
  ASSUME IInv, DoConnect, pc = "idle", boxes = 0, CleanReconnects => recv_data_vsize = 0,
         UNCHANGED <<bound, close_posts, recv_data_vsize, recv_data_size,
                     last_msg_should_size, pc, boxes>>
  PROVE  IInv'
<1> USE SignalingAssumption DEF IInv
<1>1. connection' \in Connections /\ connection' \in 0 .. MaxConnections
  BY DEF DoConnect, TypeOK, Connections
<1>2. TypeOK'
  <2>1. base' \in Int /\ 0 \in Nat /\ 0 \in 0 .. 0
    BY DEF DoConnect, TypeOK
  <2>2. QED
    BY <1>1, <2>1 DEF DoConnect, TypeOK
<1>3. ConnectionInv'
  BY <1>1 DEF DoConnect, ConnectionInv
<1>4. LengthShown' /\ BufferFits'
  BY DEF LengthShown, BufferFits
<1>5. CleanReconnects => Framing'
  <2> SUFFICES ASSUME CleanReconnects PROVE Framing'
    OBVIOUS
  <2>1. recv_data_vsize = 0 /\ last_msg_should_size = None
    BY DEF LengthShown
  <2>2. bound'[connection'][0] = 0 /\ bound'[connection'][Messages] \in Nat
    BY <1>1, BoundsFacts
  <2>3. base' = 0 /\ taken' = 0 /\ arrived' = 0 /\ handled' = 0 /\ state' # "RESOLVING"
    BY <2>1 DEF DoConnect
  <2>4. AtNext'
    BY <2>1, <2>2, <2>3 DEF AtNext, Complete
  <2>5. QED
    BY <2>1, <2>2, <2>3, <2>4 DEF Framing
<1>6. QED
  BY <1>2, <1>3, <1>4, <1>5

\* Connecting, at once or when the name is resolved.
LEMMA ConnectKeeps ==
  ASSUME IInv, Connect \/ OnResolveResult
  PROVE  IInv'
<1>1. CASE Connect /\ DoConnect
  BY <1>1, DoConnectKeeps DEF Connect
<1>2. CASE OnResolveResult /\ DoConnect
  <2>1. boxes = 0 /\ (CleanReconnects => recv_data_vsize = 0)
    BY <1>2 DEF OnResolveResult, IInv, ConnectionInv, Framing
  <2>2. QED
    BY <1>2, <2>1, DoConnectKeeps DEF OnResolveResult
<1>3. CASE /\ state' \in {"RESOLVING", "NOT_CONNECTED"}
           /\ state' = "RESOLVING" => Connect
           /\ state \in {"RESOLVING", "NOT_CONNECTED"}
           /\ UNCHANGED <<bound, connection, socket, close_posts, arrived, bufVars, readVars>>
  <2> USE <1>3 DEF IInv, bufVars, readVars
  <2>1. TypeOK'
    BY DEF TypeOK
  <2>2. ConnectionInv'
    BY DEF ConnectionInv, Connect
  <2>3. LengthShown' /\ BufferFits'
    BY DEF LengthShown, BufferFits
  <2>4. CleanReconnects => Framing'
    BY DEF Framing, Connect, AtNext, AtLast
  <2>5. QED
    BY <2>1, <2>2, <2>3, <2>4
<1>4. QED
  BY <1>1, <1>2, <1>3 DEF Connect, OnResolveResult, bufVars, readVars

\* What happens to the socket does not touch the buffer.
LEMMA SocketKeeps ==
  ASSUME IInv, OnConnect \/ OnClose \/ OnMessage \/ Leave
  PROVE  IInv'
<1>1. UNCHANGED <<bound, connection, arrived, bufVars, readVars>>
  BY DEF OnConnect, OnClose, OnMessage, Leave, netVars, callVars, bufVars, readVars
<1> USE <1>1 DEF IInv, bufVars, readVars
<1>2. TypeOK'
  <2>1. state' \in {"NOT_CONNECTED", "RESOLVING", "SIGNING_IN", "CONNECTED"}
        /\ socket' \in {"none", "connecting", "open", "closed"}
        /\ close_posts' \in 0 .. MaxPosts
    BY SignalingAssumption DEF TypeOK, OnConnect, OnClose, OnMessage, Leave, Close
  <2>2. QED
    BY <2>1 DEF TypeOK
<1>3. ConnectionInv'
  BY DEF ConnectionInv, OnConnect, OnClose, OnMessage, Leave, Close
<1>4. LengthShown' /\ BufferFits'
  BY DEF LengthShown, BufferFits
<1>5. state' = "RESOLVING" => state = "RESOLVING"
  BY DEF OnConnect, OnClose, OnMessage, Leave, Close
<1>6. CleanReconnects => Framing'
  BY <1>5 DEF Framing, AtNext, AtLast
<1>7. QED
  BY <1>2, <1>3, <1>4, <1>6

\* More bytes of the stream.
LEMMA ArriveKeeps ==
  ASSUME IInv, Arrive
  PROVE  IInv'
<1>1. UNCHANGED <<bound, callVars, bufVars, readVars>> /\ connection \in Connections
  BY DEF Arrive, IInv, ConnectionInv
<1> USE <1>1 DEF IInv, callVars, bufVars, readVars
<1>2. arrived \in Nat /\ taken \in 0 .. arrived /\ bound[connection][Messages] \in Nat
      /\ arrived' \in arrived + 1 .. bound[connection][Messages]
  BY BoundsFacts, SignalingAssumption DEF TypeOK, Arrive
<1>3. arrived' \in Nat /\ taken \in 0 .. arrived' /\ arrived' <= bound[connection][Messages]
  BY <1>2
<1>4. TypeOK'
  BY <1>3 DEF TypeOK
<1>5. ConnectionInv' /\ LengthShown' /\ BufferFits'
  BY DEF ConnectionInv, LengthShown, BufferFits
<1>6. CleanReconnects => Framing'
  BY <1>3 DEF Framing, AtNext, AtLast
<1>7. QED
  BY <1>4, <1>5, <1>6

\* A length is a number that the buffer shows,
LEMMA LengthsFacts ==
  ASSUME TypeOK, connection \in Connections, NEW o \in Int, NEW v \in Nat,
         NEW known \in Nat \cup {None}, NEW l \in Lengths(known, o, v)
  PROVE  /\ l \in Nat \cup {None}
         /\ l # None => known # None \/ v >= Prefix
<1>1. CASE known = None /\ v >= Prefix
  BY <1>1, LengthIsNat DEF Lengths
<1>2. CASE ~(known = None /\ v >= Prefix)
  BY <1>2 DEF Lengths
<1>3. QED
  BY <1>1, <1>2

\* ... and, where the buffer begins with the next message, its length.
LEMMA LengthsOfNext ==
  ASSUME TypeOK, connection \in Connections,
         NEW o, NEW v \in Nat, NEW known \in Nat \cup {None},
         NEW l \in Lengths(known, o, v), NEW h \in 0 .. Messages,
         o = bound[connection][h], o + v <= bound[connection][Messages],
         known = None \/ (h < Messages /\ known = bound[connection][h + 1] - o - Prefix)
  PROVE  l = None \/ (h < Messages /\ l = bound[connection][h + 1] - o - Prefix)
<1> USE SignalingAssumption
<1>1. CASE known = None /\ v >= Prefix
  <2>1. o \in Nat
    BY BoundsFacts
  <2>2. h < Messages
    BY <1>1, <2>1
  <2>3. QED
    BY <1>1, <2>2, LengthOfNext DEF Lengths
<1>2. CASE ~(known = None /\ v >= Prefix)
  BY <1>2 DEF Lengths
<1>3. QED
  BY <1>1, <1>2

\* The socket is readable.
LEMMA OnReadKeeps ==
  ASSUME IInv, OnRead
  PROVE  IInv'
<1>1. UNCHANGED <<netVars, callVars, bufVars, boxes, handled>>
      /\ pc = "idle" /\ pc' = "first" /\ bailed' = FALSE /\ socket = "open"
  BY DEF OnRead
<1> USE <1>1 DEF IInv, netVars, callVars, bufVars
<1>2. TypeOK'
  BY DEF TypeOK
<1>3. ConnectionInv' /\ LengthShown' /\ BufferFits'
  BY DEF ConnectionInv, LengthShown, BufferFits
<1>4. CleanReconnects => Framing'
  BY DEF Framing, AtNext, AtLast, Complete
<1>5. QED
  BY <1>2, <1>3, <1>4

\* The message handled last is dropped, and the next one may be known.
LEMMA DiscardKeeps ==
  ASSUME IInv, Discard
  PROVE  IInv'
<1> DEFINE done == Complete(last_msg_should_size, recv_data_vsize)
           gone == IF done THEN Prefix + last_msg_should_size ELSE 0
           left == recv_data_vsize - gone
           kept == IF done THEN None ELSE last_msg_should_size
           next == last_msg_should_size'
<1>1. /\ UNCHANGED <<netVars, callVars, taken, recv_data_size, boxes, bailed, handled>>
      /\ pc \in {"first", "again"}
      /\ base' = base + gone
      /\ recv_data_vsize' = left
      /\ \/ pc' = "recv" /\ next = kept
         \/ /\ next \in Lengths(kept, base', left)
            /\ pc' = CASE left = 0 -> "idle"
                       [] kept = None /\ Complete(next, left) -> "handle"
                       [] OTHER -> "recv"
  BY DEF Discard
<1>2. TypeOK /\ connection \in Connections /\ LengthShown /\ BufferFits
  BY <1>1 DEF IInv, ConnectionInv
<1>3. left \in Nat /\ left <= recv_data_vsize /\ gone \in Nat /\ base' \in Int
      /\ kept \in Nat \cup {None}
  <2>1. CASE done
    BY <1>1, <1>2, <2>1, SignalingAssumption DEF TypeOK, Complete
  <2>2. CASE ~done
    BY <1>1, <1>2, <2>2 DEF TypeOK
  <2>3. QED
    BY <2>1, <2>2
<1>4. next \in Nat \cup {None} /\ (next # None => kept # None \/ left >= Prefix)
  BY <1>1, <1>2, <1>3, LengthsFacts
<1>5. kept # None => left = recv_data_vsize /\ kept = last_msg_should_size
  BY <1>2 DEF TypeOK
<1>6. pc' \in {"idle", "recv", "handle"}
  BY <1>1
<1> HIDE DEF left, kept
<1>7. TypeOK'
  BY <1>1, <1>2, <1>3, <1>4, <1>6 DEF TypeOK, netVars, callVars
<1>8. ConnectionInv'
  BY <1>1, <1>2 DEF IInv, ConnectionInv, netVars, callVars
<1>9. LengthShown' /\ BufferFits'
  BY <1>1, <1>2, <1>3, <1>4, <1>5 DEF LengthShown, BufferFits, TypeOK
<1>10. CleanReconnects => Framing'
  <2> SUFFICES ASSUME CleanReconnects PROVE Framing'
    OBVIOUS
  <2>1. Framing /\ base + recv_data_vsize = taken /\ taken <= bound[connection][Messages]
        /\ bound[connection][Messages] \in Nat
    BY <1>2, BoundsFacts, SignalingAssumption DEF IInv, Framing, TypeOK
  <2>2. base' + left = taken
    BY <1>1, <1>2, <1>3, <2>1 DEF left, TypeOK
  <2>3. /\ base' = bound[connection][handled] /\ handled \in 0 .. Messages
        /\ \/ kept = None
           \/ handled < Messages /\ kept = bound[connection][handled + 1] - base' - Prefix
    <3>1. CASE AtNext
      BY <1>1, <1>2, <3>1 DEF AtNext, TypeOK, kept
    <3>2. CASE AtLast
      <4>1. handled \in 1 .. Messages /\ handled \in 0 .. Messages /\ handled - 1 \in 0 .. Messages
        BY <3>2, SignalingAssumption DEF AtLast
      <4>2. bound[connection][handled] \in Nat /\ bound[connection][handled - 1] \in Nat
        BY <1>2, <4>1, BoundsFacts
      <4>3. QED
        BY <1>1, <3>2, <4>1, <4>2, SignalingAssumption DEF AtLast, kept
    <3>3. QED
      BY <1>2, <2>1, <3>1, <3>2 DEF Framing
  <2>4. \/ next = None
        \/ handled < Messages /\ next = bound[connection][handled + 1] - base' - Prefix
    <3>1. base' + left <= bound[connection][Messages]
      BY <2>1, <2>2
    <3>2. CASE next = kept
      BY <2>3, <3>2
    <3>3. CASE next \in Lengths(kept, base', left)
      BY <1>2, <1>3, <2>3, <3>1, <3>3, LengthsOfNext
    <3>4. QED
      BY <1>1, <3>2, <3>3
  <2>5. (pc' = "idle" => ~Complete(next, left)) /\ (pc' = "handle" => Complete(next, left))
    BY <1>1, <1>3, <1>4, SignalingAssumption DEF Complete
  <2>6. AtNext'
    BY <1>1, <1>6, <2>3, <2>4, <2>5 DEF AtNext, netVars, callVars, Complete
  <2>7. QED
    BY <1>1, <1>2, <2>1, <2>2, <2>6 DEF Framing, netVars, callVars, IInv, ConnectionInv
<1>11. QED
  BY <1>7, <1>8, <1>9, <1>10 DEF IInv

\* A turn of the loop: what Recv is given room for is there.
LEMMA RecvKeeps ==
  ASSUME IInv, Recv
  PROVE  IInv'
<1> DEFINE waiting == IF socket = "open" THEN arrived - taken ELSE 0
           got     == IF waiting < Chunk THEN waiting ELSE Chunk
           v       == recv_data_vsize + got
           next    == last_msg_should_size'
<1>1. /\ UNCHANGED <<netVars, callVars, base, boxes, bailed, handled>>
      /\ pc = "recv"
      /\ recv_data_size' = resize_recv_data(recv_data_size)
      /\ taken' = taken + got
      /\ recv_data_vsize' = v
      /\ next = last_msg_should_size \/ next \in Lengths(last_msg_should_size, base, v)
      /\ pc' = CASE got = Chunk -> "recv"
                 [] got # Chunk /\ Complete(next, v) -> "handle"
                 [] OTHER -> "idle"
  BY DEF Recv
<1>2. TypeOK /\ connection \in Connections /\ LengthShown /\ BufferFits
  BY <1>1 DEF IInv, ConnectionInv
<1>3. got \in 0 .. Chunk /\ got <= arrived - taken /\ Chunk \in Nat
  BY <1>2, SignalingAssumption DEF TypeOK
<1> HIDE DEF got
<1>4. v \in Nat /\ v >= recv_data_vsize /\ v <= recv_data_vsize + Chunk
      /\ taken' \in 0 .. arrived
  BY <1>1, <1>2, <1>3 DEF TypeOK
<1>5. recv_data_size' \in Nat /\ v <= recv_data_size'
  <2> DEFINE want == ((recv_data_size + Chunk + Align - 1) \div Align) * Align
  <2>1. recv_data_size + Chunk \in Nat /\ recv_data_size \in Nat /\ recv_data_vsize \in Nat
    BY <1>2, <1>3 DEF TypeOK
  <2>2. want \in Nat /\ want >= recv_data_size + Chunk
    BY <2>1, RoundUp, SignalingAssumption
  <2>3. resize_recv_data(recv_data_size) =
          IF recv_data_size < recv_data_vsize + Chunk /\ want > recv_data_size
            THEN want ELSE recv_data_size
    BY DEF resize_recv_data
  <2> HIDE DEF want
  <2>4. want > recv_data_size
    BY <1>3, <2>1, <2>2, SignalingAssumption
  <2>5. QED
    BY <1>1, <1>2, <1>3, <1>4, <2>1, <2>2, <2>3, <2>4 DEF BufferFits
<1> HIDE DEF v
<1>6. next \in Nat \cup {None} /\ (next # None => last_msg_should_size # None \/ v >= Prefix)
  BY <1>1, <1>2, <1>4, LengthsFacts DEF TypeOK
<1>7. pc' \in {"idle", "recv", "handle"}
  BY <1>1
<1>8. TypeOK'
  BY <1>1, <1>2, <1>4, <1>5, <1>6, <1>7 DEF TypeOK, netVars, callVars
<1>9. ConnectionInv'
  BY <1>1, <1>2 DEF IInv, ConnectionInv, netVars, callVars
<1>10. LengthShown' /\ BufferFits'
  BY <1>1, <1>2, <1>4, <1>5, <1>6, SignalingAssumption DEF LengthShown, BufferFits, TypeOK
<1>11. CleanReconnects => Framing'
  <2> SUFFICES ASSUME CleanReconnects PROVE Framing'
    OBVIOUS
  <2>1. Framing /\ base + recv_data_vsize = taken /\ arrived <= bound[connection][Messages]
        /\ bound[connection][Messages] \in Nat
    BY <1>2, BoundsFacts, SignalingAssumption DEF IInv, Framing
  <2>2. base + v = taken' /\ base + v <= bound[connection][Messages]
    BY <1>1, <1>2, <1>3, <1>4, <2>1 DEF v, TypeOK
  <2>3. AtNext
    BY <1>1, <1>2, <2>1 DEF Framing, AtLast
  <2>4. \/ next = None
        \/ handled < Messages /\ next = bound[connection][handled + 1] - base - Prefix
    <3>1. CASE next = last_msg_should_size
      BY <2>3, <3>1 DEF AtNext
    <3>2. CASE next \in Lengths(last_msg_should_size, base, v)
      BY <1>2, <1>4, <2>2, <2>3, <3>2, LengthsOfNext DEF AtNext, TypeOK
    <3>3. QED
      BY <1>1, <3>1, <3>2
  <2>5. (pc' = "idle" => ~Complete(next, v)) /\ (pc' = "handle" => Complete(next, v))
    BY <1>1
  <2>6. AtNext'
    BY <1>1, <1>7, <2>3, <2>4, <2>5 DEF AtNext, netVars, callVars, Complete
  <2>7. QED
    BY <1>1, <2>1, <2>2, <2>6 DEF Framing, netVars, callVars, IInv, ConnectionInv
<1>12. QED
  BY <1>8, <1>9, <1>10, <1>11 DEF IInv

\* The message at the beginning of the buffer is handled: it is now the last one.
LEMMA HandledIsLast ==
  ASSUME IInv, Handle, UNCHANGED <<netVars, connection, bufVars>>,
         pc' \in {"idle", "again"}, state' # "RESOLVING"
  PROVE  CleanReconnects => Framing'
<1> SUFFICES ASSUME CleanReconnects PROVE Framing'
  OBVIOUS
<1> USE SignalingAssumption
<1>1. TypeOK /\ connection \in Connections /\ pc = "handle" /\ handled' = handled + 1
  BY DEF IInv, ConnectionInv, Handle
<1>2. Framing /\ AtNext
  BY <1>1 DEF IInv, Framing, AtLast
<1>3. last_msg_should_size # None /\ handled < Messages
  BY <1>1, <1>2 DEF AtNext, Complete
<1>4. handled' \in 1 .. Messages /\ handled' - 1 = handled
  BY <1>1, <1>2, <1>3 DEF AtNext
<1>5. AtLast'
  BY <1>1, <1>2, <1>3, <1>4 DEF AtLast, AtNext, netVars, bufVars, Complete
<1>6. QED
  BY <1>1, <1>2, <1>5 DEF Framing, netVars, bufVars

\* The four ends of a handler.
LEMMA HandleKeeps ==
  ASSUME IInv, HandleAndGoOn \/ HandleAndReturn \/ HandleStop \/ HandleRejection
  PROVE  IInv'
<1>1. /\ Handle /\ UNCHANGED <<netVars, connection, close_posts, bufVars>>
      /\ pc' \in {"idle", "again"}
      /\ state' \in {"SIGNING_IN", "CONNECTED", "NOT_CONNECTED"} \/ state' = state
      /\ state' = "NOT_CONNECTED" /\ state # "NOT_CONNECTED" => socket' \in {"none", "closed"}
      /\ UNCHANGED socket \/ socket' \in {"none", "closed"}
      /\ bailed' \in {TRUE, bailed}
      /\ UNCHANGED boxes \/ (boxes < MaxBoxes /\ boxes' = boxes + 1)
  BY DEF HandleAndGoOn, HandleAndReturn, HandleStop, HandleRejection, Close, callVars
<1>2. TypeOK /\ connection \in Connections /\ pc = "handle" /\ handled' = handled + 1
      /\ state # "RESOLVING"
  BY <1>1 DEF IInv, ConnectionInv, Handle
<1>3. TypeOK'
  <2>1. boxes' \in 0 .. MaxBoxes
    BY <1>1, <1>2, SignalingAssumption DEF TypeOK
  <2>2. bailed' \in BOOLEAN
    <3>1. bailed \in BOOLEAN /\ (bailed' = TRUE \/ bailed' = bailed)
      BY <1>1, <1>2 DEF TypeOK
    <3>2. QED
      BY <3>1, Zenon
  <2>3. QED
    BY <1>1, <1>2, <2>1, <2>2 DEF TypeOK, netVars, bufVars
<1>4. ConnectionInv'
  BY <1>1, <1>2 DEF IInv, ConnectionInv
<1>5. LengthShown' /\ BufferFits'
  BY <1>1 DEF IInv, LengthShown, BufferFits, bufVars
<1>6. CleanReconnects => Framing'
  BY <1>1, <1>2, HandledIsLast
<1>7. QED
  BY <1>3, <1>4, <1>5, <1>6 DEF IInv

\* The loop under a message box goes on.
LEMMA BoxClosedKeeps ==
  ASSUME IInv, BoxClosed
  PROVE  IInv'
<1>1. UNCHANGED <<netVars, connection, state, socket, bufVars, bailed, handled>>
      /\ pc = "idle" /\ pc' = "again" /\ boxes > 0
      /\ boxes' = boxes - 1 /\ close_posts < MaxPosts /\ close_posts' = close_posts + 1
  BY DEF BoxClosed
<1> USE <1>1 DEF IInv, netVars, bufVars
<1>2. connection \in Connections /\ state # "RESOLVING"
  BY SignalingAssumption DEF ConnectionInv, TypeOK
<1>3. TypeOK'
  <2>1. boxes' \in 0 .. MaxBoxes /\ close_posts' \in 0 .. MaxPosts
    BY SignalingAssumption DEF TypeOK
  <2>2. QED
    BY <2>1 DEF TypeOK
<1>4. ConnectionInv' /\ LengthShown' /\ BufferFits'
  BY <1>2 DEF ConnectionInv, LengthShown, BufferFits
<1>5. CleanReconnects => Framing'
  BY <1>2 DEF Framing, AtNext, AtLast, Complete
<1>6. QED
  BY <1>3, <1>4, <1>5

\* Every step keeps the invariant.
LEMMA NextKeeps ==
  ASSUME IInv, [Next]_vars
  PROVE  IInv'
<1>1. CASE UNCHANGED vars
  <2> USE <1>1 DEF IInv, vars, netVars, callVars, bufVars, readVars
  <2>1. TypeOK'
    BY DEF TypeOK
  <2>2. ConnectionInv' /\ LengthShown' /\ BufferFits'
    BY DEF ConnectionInv, LengthShown, BufferFits
  <2>3. CleanReconnects => Framing'
    BY DEF Framing, AtNext, AtLast
  <2>4. QED
    BY <2>1, <2>2, <2>3
<1>2. QED
  BY <1>1, ConnectKeeps, SocketKeeps, ArriveKeeps, OnReadKeeps, DiscardKeeps, RecvKeeps,
     HandleKeeps, BoxClosedKeeps DEF Next, Reading

\* The strengthening, in every state of every behaviour.
THEOREM InvariantSignaling == Spec => []IInv
<1>1. Init => IInv
  BY InitIInv
<1>2. IInv /\ [Next]_vars => IInv'
  BY NextKeeps
<1>3. QED
  BY <1>1, <1>2, PTL DEF Spec

\* trtc_client::recv_data_ and what surrounds it keep their types.
THEOREM TypesSignaling == Spec => []TypeOK
<1>1. IInv => TypeOK
  BY DEF IInv
<1>2. QED
  BY <1>1, InvariantSignaling, PTL

\* read_2_buffer never receives past the end of recv_data_, whatever the chunk,
\* the alignment and the lengths the server announces, and also when a connection
\* begins with what the last one left.
THEOREM BufferFitsAlways == Spec => []BufferFits
<1>1. IInv => BufferFits
  BY DEF IInv
<1>2. QED
  BY <1>1, InvariantSignaling, PTL

\* If every connection begins with an empty buffer, read_2_buffer gives OnRead the
\* messages of the stream one by one and whole, however the network cuts the
\* stream and however the loop is re-entered.
THEOREM MessagesIntactAlways == CleanReconnects => (Spec => []MessagesIntact)
<1> SUFFICES ASSUME CleanReconnects PROVE Spec => []MessagesIntact
  OBVIOUS
<1>1. IInv => MessagesIntact
  <2> SUFFICES ASSUME IInv, pc = "handle" PROVE MessagesIntact
    BY DEF MessagesIntact
  <2>1. TypeOK /\ connection \in Connections /\ Framing
    BY DEF IInv, ConnectionInv
  <2>2. AtNext /\ last_msg_should_size # None
    BY <2>1 DEF Framing, AtNext, AtLast, Complete
  <2>3. handled \in 0 .. Messages /\ handled < Messages /\ handled + 1 \in 0 .. Messages
    BY <2>2, SignalingAssumption DEF AtNext
  <2>4. bound[connection][handled] \in Nat /\ bound[connection][handled + 1] \in Nat
    BY <2>1, <2>3, BoundsFacts
  <2>5. QED
    BY <2>2, <2>3, <2>4, SignalingAssumption DEF AtNext, MessagesIntact, NextBegins, NextEnds
<1>2. QED
  BY <1>1, InvariantSignaling, PTL
=============================================================================
