----------------------------- MODULE Signaling -----------------------------
(***************************************************************************)
(* The signaling connection of trtc_client (librose/rtc_client.cpp) and    *)
(* the loop of the chat that reads it (librose/gui/dialogs/chat.cpp).      *)
(*                                                                         *)
(* The server sends a stream of messages, each behind a prefix of its      *)
(* length, which arrives in pieces of any size; read_2_buffer cuts it up   *)
(* again.  Bytes are known by their offset in the stream of the current    *)
(* connection: message k is bound[c][k-1] .. bound[c][k]-1, and recv_data_ *)
(* holds the vsize bytes from base on.  What a connection leaves in the    *)
(* buffer lies before offset 0 of the next one.                            *)
(*                                                                         *)
(* All of it runs on the main thread.  A handler may show a message box,   *)
(* whose own event loop reads the socket again: OnRead is re-entered.  A   *)
(* message posted to the thread is dispatched before it waits for sockets  *)
(* again (rtc::MessageQueue::Get): nothing is read while one is waiting.   *)
(* What the messages mean, and the call they set up, is module Call.       *)
(***************************************************************************)
EXTENDS Integers

CONSTANTS
  Prefix,          \* prefix_bytes, 2 in the code
  Chunk,           \* chunk_size, 1024 in the code
  Align,           \* what resize_recv_data rounds up to, 4096 in the code
  Messages,        \* bound: messages of one connection
  MaxSize,         \* bound: the length of a message, 2^16 - 1 in the code
  MaxConnections,  \* bound: connections of one client
  MaxBoxes,        \* bound: message boxes on top of each other
  MaxPosts,        \* bound: MSG_SIGNALING_CLOSE waiting
  CleanReconnects  \* the client only connects again with an empty buffer

ASSUME SignalingAssumption ==
  /\ Prefix \in Nat \ {0} /\ Chunk \in Nat \ {0} /\ Align \in Nat \ {0}
  /\ Messages \in Nat /\ MaxSize \in Nat \ {0} /\ MaxConnections \in Nat
  /\ MaxBoxes \in Nat /\ MaxPosts \in Nat
  /\ CleanReconnects \in BOOLEAN

VARIABLES
  bound,           \* where the server's messages end; never changes
  connection,      \* the number of the current connection, 0 before the first
  state,           \* state_
  socket,          \* control_socket_
  close_posts,     \* MSG_SIGNALING_CLOSE on their way
  arrived,         \* bytes the network has brought
  taken,           \* bytes Recv has taken
  base,            \* the offset of recv_data_[0]
  recv_data_vsize,
  recv_data_size,
  last_msg_should_size,
  pc,              \* where OnRead and read_2_buffer are
  boxes,           \* message boxes shown by handlers
  bailed,          \* the last OnRead was left by a return
  handled          \* messages handled on this connection

netVars  == <<bound, arrived>>
callVars == <<connection, state, socket, close_posts>>
bufVars  == <<taken, base, recv_data_vsize, recv_data_size, last_msg_should_size>>
readVars == <<pc, boxes, bailed, handled>>
vars == <<netVars, callVars, bufVars, readVars>>

Connections == 1 .. MaxConnections
None == -1

\* The ends of the messages of one stream, in the order of the messages.
Bounds ==
  {b \in [0 .. Messages -> 0 .. Messages * (Prefix + MaxSize)] :
     /\ b[0] = 0
     /\ \A j, k \in 0 .. Messages : j < k => b[j] < b[k]
     /\ \A k \in 1 .. Messages : b[k] - b[k-1] - Prefix \in 1 .. MaxSize}

TypeOK ==
  /\ bound \in [Connections -> Bounds]
  /\ connection \in 0 .. MaxConnections
  /\ state \in {"NOT_CONNECTED", "RESOLVING", "SIGNING_IN", "CONNECTED"}
  /\ socket \in {"none", "connecting", "open", "closed"}
  /\ close_posts \in 0 .. MaxPosts
  /\ arrived \in Nat /\ taken \in 0 .. arrived
  /\ base \in Int
  /\ recv_data_vsize \in Nat
  /\ recv_data_size \in Nat
  /\ last_msg_should_size \in Nat \cup {None}
  /\ pc \in {"idle", "first", "again", "recv", "handle"}
  /\ boxes \in 0 .. MaxBoxes
  /\ bailed \in BOOLEAN
  /\ handled \in Nat

Init ==
  /\ bound \in [Connections -> Bounds]
  /\ connection = 0
  /\ state = "NOT_CONNECTED"
  /\ socket = "none"
  /\ close_posts = 0
  /\ arrived = 0 /\ taken = 0
  /\ base = 0
  /\ recv_data_vsize = 0
  /\ recv_data_size = 0
  /\ last_msg_should_size = None
  /\ pc = "idle"
  /\ boxes = 0
  /\ bailed = FALSE
  /\ handled = 0

-----------------------------------------------------------------------------
(* Connecting and closing.                                                  *)

\* Close() does not touch the receive buffer.
Close ==
  /\ socket' = IF socket = "none" THEN "none" ELSE "closed"
  /\ state' = "NOT_CONNECTED"

\* A new socket; the connect request may fail at once, which closes it again.
DoConnect ==
  /\ connection < MaxConnections
  /\ connection' = connection + 1
  /\ \/ socket' = "connecting" /\ state' = "SIGNING_IN"
     \/ socket' = "closed" /\ state' = "NOT_CONNECTED"
  /\ arrived' = 0
  /\ taken' = 0
  /\ base' = 0 - recv_data_vsize
  /\ handled' = 0
  /\ bailed' = FALSE

\* chat_setup, StartLogin, Connect; it is refused unless there is no connection.
Connect ==
  /\ pc = "idle" /\ boxes = 0
  /\ state = "NOT_CONNECTED"
  /\ CleanReconnects => recv_data_vsize = 0
  /\ \/ DoConnect
     \/ /\ state' = "RESOLVING"
        /\ UNCHANGED <<connection, socket, arrived, taken, base, handled, bailed>>
  /\ UNCHANGED <<bound, close_posts, recv_data_vsize, recv_data_size,
                 last_msg_should_size, pc, boxes>>

OnResolveResult ==
  /\ pc = "idle"
  /\ state = "RESOLVING"
  /\ \/ DoConnect
     \/ /\ state' = "NOT_CONNECTED"
        /\ UNCHANGED <<connection, socket, arrived, taken, base, handled, bailed>>
  /\ UNCHANGED <<bound, close_posts, recv_data_vsize, recv_data_size,
                 last_msg_should_size, pc, boxes>>

\* The connection is there; the client registers.
OnConnect ==
  /\ pc = "idle" /\ close_posts = 0
  /\ socket = "connecting"
  /\ socket' = "open"
  /\ UNCHANGED <<netVars, connection, state, close_posts, bufVars, readVars>>

\* Mutant of OnClose: nothing is posted.
OnCloseOnly ==
  /\ pc = "idle"
  /\ socket \in {"connecting", "open"}
  /\ socket' = "closed"
  /\ UNCHANGED <<netVars, connection, state, close_posts, bufVars, readVars>>

\* The connection fails or ends, perhaps before all its bytes are taken.
OnClose ==
  /\ pc = "idle"
  /\ socket \in {"connecting", "open"}
  /\ close_posts < MaxPosts
  /\ socket' = "closed"
  /\ close_posts' = close_posts + 1
  /\ UNCHANGED <<netVars, connection, state, bufVars, readVars>>

\* chat_OnMessage: DeletePeerConnection, see Call, and Close.
OnMessage ==
  /\ pc = "idle"
  /\ close_posts > 0
  /\ close_posts' = close_posts - 1
  /\ Close
  /\ UNCHANGED <<netVars, connection, bufVars, readVars>>

\* leave_from_video, and chat_setup during a call.
Leave ==
  /\ pc = "idle" /\ boxes = 0
  /\ state = "CONNECTED"
  /\ Close
  /\ UNCHANGED <<netVars, connection, close_posts, bufVars, readVars>>

\* The network brings more of the stream.
Arrive ==
  /\ socket = "open"
  /\ arrived' \in arrived + 1 .. bound[connection][Messages]
  /\ UNCHANGED <<bound, callVars, bufVars, readVars>>

-----------------------------------------------------------------------------
(* Reading.                                                                 *)

\* The lengths that the two bytes at offset o may be read as: any, unless a
\* message begins there.
LengthAt(o) ==
  LET starts == {k \in 1 .. Messages : bound[connection][k-1] = o} IN
  IF starts # {}
    THEN {bound[connection][k] - o - Prefix : k \in starts}
    ELSE 0 .. MaxSize

\* Mutant of Complete: the prefix is not counted.
CompleteWithoutPrefix(length, vsize) == length # None /\ vsize >= length

\* A message of that length is complete in the first vsize bytes.
Complete(length, vsize) == length # None /\ vsize >= Prefix + length

\* The length of the message at offset o, if vsize bytes show it and it is not
\* known yet.
Lengths(known, o, vsize) ==
  IF known = None /\ vsize >= Prefix THEN LengthAt(o) ELSE {known}

\* The socket is readable: OnRead, the first call of read_2_buffer.
OnRead ==
  /\ pc = "idle" /\ close_posts = 0
  /\ socket = "open"
  /\ arrived > taken
  /\ pc' = "first"
  /\ bailed' = FALSE
  /\ UNCHANGED <<netVars, callVars, bufVars, boxes, handled>>

\* Mutant of Discard: the length of the message that is dropped is kept.
DiscardStaleLength ==
  /\ pc \in {"first", "again"}
  /\ LET done == Complete(last_msg_should_size, recv_data_vsize)
         gone == IF done THEN Prefix + last_msg_should_size ELSE 0
     IN  /\ base' = base + gone
         /\ recv_data_vsize' = recv_data_vsize - gone
         /\ pc' = IF pc = "again" /\ recv_data_vsize' = 0 THEN "idle" ELSE "recv"
  /\ UNCHANGED <<netVars, callVars, taken, recv_data_size, last_msg_should_size,
                 boxes, bailed, handled>>

\* read_2_buffer up to its loop: the message given last is dropped, and what is
\* left may be the next one.
Discard ==
  /\ pc \in {"first", "again"}
  /\ LET done == Complete(last_msg_should_size, recv_data_vsize)
         gone == IF done THEN Prefix + last_msg_should_size ELSE 0
         left == recv_data_vsize - gone
         kept == IF done THEN None ELSE last_msg_should_size
     IN  /\ base' = base + gone
         /\ recv_data_vsize' = left
         /\ IF pc = "first"
              THEN pc' = "recv" /\ last_msg_should_size' = kept
              ELSE /\ last_msg_should_size' \in Lengths(kept, base', left)
                   /\ pc' = CASE left = 0 -> "idle"
                              [] kept = None /\ Complete(last_msg_should_size', left) -> "handle"
                              [] OTHER -> "recv"
  /\ UNCHANGED <<netVars, callVars, taken, recv_data_size, boxes, bailed, handled>>

\* Mutant of resize_recv_data: the rest of the buffer is not counted.
resize_recv_data_once(size) == IF size < Chunk THEN ((Chunk + Align - 1) \div Align) * Align ELSE size

\* The room for one more chunk, as the loop of read_2_buffer asks for it.
resize_recv_data(size) ==
  LET want == ((size + Chunk + Align - 1) \div Align) * Align IN
  IF size < recv_data_vsize + Chunk /\ want > size THEN want ELSE size

\* Mutant of Recv: a chunk ends the loop, and is not counted in the judgement.
RecvOnce ==
  /\ pc = "recv"
  /\ recv_data_size' = resize_recv_data(recv_data_size)
  /\ LET waiting == IF socket = "open" THEN arrived - taken ELSE 0
         got     == IF waiting < Chunk THEN waiting ELSE Chunk
         vsize   == recv_data_vsize + got
     IN  /\ taken' = taken + got
         /\ recv_data_vsize' = vsize
         /\ last_msg_should_size' \in Lengths(last_msg_should_size, base, vsize)
         /\ pc' = IF Complete(last_msg_should_size', recv_data_vsize) THEN "handle" ELSE "idle"
  /\ UNCHANGED <<netVars, callVars, base, boxes, bailed, handled>>

\* One turn of the loop, and the judgement after the last one.  Nothing is
\* received from a socket that is closed.
Recv ==
  /\ pc = "recv"
  /\ recv_data_size' = resize_recv_data(recv_data_size)
  /\ LET waiting == IF socket = "open" THEN arrived - taken ELSE 0
         got     == IF waiting < Chunk THEN waiting ELSE Chunk
         vsize   == recv_data_vsize + got
     IN  /\ taken' = taken + got
         /\ recv_data_vsize' = vsize
         /\ IF got = 0
              THEN UNCHANGED last_msg_should_size
              ELSE last_msg_should_size' \in Lengths(last_msg_should_size, base, vsize)
         /\ pc' = CASE got = Chunk -> "recv"
                    [] got # Chunk /\ Complete(last_msg_should_size', vsize) -> "handle"
                    [] OTHER -> "idle"
  /\ UNCHANGED <<netVars, callVars, base, boxes, bailed, handled>>

-----------------------------------------------------------------------------
(* The body of the loop in OnRead, by how it ends.                          *)

Handle ==
  /\ pc = "handle"
  /\ handled' = handled + 1

\* continue, or the end of the body; an accepted registration connects.
HandleAndGoOn ==
  /\ Handle
  /\ pc' = "again"
  /\ state' \in IF state = "SIGNING_IN" THEN {state, "CONNECTED"} ELSE {state}
  /\ UNCHANGED <<netVars, connection, socket, close_posts, bufVars, boxes, bailed>>

\* A candidate that does not apply: return.
HandleAndReturn ==
  /\ Handle
  /\ state = "CONNECTED"
  /\ pc' = "idle"
  /\ bailed' = TRUE
  /\ UNCHANGED <<netVars, callVars, bufVars, boxes>>

\* stopCommunication.
HandleStop ==
  /\ Handle
  /\ state = "CONNECTED"
  /\ Close
  /\ pc' = "again"
  /\ UNCHANGED <<netVars, connection, close_posts, bufVars, boxes, bailed>>

\* A rejected registration or call: show_message, which runs an event loop.
HandleRejection ==
  /\ Handle
  /\ state \in {"SIGNING_IN", "CONNECTED"}
  /\ boxes < MaxBoxes
  /\ boxes' = boxes + 1
  /\ pc' = "idle"
  /\ UNCHANGED <<netVars, callVars, bufVars, bailed>>

\* The user has read it: MSG_SIGNALING_CLOSE is posted and the outer loop goes on.
BoxClosed ==
  /\ pc = "idle"
  /\ boxes > 0
  /\ boxes' = boxes - 1
  /\ close_posts < MaxPosts
  /\ close_posts' = close_posts + 1
  /\ pc' = "again"
  /\ UNCHANGED <<netVars, connection, state, socket, bufVars, bailed, handled>>

-----------------------------------------------------------------------------
Reading == \/ Discard \/ Recv \/ HandleAndGoOn \/ HandleAndReturn \/ HandleStop
           \/ HandleRejection

Next == \/ Connect \/ OnResolveResult \/ OnConnect \/ OnClose \/ OnMessage \/ Leave
        \/ Arrive \/ OnRead \/ Reading \/ BoxClosed

Spec == Init /\ [][Next]_vars

-----------------------------------------------------------------------------
(* Properties.                                                              *)

\* The next message of the stream.
NextBegins == bound[connection][handled]
NextEnds == bound[connection][handled + 1]

\* What a handler is given is the next message of the stream, whole and nothing
\* but it, however the stream was cut and however OnRead was re-entered.
MessagesIntact ==
  pc = "handle" =>
    /\ handled < Messages
    /\ base = NextBegins
    /\ base + Prefix + last_msg_should_size = NextEnds

\* Recv never writes past the end of recv_data_.
BufferFits == recv_data_vsize <= recv_data_size
=============================================================================
