----------------------------- MODULE CallProofs -----------------------------
(***************************************************************************)
(* The call keeps to its signaling connection, and no VALIDATE of it fails *)
(* while the connection is up.                                             *)
(***************************************************************************)
EXTENDS Call, SignalingProofs

\* A socket that is read, or was when a message box came up, is not waiting to be
\* connected; one that is waiting belongs to a client that signs in.
SocketInv ==
  /\ pc # "idle" \/ boxes > 0 => socket \in {"open", "closed"}
  /\ socket = "connecting" => state = "SIGNING_IN"

\* A message box comes from a refusal.
BoxInv == stage \in {"none", "registered"} => boxes = 0

\* The first message of a connection is not read while a close is waiting, even
\* one that was posted for the connection before.
PostInv == stage = "none" /\ pc # "idle" => close_posts = 0

\* The only client that is signed in without a peer connection is a callee that
\* waits for its call: it shows the video, where the buttons that change the role
\* are not, and no close is waiting.
WaitingInv ==
  socket = "open" /\ state = "CONNECTED" /\ ~peer_connection_ =>
    /\ stage = "registered" /\ ~caller_ /\ layer = "video"
    /\ close_posts = 0

CallInv ==
  /\ CallTypeOK /\ SocketInv /\ BoxInv /\ PostInv /\ WaitingInv
  /\ AbortsOnlyWhenLost

\* A step of the call is a step of its signaling connection, or leaves it alone.
LEMMA StepIsSignaling ==
  ASSUME [CallNext]_allVars
  PROVE  [Next]_vars
<1>1. CASE UNCHANGED allVars
  BY <1>1 DEF allVars
<1>2. ASSUME NEW caller \in BOOLEAN, chat_setup(caller) PROVE Next \/ UNCHANGED vars
  BY <1>2 DEF chat_setup, Next
<1>3. CASE Resolved \/ chat_OnMessage \/ OnSuccess \/ OnIceCandidate
  BY <1>3 DEF Resolved, chat_OnMessage, OnSuccess, OnIceCandidate, Abort, Next
<1>4. CASE HangUp \/ leave_from_video
  BY <1>4 DEF HangUp, leave_from_video, CloseSession, Abort, Next
<1>5. CASE CallOnRead \/ ReadStep
  <2>1. CASE CallOnRead \/ ((Discard \/ Recv) /\ UNCHANGED callState)
    BY <2>1 DEF CallOnRead, Next, Reading
  <2>2. CASE Skip \/ Registered \/ Refused \/ IncomingCall
    BY <2>2 DEF Skip, Registered, Refused, IncomingCall, Next, Reading
  <2>3. CASE CallAccepted \/ StartCommunication \/ IceCandidate \/ StopCommunication
    BY <2>3 DEF CallAccepted, StartCommunication, IceCandidate, StopCommunication, Needs,
                Abort, Next, Reading
  <2>4. QED
    BY <1>5, <2>1, <2>2, <2>3 DEF ReadStep, HandleMessage
<1>6. CASE (OnConnect \/ OnClose \/ Arrive \/ BoxClosed) /\ UNCHANGED callState
  BY <1>6 DEF Next
<1>7. QED
  BY <1>1, <1>2, <1>3, <1>4, <1>5, <1>6 DEF CallNext

\* What the proofs about Signaling say holds under the call too.
LEMMA SignalingUnderCall == CallSpec => Spec
<1>1. CallInit => Init
  BY DEF CallInit
<1>2. [CallNext]_allVars => [Next]_vars
  BY StepIsSignaling
<1>3. QED
  BY <1>1, <1>2, PTL DEF CallSpec, Spec

\* At the start nothing is connected.
LEMMA InitCallInv ==
  ASSUME CallInit
  PROVE  CallInv
<1>1. TypeOK
  BY InitIInv DEF CallInit, IInv
<1>2. CallTypeOK
  BY <1>1 DEF CallInit, CallTypeOK, Stages
<1>3. SocketInv /\ BoxInv /\ PostInv /\ WaitingInv /\ AbortsOnlyWhenLost
  BY DEF CallInit, Init, SocketInv, BoxInv, PostInv, WaitingInv, AbortsOnlyWhenLost
<1>4. QED
  BY <1>2, <1>3 DEF CallInv

\* A program that ends leaves everything else as it was.
LEMMA AbortKeeps ==
  ASSUME CallInv, Abort, socket # "open"
  PROVE  CallInv'
<1> USE DEF Abort, vars, netVars, callVars, bufVars, readVars, CallInv
<1>1. CallTypeOK'
  BY DEF CallTypeOK, TypeOK
<1>2. (SocketInv /\ BoxInv /\ PostInv /\ WaitingInv /\ AbortsOnlyWhenLost)'
  BY DEF SocketInv, BoxInv, PostInv, WaitingInv, AbortsOnlyWhenLost
<1>3. QED
  BY <1>1, <1>2

\* A connection that begins.
LEMMA BeginKeeps ==
  ASSUME CallInv, IInv, TypeOK', ~aborted,
         \/ /\ Connect /\ caller_' \in BOOLEAN
         \/ OnResolveResult /\ UNCHANGED caller_,
         stage' = IF connection' # connection THEN "none" ELSE stage,
         UNCHANGED <<peer_connection_, layer, aborted>>
  PROVE  CallInv'
<1>1. /\ pc = "idle" /\ boxes = 0 /\ UNCHANGED <<pc, boxes, close_posts>>
      /\ socket \in {"none", "closed"}
      /\ \/ socket' = "connecting" /\ state' = "SIGNING_IN"
         \/ socket' \in {"none", "closed"} /\ state' \in {"NOT_CONNECTED", "RESOLVING"}
      /\ stage' \in {"none", stage}
      /\ caller_' \in BOOLEAN
  BY DEF Connect, OnResolveResult, DoConnect, IInv, ConnectionInv, CallInv, CallTypeOK
<1> USE <1>1 DEF CallInv
<1>2. CallTypeOK'
  BY DEF CallTypeOK, Stages
<1>3. (SocketInv /\ BoxInv /\ PostInv /\ WaitingInv /\ AbortsOnlyWhenLost)'
  BY DEF SocketInv, BoxInv, PostInv, WaitingInv, AbortsOnlyWhenLost
<1>4. QED
  BY <1>2, <1>3

\* A connection that is closed.
LEMMA CloseKeeps ==
  ASSUME CallInv, TypeOK', ~aborted, OnMessage \/ Leave \/ HandleStop,
         peer_connection_' = FALSE, UNCHANGED <<caller_, aborted>>,
         stage' \in {"over", stage}, layer' \in {"home", "video"}
  PROVE  CallInv'
<1>1. /\ UNCHANGED boxes
      /\ pc' # "idle" => pc # "idle"
      /\ socket' = IF socket = "none" THEN "none" ELSE "closed"
      /\ state' = "NOT_CONNECTED"
      /\ close_posts' = close_posts \/ pc = "idle"
      /\ pc = "idle" => pc' = "idle"
  BY DEF OnMessage, Leave, HandleStop, Handle, Close, netVars, bufVars, readVars
<1> USE <1>1 DEF CallInv
<1>2. CallTypeOK'
  BY DEF CallTypeOK, Stages
<1>3. (SocketInv /\ BoxInv /\ PostInv /\ WaitingInv /\ AbortsOnlyWhenLost)'
  BY DEF SocketInv, BoxInv, PostInv, WaitingInv, AbortsOnlyWhenLost
<1>4. QED
  BY <1>2, <1>3

\* What the user and the posted close do.
LEMMA UserKeeps ==
  ASSUME CallInv, IInv, TypeOK', ~aborted,
         \/ \E caller \in BOOLEAN : chat_setup(caller)
         \/ Resolved \/ HangUp \/ leave_from_video \/ chat_OnMessage
  PROVE  CallInv'
<1>1. ASSUME NEW caller \in BOOLEAN, chat_setup(caller) PROVE CallInv'
  <2>1. CASE state = "NOT_CONNECTED"
    BY <1>1, <2>1, BeginKeeps DEF chat_setup
  <2>2. CASE state # "NOT_CONNECTED"
    <3> USE <1>1, <2>2 DEF chat_setup, vars, netVars, callVars, bufVars, readVars, CallInv
    <3>1. CallTypeOK'
      BY DEF CallTypeOK
    <3>2. (SocketInv /\ BoxInv /\ PostInv /\ WaitingInv /\ AbortsOnlyWhenLost)'
      BY DEF SocketInv, BoxInv, PostInv, WaitingInv, AbortsOnlyWhenLost
    <3>3. QED
      BY <3>1, <3>2
  <2>3. QED
    BY <2>1, <2>2
<1>2. CASE Resolved
  BY <1>2, BeginKeeps DEF Resolved
<1>3. ASSUME CloseSession, layer' \in {"home", "video"}, aborted' => UNCHANGED layer
      PROVE  CallInv'
  <2>1. CASE peer_connection_ /\ socket # "open"
    BY <1>3, <2>1, AbortKeeps DEF CloseSession
  <2>2. CASE ~(peer_connection_ /\ socket # "open")
    BY <1>3, <2>2, CloseKeeps DEF CloseSession
  <2>3. QED
    BY <2>1, <2>2
<1>4. CASE HangUp
  BY <1>3, <1>4 DEF HangUp, CallInv, CallTypeOK
<1>5. CASE leave_from_video
  <2>1. CASE state = "CONNECTED"
    BY <1>3, <1>5, <2>1 DEF leave_from_video
  <2>2. CASE state # "CONNECTED"
    <3> USE <1>5, <2>2 DEF leave_from_video, vars, netVars, callVars, bufVars, readVars, CallInv
    <3>1. CallTypeOK'
      BY DEF CallTypeOK
    <3>2. (SocketInv /\ BoxInv /\ PostInv /\ WaitingInv /\ AbortsOnlyWhenLost)'
      BY DEF SocketInv, BoxInv, PostInv, WaitingInv, AbortsOnlyWhenLost
    <3>3. QED
      BY <3>1, <3>2
  <2>3. QED
    BY <2>1, <2>2
<1>6. CASE chat_OnMessage
  <2>1. CASE peer_connection_ \/ state # "CONNECTED"
    BY <1>6, <2>1, CloseKeeps DEF chat_OnMessage, CallInv, CallTypeOK
  <2>2. CASE ~(peer_connection_ \/ state # "CONNECTED")
    <3>1. Abort /\ socket # "open"
      BY <1>6, <2>2 DEF chat_OnMessage, CallInv, WaitingInv, CallTypeOK, TypeOK
    <3>2. QED
      BY <3>1, AbortKeeps
  <2>3. QED
    BY <2>1, <2>2
<1>7. QED
  BY <1>1, <1>2, <1>4, <1>5, <1>6

\* The signaling thread, which ends the program only when a send fails.
LEMMA SignalingThreadKeeps ==
  ASSUME CallInv, OnSuccess \/ OnIceCandidate
  PROVE  CallInv'
<1>1. CASE OnSuccess /\ socket = "open"
  <2> USE <1>1 DEF OnSuccess, vars, netVars, callVars, bufVars, readVars, CallInv
  <2>1. CallTypeOK'
    BY DEF CallTypeOK, TypeOK, Stages
  <2>2. (SocketInv /\ BoxInv /\ PostInv /\ WaitingInv /\ AbortsOnlyWhenLost)'
    BY DEF SocketInv, BoxInv, PostInv, WaitingInv, AbortsOnlyWhenLost
  <2>3. QED
    BY <2>1, <2>2
<1>2. CASE ~(OnSuccess /\ socket = "open")
  BY <1>2, AbortKeeps DEF OnSuccess, OnIceCandidate
<1>3. QED
  BY <1>1, <1>2

\* The connection, the network and the loop that reads leave the call alone.
LEMMA ConnectionKeeps ==
  ASSUME CallInv, TypeOK', ~aborted, UNCHANGED callState,
         \/ OnConnect \/ OnClose \/ Arrive \/ BoxClosed \/ OnRead \/ Discard \/ Recv
         \/ (UNCHANGED state /\ HandleAndGoOn) \/ HandleAndReturn
  PROVE  CallInv'
<1> USE DEF CallInv, callState
<1>1. CallTypeOK'
  BY DEF CallTypeOK
<1>2. CASE OnConnect \/ OnClose \/ Arrive
  <2> USE <1>2 DEF OnConnect, OnClose, Arrive, netVars, callVars, bufVars, readVars
  <2>1. (SocketInv /\ BoxInv /\ PostInv /\ WaitingInv /\ AbortsOnlyWhenLost)'
    BY DEF SocketInv, BoxInv, PostInv, WaitingInv, AbortsOnlyWhenLost
  <2>2. QED
    BY <1>1, <2>1
<1>3. CASE BoxClosed
  <2>1. boxes' \in 0 .. MaxBoxes /\ boxes \in 0 .. MaxBoxes /\ boxes > 0 /\ stage \notin {"none", "registered"}
    BY <1>3, SignalingAssumption DEF BoxClosed, BoxInv, CallTypeOK, TypeOK
  <2> USE <1>3, <2>1 DEF BoxClosed, netVars, bufVars
  <2>2. (SocketInv /\ BoxInv /\ PostInv /\ WaitingInv /\ AbortsOnlyWhenLost)'
    BY DEF SocketInv, BoxInv, PostInv, WaitingInv, AbortsOnlyWhenLost
  <2>3. QED
    BY <1>1, <2>2
<1>4. CASE \/ OnRead \/ Discard \/ Recv
           \/ (UNCHANGED state /\ HandleAndGoOn) \/ HandleAndReturn
  <2>1. /\ UNCHANGED <<callVars, boxes>>
        /\ pc # "idle" \/ (socket = "open" /\ close_posts = 0)
    BY <1>4 DEF OnRead, Discard, Recv, HandleAndGoOn, HandleAndReturn, Handle, callVars
  <2> USE <2>1 DEF callVars
  <2>2. (SocketInv /\ BoxInv /\ PostInv /\ WaitingInv /\ AbortsOnlyWhenLost)'
    BY DEF SocketInv, BoxInv, PostInv, WaitingInv, AbortsOnlyWhenLost
  <2>3. QED
    BY <1>1, <2>2
<1>5. QED
  BY <1>2, <1>3, <1>4

\* While the connection is up, a client that is signed in has a peer connection,
\* unless it is a callee that waits.
LEMMA HasPeer ==
  ASSUME CallInv, state = "CONNECTED", socket = "open", stage # "registered"
  PROVE  peer_connection_
BY DEF CallInv, WaitingInv

\* What the messages do.
LEMMA MessagesKeep ==
  ASSUME CallInv, TypeOK', ~aborted, HandleMessage
  PROVE  CallInv'
<1> USE DEF CallInv
<1>1. CASE Skip
  BY <1>1, ConnectionKeeps DEF Skip
<1>2. CASE Registered \/ IncomingCall
  <2>1. /\ UNCHANGED <<socket, close_posts, boxes, aborted, caller_>>
        /\ pc = "handle" /\ pc' = "again"
        /\ stage' \in {"registered", "ringing"} /\ layer' \in {layer, "video"}
        /\ peer_connection_' \in BOOLEAN
        /\ state = "SIGNING_IN" \/ state = "CONNECTED"
        /\ state' = "CONNECTED"
        /\ stage \in {"none", "registered"}
        /\ \/ peer_connection_'
           \/ ~caller_' /\ layer' = "video" /\ stage' = "registered" /\ stage = "none"
    <3>1. CASE IncomingCall
      BY <3>1 DEF IncomingCall, HandleAndGoOn, Handle, CallTypeOK
    <3>2. CASE Registered /\ caller_ = TRUE
      BY <3>2 DEF Registered, HandleAndGoOn, Handle
    <3>3. CASE Registered /\ caller_ = FALSE
      BY <3>3 DEF Registered, HandleAndGoOn, Handle
    <3>4. QED
      BY <1>2, <3>1, <3>2, <3>3, Zenon DEF CallTypeOK
  <2> USE <2>1
  <2>2. CallTypeOK'
    BY DEF CallTypeOK, Stages
  <2>3. (SocketInv /\ BoxInv /\ PostInv /\ WaitingInv /\ AbortsOnlyWhenLost)'
    BY DEF SocketInv, BoxInv, PostInv, WaitingInv, AbortsOnlyWhenLost
  <2>4. QED
    BY <2>2, <2>3
<1>3. CASE Refused
  <2> USE <1>3 DEF Refused, HandleRejection, Handle, callVars, netVars, bufVars
  <2>1. CallTypeOK'
    BY DEF CallTypeOK, Stages
  <2>2. (SocketInv /\ BoxInv /\ PostInv /\ WaitingInv /\ AbortsOnlyWhenLost)'
    BY DEF SocketInv, BoxInv, PostInv, WaitingInv, AbortsOnlyWhenLost
  <2>3. QED
    BY <2>1, <2>2
<1>4. CASE CallAccepted \/ StartCommunication
  <2>1. CASE Abort
    <3>1. socket # "open"
      BY <1>4, <2>1, HasPeer DEF CallAccepted, StartCommunication, Needs, Abort, HandleAndGoOn, Handle
    <3>2. QED
      BY <2>1, <3>1, AbortKeeps
  <2>2. CASE ~Abort
    <3>1. /\ UNCHANGED <<socket, close_posts, boxes, aborted, caller_, peer_connection_>>
          /\ pc = "handle" /\ pc' = "again" /\ socket = "open"
          /\ stage' = "talking" /\ layer' \in {layer, "video"}
          /\ state = "CONNECTED" /\ state' = state
          /\ peer_connection_
      BY <1>4, <2>2, HasPeer DEF CallAccepted, StartCommunication, Needs, HandleAndGoOn, Handle
    <3> USE <3>1
    <3>2. CallTypeOK'
      BY DEF CallTypeOK, Stages
    <3>3. (SocketInv /\ BoxInv /\ PostInv /\ WaitingInv /\ AbortsOnlyWhenLost)'
      BY DEF SocketInv, BoxInv, PostInv, WaitingInv, AbortsOnlyWhenLost
    <3>4. QED
      BY <3>2, <3>3
  <2>3. QED
    BY <2>1, <2>2
<1>5. CASE IceCandidate \/ StopCommunication
  <2>1. CASE ~peer_connection_
    <3>1. Abort /\ socket # "open"
      BY <1>5, <2>1, HasPeer DEF IceCandidate, StopCommunication, Needs
    <3>2. QED
      BY <3>1, AbortKeeps
  <2>2. CASE peer_connection_ /\ IceCandidate
    <3>1. HandleAndGoOn => UNCHANGED state
      BY <2>2 DEF IceCandidate, HandleAndGoOn
    <3>2. QED
      BY <2>2, <3>1, ConnectionKeeps DEF IceCandidate, Needs
  <2>3. CASE peer_connection_ /\ StopCommunication
    BY <2>3, CloseKeeps DEF StopCommunication, Needs
  <2>4. QED
    BY <1>5, <2>1, <2>2, <2>3
<1>6. QED
  BY <1>1, <1>2, <1>3, <1>4, <1>5 DEF HandleMessage

\* Every step keeps the invariant.
LEMMA CallNextKeeps ==
  ASSUME CallInv, IInv, TypeOK', [CallNext]_allVars
  PROVE  CallInv'
<1>1. CASE UNCHANGED allVars
  <2> USE <1>1 DEF allVars, vars, callState, netVars, callVars, bufVars, readVars, CallInv
  <2>1. CallTypeOK'
    BY DEF CallTypeOK
  <2>2. (SocketInv /\ BoxInv /\ PostInv /\ WaitingInv /\ AbortsOnlyWhenLost)'
    BY DEF SocketInv, BoxInv, PostInv, WaitingInv, AbortsOnlyWhenLost
  <2>3. QED
    BY <2>1, <2>2
<1>2. CASE CallNext
  BY <1>2, UserKeeps, SignalingThreadKeeps, ConnectionKeeps, MessagesKeep
     DEF CallNext, CallOnRead, ReadStep
<1>3. QED
  BY <1>1, <1>2

\* The strengthening, in every state of every behaviour of the call.
THEOREM InvariantCall == CallSpec => []CallInv
<1>1. CallInit => CallInv
  BY InitCallInv
<1>2. IInv => TypeOK
  BY DEF IInv
<1>3. CallInv /\ IInv /\ TypeOK' /\ [CallNext]_allVars => CallInv'
  BY CallNextKeeps
<1>4. CallSpec => []IInv
  BY SignalingUnderCall, InvariantSignaling, PTL
<1>5. QED
  BY <1>1, <1>2, <1>3, <1>4, PTL DEF CallSpec

\* trtc_client and the chat dialog keep their types during a call.
THEOREM TypesCall == CallSpec => []CallTypeOK
<1>1. CallInv => CallTypeOK
  BY DEF CallInv
<1>2. QED
  BY <1>1, InvariantCall, PTL

\* As long as the connection is up no VALIDATE of the call fails and no null peer
\* connection is followed, for any number of connections, messages, boxes and
\* waiting closes.
THEOREM AbortsOnlyWhenLostAlways == CallSpec => []AbortsOnlyWhenLost
<1>1. CallInv => AbortsOnlyWhenLost
  BY DEF CallInv
<1>2. QED
  BY <1>1, InvariantCall, PTL

\* Under a call the buffer of read_2_buffer is never written past its end,
THEOREM BufferFitsInCall == CallSpec => []BufferFits
BY SignalingUnderCall, BufferFitsAlways, PTL

\* ... and if every connection begins with an empty one, the handlers of the call
\* are given the messages of the server whole and in order.
THEOREM MessagesIntactInCall == CleanReconnects => (CallSpec => []MessagesIntact)
BY SignalingUnderCall, MessagesIntactAlways, PTL
=============================================================================
