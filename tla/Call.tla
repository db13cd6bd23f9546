-------------------------------- MODULE Call --------------------------------
(***************************************************************************)
(* The call of trtc_client and the chat dialog (librose/rtc_client.cpp,    *)
(* librose/gui/dialogs/chat.cpp) on top of its signaling connection: the   *)
(* two roles, the peer connection, and what each message does to them.     *)
(*                                                                         *)
(* The kind of a message is chosen when it is handled, from those the      *)
(* server may have sent at that stage of the connection: it answers the    *)
(* registration first, reports or answers a call, sends candidates only    *)
(* once the client has said "answerProcessed" or "startProcessed", and may *)
(* end the call at any time.  The peer connection is external; creating it *)
(* succeeds.  A VALIDATE that fails, or a null pointer that is followed,   *)
(* ends the program: aborted.                                              *)
(***************************************************************************)
EXTENDS Signaling

VARIABLES
  peer_connection_,  \* there is one
  caller_,           \* which of the two buttons was pressed last
  layer,             \* what the dialog shows: the chat or the video
  stage,             \* how far this connection has come
  aborted

callState == <<peer_connection_, caller_, layer, stage, aborted>>
allVars == <<vars, callState>>

Stages == {"none", "registered", "refused", "called", "ringing", "answered", "talking", "over"}

CallTypeOK ==
  /\ TypeOK
  /\ peer_connection_ \in BOOLEAN
  /\ caller_ \in BOOLEAN
  /\ layer \in {"home", "video"}
  /\ stage \in Stages
  /\ aborted \in BOOLEAN

CallInit ==
  /\ Init
  /\ peer_connection_ = FALSE
  /\ caller_ = TRUE
  /\ layer = "home"
  /\ stage = "none"
  /\ aborted = FALSE

Abort ==
  /\ aborted' = TRUE
  /\ UNCHANGED <<vars, peer_connection_, caller_, layer, stage>>

-----------------------------------------------------------------------------
(* The user and the connection.                                             *)

\* chat_setup by one of the two buttons, without a peer connection.  Connect
\* refuses unless the state is NOT_CONNECTED, but the role is set.
chat_setup(caller) ==
  /\ layer = "home" /\ ~peer_connection_
  /\ pc = "idle" /\ boxes = 0
  /\ caller_' = caller
  /\ IF state = "NOT_CONNECTED" THEN Connect ELSE UNCHANGED vars
  /\ stage' = IF connection' # connection THEN "none" ELSE stage
  /\ UNCHANGED <<peer_connection_, layer, aborted>>

Resolved ==
  /\ OnResolveResult
  /\ stage' = IF connection' # connection THEN "none" ELSE stage
  /\ UNCHANGED <<peer_connection_, caller_, layer, aborted>>

\* "stop" is sent when there was a call; the send is asserted.
CloseSession ==
  IF peer_connection_ /\ socket # "open"
    THEN Abort
    ELSE Leave /\ peer_connection_' = FALSE /\ stage' = "over" /\ UNCHANGED <<caller_, aborted>>

\* chat_setup by the callee's button, during a call.
HangUp ==
  /\ layer = "home" /\ peer_connection_
  /\ state = "CONNECTED"
  /\ pc = "idle" /\ boxes = 0
  /\ CloseSession
  /\ UNCHANGED layer

\* leave_from_video by its button.
leave_from_video ==
  /\ layer = "video"
  /\ pc = "idle" /\ boxes = 0
  /\ IF state = "CONNECTED" THEN CloseSession
                            ELSE UNCHANGED <<vars, peer_connection_, caller_, stage, aborted>>
  /\ layer' = IF aborted' THEN layer ELSE "home"

\* MSG_SIGNALING_CLOSE.  DeletePeerConnection asserts that without a peer
\* connection the state is not CONNECTED.
chat_OnMessage ==
  IF peer_connection_ \/ state # "CONNECTED"
    THEN /\ OnMessage
         /\ peer_connection_' = FALSE
         /\ UNCHANGED <<caller_, layer, stage, aborted>>
    ELSE pc = "idle" /\ close_posts > 0 /\ Abort

-----------------------------------------------------------------------------
(* The signaling thread, while there is a peer connection.                  *)

\* OnSuccess sends the offer or the answer,
OnSuccess ==
  /\ peer_connection_
  /\ stage = IF caller_ THEN "registered" ELSE "ringing"
  /\ IF socket = "open"
       THEN /\ stage' = IF caller_ THEN "called" ELSE "answered"
            /\ UNCHANGED <<vars, peer_connection_, caller_, layer, aborted>>
       ELSE Abort

\* ... and OnIceCandidate what it finds from then on.  It matters only when the
\* send fails.
OnIceCandidate ==
  /\ peer_connection_
  /\ stage \in {"called", "answered", "talking"}
  /\ socket # "open"
  /\ Abort

-----------------------------------------------------------------------------
(* The body of the loop in OnRead.                                          *)

\* Messages that are skipped: not understood, or not for this state and role.
Skip ==
  /\ UNCHANGED state /\ HandleAndGoOn
  /\ UNCHANGED callState

Registered ==
  /\ stage = "none" /\ state = "SIGNING_IN"
  /\ state' = "CONNECTED" /\ HandleAndGoOn
  /\ peer_connection_' = caller_
  /\ layer' = IF caller_ THEN layer ELSE "video"
  /\ stage' = "registered"
  /\ UNCHANGED <<caller_, aborted>>

\* The registration or the call is refused.
Refused ==
  /\ \/ stage = "none" /\ state = "SIGNING_IN"
     \/ stage = "called" /\ state = "CONNECTED" /\ caller_
  /\ HandleRejection
  /\ stage' = "refused"
  /\ UNCHANGED <<peer_connection_, caller_, layer, aborted>>

\* What a handler does that needs the peer connection and, if it answers, the
\* socket.
Needs(ok, A) == IF ok THEN A ELSE pc = "handle" /\ Abort

\* callResponse: "answerProcessed" is sent.
CallAccepted ==
  /\ stage = "called" /\ state = "CONNECTED" /\ caller_
  /\ Needs(peer_connection_ /\ socket = "open",
           /\ HandleAndGoOn
           /\ stage' = "talking" /\ layer' = "video"
           /\ UNCHANGED <<peer_connection_, caller_, aborted>>)

\* Mutant of IncomingCall: no peer connection is made.
IncomingCallOnly ==
  /\ stage = "registered" /\ state = "CONNECTED" /\ ~caller_
  /\ HandleAndGoOn
  /\ stage' = "ringing" /\ layer' = "video"
  /\ UNCHANGED <<peer_connection_, caller_, aborted>>

\* ConnectToPeer makes the peer connection, unless there is one.
IncomingCall ==
  /\ stage = "registered" /\ state = "CONNECTED" /\ ~caller_
  /\ HandleAndGoOn
  /\ peer_connection_' = TRUE
  /\ stage' = "ringing" /\ layer' = "video"
  /\ UNCHANGED <<caller_, aborted>>

\* "startProcessed" is sent.
StartCommunication ==
  /\ stage = "answered" /\ state = "CONNECTED" /\ ~caller_
  /\ Needs(socket = "open",
           /\ HandleAndGoOn
           /\ stage' = "talking"
           /\ UNCHANGED <<peer_connection_, caller_, layer, aborted>>)

\* One that does not parse or apply makes OnRead return.
IceCandidate ==
  /\ stage = "talking" /\ state = "CONNECTED"
  /\ Needs(peer_connection_, (HandleAndGoOn \/ HandleAndReturn) /\ UNCHANGED callState)

StopCommunication ==
  /\ stage \in {"called", "ringing", "answered", "talking"} /\ state = "CONNECTED"
  /\ Needs(peer_connection_,
           /\ HandleStop
           /\ peer_connection_' = FALSE
           /\ layer' = "home" /\ stage' = "over"
           /\ UNCHANGED <<caller_, aborted>>)

HandleMessage ==
  \/ Skip \/ Registered \/ Refused \/ CallAccepted \/ IncomingCall
  \/ StartCommunication \/ IceCandidate \/ StopCommunication

-----------------------------------------------------------------------------
ReadStep == ((Discard \/ Recv) /\ UNCHANGED callState) \/ HandleMessage

CallOnRead == OnRead /\ UNCHANGED callState

CallNext ==
  /\ ~aborted
  /\ \/ \E caller \in BOOLEAN : chat_setup(caller)
     \/ Resolved \/ HangUp \/ leave_from_video \/ chat_OnMessage
     \/ OnSuccess \/ OnIceCandidate
     \/ CallOnRead \/ ReadStep
     \/ (OnConnect \/ OnClose \/ Arrive \/ BoxClosed) /\ UNCHANGED callState

CallSpec == CallInit /\ [][CallNext]_allVars

\* The main thread runs: it goes on reading, dispatches what is posted to it, and
\* looks at the socket again and again.  Neither the network nor the user nor the
\* signaling thread is promised.
CallFairness ==
  /\ WF_allVars(~aborted /\ ReadStep)
  /\ WF_allVars(~aborted /\ chat_OnMessage)
  /\ SF_allVars(~aborted /\ CallOnRead)

FairCallSpec == CallSpec /\ CallFairness

-----------------------------------------------------------------------------
(* Properties.                                                              *)

\* As long as the connection is up no VALIDATE of the call fails and no null
\* peer connection is used: whatever the order in which the user's clicks, the
\* posted close, the signaling thread and the server's messages come, in either
\* role, and although the close does not say which connection it is for.
AbortsOnlyWhenLost == aborted => socket # "open"

\* A connection that is lost takes the call with it, and a new one can be made:
\* chat_setup does nothing while there is a peer connection, and Connect nothing
\* while there is a state.
LostCallEnds ==
  socket = "closed" /\ state \in {"SIGNING_IN", "CONNECTED"}
    ~> aborted \/ (state = "NOT_CONNECTED" /\ ~peer_connection_)

\* A message that has arrived is handled, unless the connection ends first, a
\* handler returns from OnRead, a message box stays open or the program ends.
MessageHandled ==
  \A c \in Connections, k \in 1 .. Messages :
    connection = c /\ socket = "open" /\ arrived >= bound[c][k]
      ~> handled >= k \/ connection # c \/ socket # "open" \/ bailed \/ boxes > 0 \/ aborted
=============================================================================
