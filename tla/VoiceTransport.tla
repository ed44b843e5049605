--------------------------- MODULE VoiceTransport ---------------------------
(***************************************************************************)
(* One voice connection of the radio (radio/dave.go, DAVEVoiceConn), from  *)
(* the call of ConnectDAVEVoiceContext to the end of its goroutines: the   *)
(* caller that sets it up, the goroutine that reads the websocket and opens *)
(* the UDP socket, the heartbeat, the worker that reports the loss of the  *)
(* connection, and the owner, who speaks and closes.  RadioSession uses    *)
(* the connection through what this module promises: it is open or it is   *)
(* not, and a loss is reported once.                                       *)
(*                                                                         *)
(* Discord's voice gateway, the sockets and the DAVE library are external: *)
(* a message, a failure or the end of a negotiation may come whenever the  *)
(* protocol allows it.  Audio frames and their encryption are not here.    *)
(***************************************************************************)
EXTENDS Naturals

CONSTANTS Nobody

VARIABLES
  setup,         \* where ConnectDAVEVoiceContext is
  isClosed, isEstablished,
  readyChan,     \* readyChan is closed
  wsConn, udpConn, daveSess,  \* the fields are set
  handlers,      \* removeHandlers: Discord's events reach the connection
  sockets,       \* the sockets that are open
  broken,        \* the gateway has gone
  unwritable,    \* a write has failed, at its deadline or for another reason: so do all later ones
  closing,       \* Close, after its locks: who closes, and what is left
  reader, beats, loss,        \* goroutines of startWorker
  voiceLossOnce, reported,
  outstanding,   \* heartbeats without an answer
  version, e2ee, \* of the DAVE session: the protocol, and whether it is ready
  invalid,       \* invalidCommitAttempts
  asked,         \* what the gateway has been sent: identify, select protocol
  speaking, heard,            \* what was set, and the last opcode 5
  speakingMu, saying,
  ownerClosed    \* ghost

fields == <<wsConn, udpConn, daveSess>>
dave == <<version, e2ee, invalid>>
speech == <<speaking, heard, speakingMu, saying>>
lost == <<voiceLossOnce, loss, reported>>
network == <<broken, unwritable>>
closed == <<isClosed, fields, closing>>
vars == <<setup, isEstablished, readyChan, closed, handlers, sockets, network, reader, beats,
          lost, outstanding, dave, asked, speech, ownerClosed>>

Resources == <<"handlers", "dave", "ws", "udp">>
Unset == "unset"
MaxInvalid == 3
MaxMissed == 2

TypeOK ==
  /\ setup \in {"handlers", "wait", "dial", "adopt", "start", "identify", "ready", "dave",
                "open", "error"}
  /\ {isClosed, isEstablished, readyChan, wsConn, udpConn, daveSess, handlers, broken, unwritable,
      voiceLossOnce, e2ee, ownerClosed} \subseteq BOOLEAN
  /\ sockets \subseteq {"ws", "udp"}
  /\ closing = Nobody \/ closing.by \in {"setup", "reader", "loss", "owner"}
  /\ reader \in {"none", "read", "adopt", "discover", "describe", "resend", "saying", "done"}
  /\ beats \in {"none", "on", "done"} /\ loss \in {"none", "close", "report", "done"}
  /\ reported \in 0..1 /\ outstanding \in 0..MaxMissed /\ version \in 0..1
  /\ invalid \in 0..MaxInvalid /\ asked \in 0..2
  /\ {speaking, heard, saying} \subseteq {Unset, "yes", "no"}
  /\ speakingMu \in {Nobody, "reader", "owner"}

Init ==
  /\ setup = "handlers" /\ isClosed = FALSE /\ isEstablished = FALSE /\ readyChan = FALSE
  /\ wsConn = FALSE /\ udpConn = FALSE /\ daveSess = TRUE
  /\ handlers = FALSE /\ sockets = {} /\ broken = FALSE /\ unwritable = FALSE
  /\ closing = Nobody
  /\ reader = "none" /\ beats = "none" /\ loss = "none"
  /\ voiceLossOnce = FALSE /\ reported = 0 /\ outstanding = 0
  /\ version = 0 /\ e2ee = FALSE /\ invalid = 0 /\ asked = 0
  /\ speaking = Unset /\ heard = Unset /\ speakingMu = Nobody /\ saying = Unset
  /\ ownerClosed = FALSE

(***************************************************************************)
(* Close.                                                                  *)
(***************************************************************************)

Busy(who) == closing # Nobody /\ closing.by = who

\* Under workerMu and mu: nobody else closes, the fields are taken, no worker starts any more.
Close(who) ==
  IF isClosed THEN UNCHANGED closed
  ELSE /\ isClosed' = TRUE
       /\ wsConn' = FALSE /\ udpConn' = FALSE /\ daveSess' = FALSE
       /\ closing' = [by |-> who, next |-> 1, ws |-> wsConn, udp |-> udpConn]

\* What was taken is closed, without the locks, while the others go on.
CloseNext ==
  LET what == Resources[closing.next] IN
  /\ closing # Nobody
  /\ handlers' = (handlers /\ what # "handlers")
  /\ sockets' = IF what \in {"ws", "udp"} /\ closing[what] THEN sockets \ {what} ELSE sockets
  /\ closing' = IF closing.next = 4 THEN Nobody ELSE [closing EXCEPT !.next = @ + 1]
  /\ UNCHANGED <<setup, isEstablished, readyChan, isClosed, fields, network, reader, beats,
                 lost, outstanding, dave, asked, speech, ownerClosed>>

\* sendWSOpcode and writeBinaryMessage: what they find under wsWriteMu and mu...
Sends == wsConn /\ "ws" \in sockets

\* ...and what they write, which the gateway may never read; a write fails when it takes five
\* seconds.
Writes == Sends /\ ~unwritable
WriteFails == IF Sends THEN unwritable' = TRUE ELSE UNCHANGED unwritable

\* Mutant: a loss counts only once the connection has been handed over.
TriggerWhenOpen ==
  /\ voiceLossOnce' = TRUE
  /\ loss' = IF voiceLossOnce \/ isClosed \/ setup # "open" THEN loss ELSE "close"
  /\ UNCHANGED reported

\* triggerVoiceLoss: once, and only as long as a worker can be started.
TriggerVoiceLoss ==
  /\ voiceLossOnce' = TRUE
  /\ loss' = IF voiceLossOnce \/ isClosed THEN loss ELSE "close"
  /\ UNCHANGED reported

LossCloses ==
  /\ loss = "close" /\ loss' = "report" /\ Close("loss")
  /\ UNCHANGED <<setup, isEstablished, readyChan, handlers, sockets, network, reader, beats,
                 voiceLossOnce, reported, outstanding, dave, asked, speech, ownerClosed>>

LossReports ==
  /\ loss = "report" /\ ~Busy("loss") /\ loss' = "done" /\ reported' = reported + 1
  /\ UNCHANGED <<setup, isEstablished, readyChan, closed, handlers, sockets, network, reader,
                 beats, voiceLossOnce, outstanding, dave, asked, speech, ownerClosed>>

(***************************************************************************)
(* ConnectDAVEVoiceContext.                                                *)
(***************************************************************************)

SetupRest == <<network, beats, lost, outstanding, dave, speech, ownerClosed>>

\* The handlers are registered, and the bot asks to leave and to join.
AddHandlers ==
  /\ setup = "handlers" /\ setup' = "wait" /\ handlers' = TRUE
  /\ UNCHANGED <<isEstablished, readyChan, closed, sockets, reader, asked, SetupRest>>

\* waitForGatewaySetup has an endpoint, a token and a session.
GatewayAnswers ==
  /\ setup = "wait" /\ setup' = "dial"
  /\ UNCHANGED <<isEstablished, readyChan, closed, handlers, sockets, reader, asked, SetupRest>>

Dial ==
  /\ setup = "dial" /\ setup' = "adopt" /\ sockets' = sockets \cup {"ws"}
  /\ UNCHANGED <<isEstablished, readyChan, closed, handlers, reader, asked, SetupRest>>

\* A timer, the caller's context, or a call that failed: the connection is closed and the
\* caller gets an error.  This is the end of every stage that can fail.
SetupFails ==
  /\ setup \in {"handlers", "wait", "dial", "identify", "ready", "dave"} /\ setup' = "error"
  /\ Close("setup")
  /\ UNCHANGED <<isEstablished, readyChan, handlers, sockets, reader, asked, SetupRest>>

Adopt ==
  /\ setup = "adopt"
  /\ IF isClosed THEN setup' = "error" /\ sockets' = sockets \ {"ws"} /\ UNCHANGED wsConn
     ELSE setup' = "start" /\ wsConn' = TRUE /\ UNCHANGED sockets
  /\ UNCHANGED <<isEstablished, readyChan, isClosed, udpConn, daveSess, closing, handlers,
                 reader, asked, SetupRest>>

StartReader ==
  /\ setup = "start" /\ setup' = "identify"
  /\ reader' = IF isClosed THEN reader ELSE "read"
  /\ UNCHANGED <<isEstablished, readyChan, closed, handlers, sockets, asked, SetupRest>>

Identify ==
  /\ setup = "identify" /\ Writes /\ setup' = "ready" /\ asked' = 1
  /\ UNCHANGED <<isEstablished, readyChan, closed, handlers, sockets, reader, SetupRest>>

\* The ready channel is closed; when the connection has been closed since, there is no DAVE
\* session to wait for, and it is handed over all the same.
Established ==
  /\ setup = "ready" /\ readyChan /\ isEstablished' = TRUE
  /\ setup' = IF daveSess /\ version > 0 THEN "dave" ELSE "open"
  /\ UNCHANGED <<readyChan, closed, handlers, sockets, reader, asked, SetupRest>>

DaveReady ==
  /\ setup = "dave" /\ e2ee /\ setup' = "open"
  /\ UNCHANGED <<isEstablished, readyChan, closed, handlers, sockets, reader, asked, SetupRest>>

\* handleVoiceServerUpdate: the server of an established connection has changed.
ServerMoves ==
  /\ handlers /\ isEstablished /\ ~isClosed /\ ~voiceLossOnce /\ TriggerVoiceLoss
  /\ UNCHANGED <<setup, isEstablished, readyChan, closed, handlers, sockets, network, reader,
                 beats, outstanding, dave, asked, speech, ownerClosed>>

(***************************************************************************)
(* readLoop.                                                               *)
(***************************************************************************)

WriterRest == <<setup, isEstablished, handlers, broken, ownerClosed>>
ReaderRest == <<WriterRest, unwritable>>
Reading == reader = "read" /\ ~Busy("reader") /\ wsConn
Reads == Reading /\ "ws" \in sockets /\ ~broken

\* The field is empty, or reading fails: then the loss is reported unless the connection
\* has been closed.
ReaderEnds ==
  /\ reader = "read" /\ ~Busy("reader") /\ reader' = "done"
  /\ \/ ~wsConn /\ UNCHANGED lost
     \/ (broken \/ "ws" \notin sockets) /\ IF isClosed THEN UNCHANGED lost ELSE TriggerVoiceLoss
  /\ UNCHANGED <<ReaderRest, readyChan, closed, sockets, beats, outstanding, dave, asked, speech>>

\* Opcode 8.
Hello ==
  /\ Reads /\ beats = "none" /\ beats' = "on"
  /\ UNCHANGED <<ReaderRest, readyChan, closed, sockets, reader, lost, outstanding, dave, asked, speech>>

\* Opcode 6: the heartbeat it names and the earlier ones are answered.
Ack ==
  /\ Reads /\ \E left \in 0..(outstanding - 1) : outstanding > 0 /\ outstanding' = left
  /\ UNCHANGED <<ReaderRest, readyChan, closed, sockets, reader, beats, lost, dave, asked, speech>>

\* Opcode 2, and setupUDP.
Ready ==
  /\ Reads /\ asked = 1 /\ reader' = "adopt" /\ sockets' = sockets \cup {"udp"}
  /\ UNCHANGED <<ReaderRest, readyChan, closed, beats, lost, outstanding, dave, asked, speech>>

AdoptUDP ==
  /\ reader = "adopt"
  /\ IF isClosed THEN sockets' = sockets \ {"udp"} /\ reader' = "read" /\ UNCHANGED udpConn
     ELSE udpConn' = TRUE /\ reader' = "discover" /\ UNCHANGED sockets
  /\ UNCHANGED <<ReaderRest, readyChan, isClosed, wsConn, daveSess, closing, beats, lost,
                 outstanding, dave, asked, speech>>

\* IP discovery, then opcode 1.
SelectProtocol ==
  /\ reader = "discover" /\ ~isClosed /\ Writes /\ asked' = 2 /\ reader' = "read"
  /\ UNCHANGED <<ReaderRest, readyChan, closed, sockets, beats, lost, outstanding, dave, speech>>

\* It failed, or the connection was closed meanwhile: clearUDP.
ClearUDP ==
  /\ reader = "discover" /\ reader' = "read"
  /\ udpConn' = FALSE /\ sockets' = sockets \ {"udp"}
  /\ UNCHANGED unwritable \/ WriteFails
  /\ UNCHANGED <<WriterRest, readyChan, isClosed, wsConn, daveSess, closing, beats, lost,
                 outstanding, dave, asked, speech>>

\* No encryption mode in common; opcode 4 with a short key.
ReaderCloses ==
  /\ \/ reader = "discover"
     \/ Reads /\ asked = 2 /\ ~readyChan
  /\ reader' = "read" /\ Close("reader")
  /\ UNCHANGED <<ReaderRest, readyChan, sockets, beats, lost, outstanding, dave, asked, speech>>

\* Opcode 4: the protocol is selected, what was said is said again...
SessionDescription ==
  /\ Reads /\ asked = 2 /\ ~readyChan /\ reader' = "describe"
  /\ \E v \in 0..1 : version' = v
  /\ UNCHANGED <<ReaderRest, readyChan, closed, sockets, beats, lost, outstanding, e2ee, invalid,
                 asked, speech>>

\* ...and the ready channel closed.
CloseReadyChan ==
  /\ reader = "describe" /\ reader' = "read" /\ readyChan' = (readyChan \/ ~isClosed)
  /\ UNCHANGED <<ReaderRest, closed, sockets, beats, lost, outstanding, dave, asked, speech>>

\* Opcodes 21 to 30: the DAVE session prepares a transition, and tells the gateway that it
\* is ready for it...
Transition ==
  /\ Reads /\ version > 0 /\ e2ee' = FALSE /\ invalid' = 0
  /\ UNCHANGED unwritable \/ WriteFails
  /\ UNCHANGED <<WriterRest, readyChan, closed, sockets, reader, beats, lost, outstanding,
                 version, asked, speech>>

\* ...or that the commit was invalid, the third time giving the connection up; a counter
\* that is old starts anew.
InvalidCommit ==
  /\ Reads /\ version > 0 /\ ~voiceLossOnce
  /\ invalid' \in {1, invalid + 1}
  /\ IF invalid' >= MaxInvalid THEN TriggerVoiceLoss ELSE UNCHANGED lost
  /\ UNCHANGED unwritable \/ WriteFails
  /\ UNCHANGED <<WriterRest, readyChan, closed, sockets, reader, beats, outstanding, version,
                 e2ee, asked, speech>>

\* Opcode 22.
ExecuteTransition ==
  /\ Reads /\ version > 0 /\ e2ee' = TRUE /\ reader' = "resend"
  /\ UNCHANGED <<ReaderRest, readyChan, closed, sockets, beats, lost, outstanding, version,
                 invalid, asked, speech>>

(***************************************************************************)
(* heartbeatLoop.                                                          *)
(***************************************************************************)

BeatRest == <<setup, isEstablished, readyChan, closed, handlers, sockets, broken, reader, dave,
              asked, speech, ownerClosed>>

Heartbeat ==
  /\ beats = "on" /\ Writes /\ outstanding < MaxMissed /\ outstanding' = outstanding + 1
  /\ UNCHANGED <<BeatRest, unwritable, beats, lost>>

\* Two without an answer, or a write that failed.
HeartbeatFails ==
  /\ beats = "on" /\ beats' = "done"
  /\ IF outstanding = MaxMissed THEN UNCHANGED unwritable ELSE WriteFails
  /\ IF isClosed THEN UNCHANGED lost ELSE TriggerVoiceLoss
  /\ UNCHANGED <<BeatRest, outstanding>>

(***************************************************************************)
(* Speaking: both under speakingMu, from the reading to the sending.       *)
(***************************************************************************)

SpeechRest == <<setup, isEstablished, readyChan, closed, handlers, sockets, broken, beats, lost,
                outstanding, dave, asked, ownerClosed>>

\* Mutant: what is set is sent without the mutex.
SetSpeakingAtOnce(b) ==
  /\ setup = "open" /\ ~Busy("owner") /\ ~isClosed /\ speaking' = b
  /\ \/ Writes /\ heard' = b /\ UNCHANGED unwritable
     \/ WriteFails /\ UNCHANGED heard
  /\ UNCHANGED <<SpeechRest, reader, speakingMu, saying>>

SetSpeaking(b) ==
  /\ setup = "open" /\ ~Busy("owner") /\ ~isClosed /\ speakingMu = Nobody
  /\ speakingMu' = "owner" /\ speaking' = b /\ saying' = b
  /\ UNCHANGED <<SpeechRest, unwritable, reader, heard>>

\* sendSpeaking: if it fails, what was set stays set.
Say(who) ==
  /\ speakingMu = who /\ speakingMu' = Nobody /\ saying' = Unset
  /\ \/ Writes /\ heard' = saying /\ UNCHANGED unwritable
     \/ WriteFails /\ UNCHANGED heard
  /\ reader' = IF who = "reader" THEN "read" ELSE reader
  /\ UNCHANGED <<SpeechRest, speaking>>

ResendSpeaking ==
  /\ reader = "resend" /\ speakingMu = Nobody
  /\ IF isClosed \/ speaking = Unset THEN reader' = "read" /\ UNCHANGED speech
     ELSE /\ reader' = "saying" /\ speakingMu' = "reader" /\ saying' = speaking
          /\ UNCHANGED <<speaking, heard>>
  /\ UNCHANGED <<SpeechRest, unwritable>>

(***************************************************************************)
(* The owner, and the network.                                             *)
(***************************************************************************)

OwnerCloses ==
  /\ setup = "open" /\ ~ownerClosed /\ ownerClosed' = TRUE /\ Close("owner")
  /\ UNCHANGED <<setup, isEstablished, readyChan, handlers, sockets, network, reader, beats, lost,
                 outstanding, dave, asked, speech>>

Break ==
  /\ "ws" \in sockets /\ ~broken /\ broken' = TRUE
  /\ UNCHANGED <<unwritable, setup, isEstablished, readyChan, closed, handlers, sockets, reader,
                 beats, lost, outstanding, dave, asked, speech, ownerClosed>>

Next ==
  \/ CloseNext \/ LossCloses \/ LossReports
  \/ AddHandlers \/ GatewayAnswers \/ Dial \/ SetupFails \/ Adopt \/ StartReader \/ Identify
  \/ Established \/ DaveReady \/ ServerMoves
  \/ ReaderEnds \/ Hello \/ Ack \/ Ready \/ AdoptUDP \/ SelectProtocol \/ ClearUDP \/ ReaderCloses
  \/ SessionDescription \/ CloseReadyChan \/ Transition \/ InvalidCommit \/ ExecuteTransition
  \/ Heartbeat \/ HeartbeatFails
  \/ (\E b \in {"yes", "no"} : SetSpeaking(b)) \/ ResendSpeaking
  \/ \E who \in {"owner", "reader"} : Say(who)
  \/ OwnerCloses \/ Break

Spec == Init /\ [][Next]_vars

(***************************************************************************)
(* Properties.                                                             *)
(***************************************************************************)

\* Nobody is at work for the connection any more.
Stopped ==
  /\ closing = Nobody /\ setup \in {"open", "error"}
  /\ reader \in {"none", "done"} /\ beats \in {"none", "done"} /\ loss \in {"none", "done"}

\* Whoever closes the connection, at whatever stage of the setup and of setupUDP, no socket
\* and no event handler outlives its goroutines; and a setup that failed has closed it.
NothingStaysOpen ==
  /\ setup = "error" => isClosed
  /\ isClosed /\ Stopped => sockets = {} /\ ~handlers

\* A connection that was handed over does not die unnoticed: when nobody reads from it any
\* more it is closed, and, unless its owner did that, its loss has been reported once, even if
\* it was lost while it was still being set up.
LossIsReported ==
  setup = "open" /\ Stopped /\ (isClosed \/ reader = "done")
    => isClosed /\ (reported = 1 \/ ownerClosed)

\* What the gateway was last told of the bot's speaking is what the player last said, however
\* the player and the reader, who says it again after a transition, take turns: unless a write
\* has failed.  Then nothing can be said any more, and a heartbeat that has ended with it has
\* given the connection up.
SpeakingIsCurrent ==
  /\ speaking # Unset /\ speakingMu = Nobody /\ wsConn => heard = speaking \/ unwritable
  /\ unwritable /\ beats = "done" => isClosed \/ loss = "close"
=============================================================================
