---------------------------- MODULE RemoteDecode ----------------------------
(***************************************************************************)
(* Decoding and display of the peer's video.  The GUI thread (MainWindow)  *)
(* hands complete JPEG frames to the RemoteVideoDecoder thread, at most    *)
(* one at a time, and keeps only the newest frame that arrived meanwhile.  *)
(* Both directions are Qt queued connections: two FIFO event queues.       *)
(* Results of an earlier network configuration are told apart by the       *)
(* receive generation that travels with every frame.                       *)
(***************************************************************************)
EXTENDS Naturals, Sequences

CONSTANTS
  Peer,              \* the endpoints (address and port) datagrams come from
  NoFrame,           \* the empty std::optional / null QImage
  MaxFrames,         \* bound: JPEG frames the transport delivers
  MaxGeneration      \* bound: values of the receive generation

Frame == [generation : Nat, serial : Nat, sender : Peer]

ASSUME NoFrameAssumption == NoFrame \notin Frame
ASSUME BoundsAssumption == MaxFrames \in Nat /\ MaxGeneration \in Nat

VARIABLES
  \* the GUI thread
  m_remoteReceiveGeneration,
  m_networkSettingsValid,   \* also: the transport's socket is bound
  m_peerAddress,
  m_remoteDecodeBusy,
  m_pendingRemoteJpeg,
  m_remoteFrame,            \* the frame on display
  \* the decoder thread
  decoding,                 \* the argument of the running decodeJpeg call
  m_shutdown,
  \* the event queues between them
  requests,                 \* requestRemoteJpegDecode, GUI -> decoder
  results,                  \* frameDecoded / frameDecodeFailed, decoder -> GUI
  \* the progress of shutdownAll
  phase,
  \* history: serial of the last frame scheduled, of the last result handled,
  \* and of the last frame scheduled before the generation last advanced
  arrived, handled, discarded

guiVars == <<m_remoteReceiveGeneration, m_networkSettingsValid, m_peerAddress,
             m_remoteDecodeBusy, m_pendingRemoteJpeg, m_remoteFrame>>
vars == <<guiVars, decoding, m_shutdown, requests, results, phase,
          arrived, handled, discarded>>

Phase == {"running", "closing", "acknowledged", "quitting", "finished", "done"}

Init ==
  /\ m_remoteReceiveGeneration = 1
  /\ m_networkSettingsValid = FALSE
  /\ m_peerAddress \in Peer
  /\ m_remoteDecodeBusy = FALSE
  /\ m_pendingRemoteJpeg = NoFrame
  /\ m_remoteFrame = NoFrame
  /\ decoding = NoFrame
  /\ m_shutdown = FALSE
  /\ requests = <<>>
  /\ results = <<>>
  /\ phase = "running"
  /\ arrived = 0
  /\ handled = 0
  /\ discarded = 0

m_shuttingDown == phase # "running"

\* The GUI thread sits in shutdownRemoteDecoderThread between these phases.
GuiBlocked == phase \notin {"running", "done"}
-----------------------------------------------------------------------------
(* The GUI thread. *)

\* startRemoteJpegDecode(frame); busy is the flag's value when it is called.
StartRemoteJpegDecode(frame, busy) ==
  IF ~m_shuttingDown /\ frame.generation = m_remoteReceiveGeneration
  THEN /\ m_remoteDecodeBusy' = TRUE
       /\ requests' = Append(requests, frame)
  ELSE /\ m_remoteDecodeBusy' = busy
       /\ UNCHANGED requests

\* Mutant: a waiting frame keeps its place when a newer one comes.
ScheduleRemoteJpegDecode_KeepsOldest(frame) ==
  \/ /\ ~m_remoteDecodeBusy
     /\ StartRemoteJpegDecode(frame, FALSE)
     /\ UNCHANGED m_pendingRemoteJpeg
  \/ /\ m_remoteDecodeBusy
     /\ m_pendingRemoteJpeg' = IF m_pendingRemoteJpeg = NoFrame
                               THEN frame ELSE m_pendingRemoteJpeg
     /\ UNCHANGED <<m_remoteDecodeBusy, requests>>

ScheduleRemoteJpegDecode(frame) ==
  \/ /\ ~m_remoteDecodeBusy
     /\ StartRemoteJpegDecode(frame, FALSE)
     /\ UNCHANGED m_pendingRemoteJpeg
  \/ /\ m_remoteDecodeBusy
     /\ m_pendingRemoteJpeg' = frame
     /\ UNCHANGED <<m_remoteDecodeBusy, requests>>

FromPeer(sender) == sender = m_peerAddress

\* onUdpFrameReceived for a JPEG frame.  Frames of other senders, test frames
\* and unsupported frames end in the early returns and change nothing here.
OnUdpFrameReceived(sender) ==
  /\ ~m_shuttingDown /\ m_networkSettingsValid
  /\ FromPeer(sender)
  /\ arrived < MaxFrames
  /\ arrived' = arrived + 1
  /\ ScheduleRemoteJpegDecode([generation |-> m_remoteReceiveGeneration,
                               serial |-> arrived + 1, sender |-> sender])
  /\ UNCHANGED <<m_remoteReceiveGeneration, m_networkSettingsValid,
                 m_peerAddress, m_remoteFrame, decoding, m_shutdown, results,
                 phase, handled, discarded>>

\* Mutant: the generation of the result is not looked at.
CurrentGeneration_Any(frame) == ~m_shuttingDown /\ m_networkSettingsValid

CurrentGeneration(frame) ==
  /\ ~m_shuttingDown
  /\ frame.generation = m_remoteReceiveGeneration
  /\ m_networkSettingsValid

\* Mutant: the waiting frame is decoded but not taken off.
CompleteRemoteJpegDecode_KeepsPending ==
  /\ UNCHANGED m_pendingRemoteJpeg
  /\ IF m_pendingRemoteJpeg # NoFrame /\ CurrentGeneration(m_pendingRemoteJpeg)
     THEN StartRemoteJpegDecode(m_pendingRemoteJpeg, FALSE)
     ELSE m_remoteDecodeBusy' = FALSE /\ UNCHANGED requests

\* completeRemoteJpegDecode: frees the decoder, then gives it what waits.
CompleteRemoteJpegDecode ==
  /\ m_pendingRemoteJpeg' = NoFrame
  /\ IF m_pendingRemoteJpeg # NoFrame /\ CurrentGeneration(m_pendingRemoteJpeg)
     THEN StartRemoteJpegDecode(m_pendingRemoteJpeg, FALSE)
     ELSE m_remoteDecodeBusy' = FALSE /\ UNCHANGED requests

OnRemoteFrameDecoded ==
  /\ ~GuiBlocked /\ results # <<>> /\ Head(results).ok
  /\ results' = Tail(results)
  /\ m_remoteFrame' = IF CurrentGeneration(Head(results).frame)
                      THEN Head(results).frame ELSE m_remoteFrame
  /\ handled' = Head(results).frame.serial
  /\ CompleteRemoteJpegDecode
  /\ UNCHANGED <<m_remoteReceiveGeneration, m_networkSettingsValid,
                 m_peerAddress, decoding, m_shutdown, phase, arrived,
                 discarded>>

\* Mutant: a failed decode does not free the decoder.
OnRemoteFrameDecodeFailed_StaysBusy ==
  /\ ~GuiBlocked /\ results # <<>> /\ ~Head(results).ok
  /\ results' = Tail(results)
  /\ handled' = Head(results).frame.serial
  /\ UNCHANGED <<guiVars, requests, decoding, m_shutdown, phase, arrived,
                 discarded>>

OnRemoteFrameDecodeFailed ==
  /\ ~GuiBlocked /\ results # <<>> /\ ~Head(results).ok
  /\ results' = Tail(results)
  /\ handled' = Head(results).frame.serial
  /\ CompleteRemoteJpegDecode
  /\ UNCHANGED <<m_remoteReceiveGeneration, m_networkSettingsValid,
                 m_peerAddress, m_remoteFrame, decoding, m_shutdown, phase,
                 arrived, discarded>>

\* Mutant: the busy flag is cleared, as if the decode under way could be recalled.
ResetRemoteReceiveState_ClearsBusy ==
  /\ m_remoteReceiveGeneration < MaxGeneration
  /\ m_remoteReceiveGeneration' = m_remoteReceiveGeneration + 1
  /\ m_pendingRemoteJpeg' = NoFrame
  /\ m_remoteFrame' = NoFrame
  /\ discarded' = arrived
  /\ m_remoteDecodeBusy' = FALSE

\* resetRemoteReceiveState: the busy flag stays up while the thread runs, the
\* decode it stands for is still on its way.
ResetRemoteReceiveState ==
  /\ m_remoteReceiveGeneration < MaxGeneration
  /\ m_remoteReceiveGeneration' = m_remoteReceiveGeneration + 1
  /\ m_pendingRemoteJpeg' = NoFrame
  /\ m_remoteFrame' = NoFrame
  /\ discarded' = arrived
  /\ UNCHANGED m_remoteDecodeBusy

\* onApplyNetworkSettingsClicked up to a bound socket...
ApplyNetworkSettings(peer) ==
  /\ phase = "running"
  /\ ResetRemoteReceiveState
  /\ m_peerAddress' = peer
  /\ m_networkSettingsValid' = TRUE
  /\ UNCHANGED <<decoding, m_shutdown, requests, results, phase, arrived,
                 handled>>

\* ... and its returns for a bad peer address, a bad local address and a
\* failed bind: the transport is closed, the peer configured before is kept.
RejectNetworkSettings ==
  /\ phase = "running"
  /\ ResetRemoteReceiveState
  /\ m_networkSettingsValid' = FALSE
  /\ UNCHANGED <<m_peerAddress, decoding, m_shutdown, requests, results,
                 phase, arrived, handled>>

\* onStopNetworkClicked; its button is enabled while the settings are valid.
StopNetwork ==
  /\ phase = "running" /\ m_networkSettingsValid
  /\ ResetRemoteReceiveState
  /\ m_networkSettingsValid' = FALSE
  /\ UNCHANGED <<m_peerAddress, decoding, m_shutdown, requests, results,
                 phase, arrived, handled>>

\* shutdownAll up to the blocking call of RemoteVideoDecoder::shutdown.  The
\* signals are disconnected: results posted before are still delivered.
ShutdownAll ==
  /\ phase = "running"
  /\ phase' = "closing"
  /\ m_networkSettingsValid' = FALSE
  /\ m_pendingRemoteJpeg' = NoFrame
  /\ m_remoteDecodeBusy' = FALSE
  /\ m_remoteReceiveGeneration' = m_remoteReceiveGeneration + 1
  /\ discarded' = arrived
  /\ UNCHANGED <<m_peerAddress, m_remoteFrame, decoding, m_shutdown,
                 requests, results, arrived, handled>>

\* The blocking call returned: quit() asks the decoder's event loop to end.
QuitDecoderThread ==
  /\ phase = "acknowledged"
  /\ phase' = "quitting"
  /\ UNCHANGED <<guiVars, decoding, m_shutdown, requests, results, arrived,
                 handled, discarded>>

\* wait() returned, the worker is gone: the QThread is deleted.
DeleteDecoderThread ==
  /\ phase = "finished"
  /\ phase' = "done"
  /\ UNCHANGED <<guiVars, decoding, m_shutdown, requests, results, arrived,
                 handled, discarded>>
-----------------------------------------------------------------------------
(* The decoder thread. *)

\* The event loop takes the next request and enters decodeJpeg.
DecodeJpegBegins ==
  /\ requests # <<>> /\ decoding = NoFrame
  /\ requests' = Tail(requests)
  /\ decoding' = IF m_shutdown THEN NoFrame ELSE Head(requests)
  /\ UNCHANGED <<guiVars, m_shutdown, results, phase, arrived, handled,
                 discarded>>

\* Mutant: the input is released before it is reported.
DecodeJpegEnds_AfterRelease(ok) ==
  /\ decoding # NoFrame
  /\ decoding' = NoFrame
  /\ results' = IF m_shuttingDown THEN results
                ELSE Append(results, [frame |-> decoding', ok |-> ok])
  /\ UNCHANGED <<guiVars, m_shutdown, requests, phase, arrived, handled,
                 discarded>>

\* decodeJpeg emits frameDecoded or frameDecodeFailed, exactly one of them; a
\* signal disconnected by shutdownAll reaches nobody.
DecodeJpegEnds(ok) ==
  /\ decoding # NoFrame
  /\ decoding' = NoFrame
  /\ results' = IF m_shuttingDown THEN results
                ELSE Append(results, [frame |-> decoding, ok |-> ok])
  /\ UNCHANGED <<guiVars, m_shutdown, requests, phase, arrived, handled,
                 discarded>>

\* The shutdown call comes after the requests queued before it.
DecoderShutdown ==
  /\ phase = "closing" /\ requests = <<>> /\ decoding = NoFrame
  /\ m_shutdown' = TRUE
  /\ phase' = "acknowledged"
  /\ UNCHANGED <<guiVars, decoding, requests, results, arrived, handled,
                 discarded>>

\* The event loop ends; finished() deletes the worker (deleteLater).
DecoderThreadFinishes ==
  /\ phase = "quitting" /\ decoding = NoFrame
  /\ phase' = "finished"
  /\ UNCHANGED <<guiVars, decoding, m_shutdown, requests, results, arrived,
                 handled, discarded>>
-----------------------------------------------------------------------------
User == \/ \E peer \in Peer : ApplyNetworkSettings(peer)
        \/ RejectNetworkSettings
        \/ StopNetwork
        \/ ShutdownAll

GuiResult == OnRemoteFrameDecoded \/ OnRemoteFrameDecodeFailed

GuiShutdown == QuitDecoderThread \/ DeleteDecoderThread

Decoder == \/ DecodeJpegBegins
           \/ \E ok \in BOOLEAN : DecodeJpegEnds(ok)
           \/ DecoderShutdown
           \/ DecoderThreadFinishes

\* The process has left shutdownAll with nothing to deliver.
Terminated == phase = "done" /\ results = <<>> /\ UNCHANGED vars

Next == \/ \E sender \in Peer : OnUdpFrameReceived(sender)
        \/ User \/ GuiResult \/ GuiShutdown \/ Decoder \/ Terminated

\* Both event loops deliver what is posted to them and a decode call returns;
\* nothing obliges the user or the network.
Fairness == WF_vars(GuiResult) /\ WF_vars(GuiShutdown) /\ WF_vars(Decoder)

Spec == Init /\ [][Next]_vars /\ Fairness
-----------------------------------------------------------------------------
(* Properties. *)

Result == [frame : Frame, ok : BOOLEAN]

\* Every variable keeps its type; no decode request or result is ever malformed.
TypeOK ==
  /\ m_remoteReceiveGeneration \in Nat
  /\ m_networkSettingsValid \in BOOLEAN
  /\ m_peerAddress \in Peer
  /\ m_remoteDecodeBusy \in BOOLEAN
  /\ m_pendingRemoteJpeg \in Frame \cup {NoFrame}
  /\ m_remoteFrame \in Frame \cup {NoFrame}
  /\ decoding \in Frame \cup {NoFrame}
  /\ m_shutdown \in BOOLEAN
  /\ requests \in Seq(Frame)
  /\ results \in Seq(Result)
  /\ phase \in Phase
  /\ arrived \in Nat
  /\ handled \in Nat
  /\ discarded \in Nat

Outstanding == Len(requests) + Len(results) + (IF decoding = NoFrame THEN 0 ELSE 1)

\* The busy flag is the truth about the two queues and the decoder: one frame
\* is in processing exactly while it is set, across any number of network
\* reconfigurations, and never are there two (mainwindow.cpp, 1193-1240).
OneOutstandingDecode ==
  IF m_shuttingDown THEN Outstanding <= 1
  ELSE Outstanding = IF m_remoteDecodeBusy THEN 1 ELSE 0

\* What is on display was received under the network configuration in force
\* and from its peer: no result of an earlier configuration reappears after
\* the display was cleared (mainwindow.cpp, 1256-1260).
NoStaleDisplay ==
  ~m_shuttingDown /\ m_remoteFrame # NoFrame =>
    /\ m_networkSettingsValid
    /\ m_remoteFrame.generation = m_remoteReceiveGeneration
    /\ m_remoteFrame.sender = m_peerAddress

\* A waiting frame is the newest the transport delivered, and it waits for a
\* decode whose result is still to come (mainwindow.cpp, 1198-1201).
PendingIsNewest ==
  m_pendingRemoteJpeg # NoFrame =>
    /\ m_remoteDecodeBusy
    /\ m_pendingRemoteJpeg.generation = m_remoteReceiveGeneration
    /\ m_pendingRemoteJpeg.serial = arrived

\* What is on its way to the decoder, in it or back is newer than every frame
\* whose result has been handled: nothing is decoded twice, neither a superseded
\* nor a failed frame comes back (mainwindow.cpp, 1231-1235).
NothingHandledTwice ==
  /\ \A i \in 1 .. Len(requests) : handled < requests[i].serial
  /\ decoding # NoFrame => handled < decoding.serial
  /\ \A i \in 1 .. Len(results) : handled < results[i].frame.serial

\* The threads and queues implement the view: in particular every frame is
\* eventually settled, the newest shown or failed, although a result may come
\* from an earlier configuration and frames are replaced while they wait.
View == INSTANCE NewestFrameView WITH
  open <- m_networkSettingsValid,
  offered <- arrived,
  settled <- IF handled > discarded THEN handled ELSE discarded,
  shown <- IF m_remoteFrame = NoFrame THEN 0 ELSE m_remoteFrame.serial

ImplementsView == View!Spec
=============================================================================
