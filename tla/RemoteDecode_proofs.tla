------------------------- MODULE RemoteDecode_proofs ------------------------
(* Proofs about RemoteDecode: its safety invariants hold, nothing is handled *)
(* twice, and its steps are steps of NewestFrameView.                        *)
EXTENDS RemoteDecode, TLAPS

\* What is known of a frame whose result is still to be handled: it is newer
\* than all handled so far, older than the one that waits, and it belongs to
\* the configuration in force exactly if it was not given up with an earlier
\* one.
Fits(f) ==
  /\ handled < f.serial /\ f.serial <= arrived
  /\ m_pendingRemoteJpeg # NoFrame => f.serial < arrived
  /\ f.generation <= m_remoteReceiveGeneration
  /\ f.generation = m_remoteReceiveGeneration =>
       /\ ~m_shuttingDown /\ m_networkSettingsValid
       /\ f.sender = m_peerAddress
       /\ discarded < f.serial
  /\ f.generation # m_remoteReceiveGeneration => f.serial <= discarded

UnderwayFits ==
  /\ \A i \in 1 .. Len(requests) : Fits(requests[i])
  /\ decoding # NoFrame => Fits(decoding)
  /\ \A i \in 1 .. Len(results) : Fits(results[i].frame)

\* A frame waits only in a running, configured session.
PendingInSession ==
  m_pendingRemoteJpeg # NoFrame =>
    /\ ~m_shuttingDown /\ m_networkSettingsValid
    /\ m_pendingRemoteJpeg.sender = m_peerAddress
    /\ discarded < m_pendingRemoteJpeg.serial

CountersOrdered == handled <= arrived /\ discarded <= arrived

ShutdownFlags == m_shutdown => m_shuttingDown

IInv ==
  /\ TypeOK /\ OneOutstandingDecode /\ NoStaleDisplay /\ PendingIsNewest
  /\ UnderwayFits /\ PendingInSession /\ CountersOrdered /\ ShutdownFlags
-----------------------------------------------------------------------------
\* In the initial state nothing is under way.
LEMMA InitIInv == Init => IInv
<1> SUFFICES ASSUME Init PROVE IInv
  OBVIOUS
<1> USE DEF Init
<1>1. TypeOK
  <2>1. <<>> \in Seq(Frame) /\ <<>> \in Seq(Result)
    OBVIOUS
  <2>2. "running" \in Phase
    BY DEF Phase
  <2> QED
    BY <2>1, <2>2 DEF TypeOK
<1>2. OneOutstandingDecode
  BY DEF OneOutstandingDecode, Outstanding, m_shuttingDown
<1>3. NoStaleDisplay /\ PendingIsNewest /\ PendingInSession
  BY DEF NoStaleDisplay, PendingIsNewest, PendingInSession
<1>4. UnderwayFits /\ CountersOrdered /\ ShutdownFlags
  BY DEF UnderwayFits, CountersOrdered, ShutdownFlags
<1> QED
  BY <1>1, <1>2, <1>3, <1>4 DEF IInv

\* A frame made of typed fields, and the request it becomes, are typed.
LEMMA StartTyped ==
  ASSUME TypeOK, NEW frame \in Frame, NEW busy \in BOOLEAN,
         StartRemoteJpegDecode(frame, busy)
  PROVE  m_remoteDecodeBusy' \in BOOLEAN /\ requests' \in Seq(Frame)
<1>1. m_remoteDecodeBusy' \in BOOLEAN
  BY Zenon DEF StartRemoteJpegDecode
<1>2. requests' \in Seq(Frame)
  <2>1. requests \in Seq(Frame)
    BY DEF TypeOK
  <2> QED
    BY <2>1 DEF StartRemoteJpegDecode
<1> QED
  BY <1>1, <1>2

LEMMA CompleteTyped ==
  ASSUME TypeOK, CompleteRemoteJpegDecode
  PROVE  /\ m_pendingRemoteJpeg' \in Frame \cup {NoFrame}
         /\ m_remoteDecodeBusy' \in BOOLEAN
         /\ requests' \in Seq(Frame)
<1>1. CASE m_pendingRemoteJpeg # NoFrame /\ CurrentGeneration(m_pendingRemoteJpeg)
  BY <1>1, StartTyped DEF CompleteRemoteJpegDecode, TypeOK
<1>2. CASE ~(m_pendingRemoteJpeg # NoFrame /\ CurrentGeneration(m_pendingRemoteJpeg))
  BY <1>2 DEF CompleteRemoteJpegDecode, TypeOK
<1> QED
  BY <1>1, <1>2

\* No step spoils a type.
LEMMA TypeStep == TypeOK /\ [Next]_vars => TypeOK'
<1> SUFFICES ASSUME TypeOK, [Next]_vars PROVE TypeOK'
  OBVIOUS
<1>1. ASSUME NEW sender \in Peer, OnUdpFrameReceived(sender) PROVE TypeOK'
  <2> DEFINE frame == [generation |-> m_remoteReceiveGeneration,
                       serial |-> arrived + 1, sender |-> sender]
  <2>1. frame \in Frame
    BY DEF TypeOK, Frame
  <2>2. ScheduleRemoteJpegDecode(frame)
    BY <1>1 DEF OnUdpFrameReceived
  <2>3. /\ m_pendingRemoteJpeg' \in Frame \cup {NoFrame}
        /\ m_remoteDecodeBusy' \in BOOLEAN
        /\ requests' \in Seq(Frame)
    <3> HIDE DEF frame
    <3>1. CASE ~m_remoteDecodeBusy
      BY <2>1, <2>2, <3>1, StartTyped DEF ScheduleRemoteJpegDecode, TypeOK
    <3>2. CASE m_remoteDecodeBusy
      BY <2>1, <2>2, <3>2 DEF ScheduleRemoteJpegDecode, TypeOK
    <3> QED
      BY <3>1, <3>2
  <2> QED
    BY <1>1, <2>3 DEF OnUdpFrameReceived, TypeOK
<1>2. CASE User
  <2>1. ASSUME NEW peer \in Peer, ApplyNetworkSettings(peer) PROVE TypeOK'
    BY <2>1 DEF ApplyNetworkSettings, ResetRemoteReceiveState, TypeOK
  <2>2. CASE RejectNetworkSettings \/ StopNetwork
    <3>1. m_networkSettingsValid' \in BOOLEAN
      BY <2>2, Zenon DEF RejectNetworkSettings, StopNetwork
    <3> QED
      BY <2>2, <3>1 DEF RejectNetworkSettings, StopNetwork,
                        ResetRemoteReceiveState, TypeOK
  <2>3. CASE ShutdownAll
    <3>1. m_networkSettingsValid' \in BOOLEAN /\ m_remoteDecodeBusy' \in BOOLEAN
      BY <2>3, Zenon DEF ShutdownAll
    <3> QED
      BY <2>3, <3>1 DEF ShutdownAll, TypeOK, Phase
  <2> QED
    BY <1>2, <2>1, <2>2, <2>3 DEF User
<1>3. CASE GuiResult
  <2>1. /\ CompleteRemoteJpegDecode
        /\ results # <<>> /\ results' = Tail(results)
        /\ handled' = Head(results).frame.serial
        /\ m_remoteFrame' \in {m_remoteFrame, Head(results).frame}
        /\ UNCHANGED <<m_remoteReceiveGeneration, m_networkSettingsValid,
                       m_peerAddress, decoding, m_shutdown, phase, arrived,
                       discarded>>
    BY <1>3 DEF GuiResult, OnRemoteFrameDecoded, OnRemoteFrameDecodeFailed
  <2>2. Head(results) \in Result /\ results' \in Seq(Result)
    BY <2>1 DEF TypeOK
  <2>3. Head(results).frame \in Frame /\ handled' \in Nat
    BY <2>1, <2>2 DEF Result, Frame
  <2> QED
    BY <2>1, <2>2, <2>3, CompleteTyped DEF TypeOK
<1>4. CASE GuiShutdown
  BY <1>4 DEF GuiShutdown, QuitDecoderThread, DeleteDecoderThread, TypeOK,
              Phase, guiVars
<1>5. CASE Decoder
  <2>1. CASE DecodeJpegBegins
    BY <2>1 DEF DecodeJpegBegins, TypeOK, guiVars
  <2>2. ASSUME NEW ok \in BOOLEAN, DecodeJpegEnds(ok) PROVE TypeOK'
    <3>1. [frame |-> decoding, ok |-> ok] \in Result
      BY <2>2 DEF DecodeJpegEnds, TypeOK, Result
    <3> QED
      BY <2>2, <3>1 DEF DecodeJpegEnds, TypeOK, guiVars
  <2>3. CASE DecoderShutdown \/ DecoderThreadFinishes
    BY <2>3 DEF DecoderShutdown, DecoderThreadFinishes, TypeOK, Phase, guiVars
  <2> QED
    BY <1>5, <2>1, <2>2, <2>3 DEF Decoder
<1>6. CASE UNCHANGED vars
  BY <1>6 DEF vars, guiVars, TypeOK
<1> QED
  BY <1>1, <1>2, <1>3, <1>4, <1>5, <1>6 DEF Next, Terminated
-----------------------------------------------------------------------------
\* Requests, results and the frame being decoded are frames.
LEMMA UnderwayTyped ==
  ASSUME TypeOK
  PROVE  /\ \A i \in 1 .. Len(requests) : requests[i] \in Frame
         /\ \A i \in 1 .. Len(results) : results[i].frame \in Frame
         /\ decoding # NoFrame => decoding \in Frame
<1>1. \A i \in 1 .. Len(requests) : requests[i] \in Frame
  BY DEF TypeOK
<1>2. \A i \in 1 .. Len(results) : results[i] \in Result
  BY DEF TypeOK
<1>3. \A r \in Result : r.frame \in Frame
  BY DEF Result
<1> QED
  BY <1>1, <1>2, <1>3 DEF TypeOK

\* When nothing moves, it is enough that what fits keeps fitting.
LEMMA StillFits ==
  ASSUME TypeOK, UnderwayFits, UNCHANGED <<requests, decoding, results>>,
         \A f \in Frame : Fits(f) => Fits(f)'
  PROVE  UnderwayFits'
<1>1. ASSUME NEW i \in 1 .. Len(requests) PROVE Fits(requests[i])'
  <2>1. Fits(requests[i]) /\ requests[i] \in Frame
    BY UnderwayTyped DEF UnderwayFits
  <2> QED
    BY <2>1 DEF Fits
<1>2. ASSUME decoding # NoFrame PROVE Fits(decoding)'
  <2>1. Fits(decoding) /\ decoding \in Frame
    BY <1>2, UnderwayTyped DEF UnderwayFits
  <2> QED
    BY <2>1 DEF Fits
<1>3. ASSUME NEW i \in 1 .. Len(results) PROVE Fits(results[i].frame)'
  <2>1. Fits(results[i].frame) /\ results[i].frame \in Frame
    BY UnderwayTyped DEF UnderwayFits
  <2> QED
    BY <2>1 DEF Fits
<1> QED
  BY <1>1, <1>2, <1>3 DEF UnderwayFits

\* A frame arrives: it goes to the idle decoder, or waits as the newest.
LEMMA ArrivalStep ==
  ASSUME IInv, TypeOK', NEW sender \in Peer, OnUdpFrameReceived(sender)
  PROVE  IInv'
<1> DEFINE frame == [generation |-> m_remoteReceiveGeneration,
                     serial |-> arrived + 1, sender |-> sender]
<1>1. /\ frame \in Frame
      /\ frame.generation = m_remoteReceiveGeneration
      /\ frame.serial = arrived + 1
      /\ frame.sender = m_peerAddress
  BY DEF OnUdpFrameReceived, FromPeer, IInv, TypeOK, Frame
<1>2. /\ ~m_shuttingDown /\ ~m_shuttingDown' /\ m_networkSettingsValid
      /\ arrived' = arrived + 1
      /\ ScheduleRemoteJpegDecode(frame)
      /\ UNCHANGED <<m_remoteReceiveGeneration, m_networkSettingsValid,
                     m_peerAddress, m_remoteFrame, decoding, m_shutdown, results,
                     phase, handled, discarded>>
  BY DEF OnUdpFrameReceived, m_shuttingDown
<1> HIDE DEF frame
<1>3. CASE ~m_remoteDecodeBusy
  <2>1. Len(requests) = 0 /\ Len(results) = 0 /\ decoding = NoFrame
    BY <1>2, <1>3 DEF IInv, OneOutstandingDecode, Outstanding, TypeOK
  <2>2. m_pendingRemoteJpeg = NoFrame /\ m_pendingRemoteJpeg' = NoFrame
    BY <1>2, <1>3 DEF IInv, PendingIsNewest, ScheduleRemoteJpegDecode
  <2>3. m_remoteDecodeBusy' /\ requests' = Append(requests, frame)
    BY <1>1, <1>2, <1>3 DEF ScheduleRemoteJpegDecode, StartRemoteJpegDecode
  <2>4. Len(requests') = 1 /\ requests'[1] = frame
    BY <1>1, <2>1, <2>3 DEF IInv, TypeOK
  <2>5. OneOutstandingDecode'
    BY <1>2, <2>1, <2>3, <2>4 DEF OneOutstandingDecode, Outstanding
  <2>6. UnderwayFits'
    BY <1>1, <1>2, <2>1, <2>2, <2>4
       DEF IInv, TypeOK, CountersOrdered, UnderwayFits, Fits
  <2> QED
    BY <1>2, <2>2, <2>5, <2>6
       DEF IInv, NoStaleDisplay, PendingIsNewest, PendingInSession,
           CountersOrdered, ShutdownFlags, TypeOK
<1>4. CASE m_remoteDecodeBusy
  <2>1. /\ m_pendingRemoteJpeg' = frame
        /\ UNCHANGED <<m_remoteDecodeBusy, requests>>
    BY <1>2, <1>4 DEF ScheduleRemoteJpegDecode
  <2>2. OneOutstandingDecode'
    BY <1>2, <2>1 DEF IInv, OneOutstandingDecode, Outstanding
  <2>3. ASSUME NEW f \in Frame, Fits(f) PROVE Fits(f)'
    BY <1>2, <2>3 DEF Fits, Frame, IInv, TypeOK
  <2>4. UnderwayFits'
    BY <1>2, <2>1, <2>3, StillFits DEF IInv
  <2>5. PendingIsNewest' /\ PendingInSession'
    BY <1>1, <1>2, <1>4, <2>1
       DEF PendingIsNewest, PendingInSession, IInv, CountersOrdered, TypeOK
  <2> QED
    BY <1>2, <2>2, <2>4, <2>5
       DEF IInv, NoStaleDisplay, CountersOrdered, ShutdownFlags, TypeOK
<1> QED
  BY <1>3, <1>4

\* A reconfiguration advances the generation: whatever is under way belongs to
\* an earlier one and has been given up, the display and the wait are empty.
LEMMA ResetStep ==
  ASSUME IInv, TypeOK',
         \/ \E peer \in Peer : ApplyNetworkSettings(peer)
         \/ RejectNetworkSettings \/ StopNetwork
  PROVE  IInv'
<1>1. /\ ~m_shuttingDown'
      /\ m_remoteReceiveGeneration' = m_remoteReceiveGeneration + 1
      /\ m_pendingRemoteJpeg' = NoFrame /\ m_remoteFrame' = NoFrame
      /\ discarded' = arrived
      /\ UNCHANGED <<m_remoteDecodeBusy, decoding, m_shutdown, requests, results,
                     phase, arrived, handled>>
  BY DEF ApplyNetworkSettings, RejectNetworkSettings, StopNetwork,
         ResetRemoteReceiveState, m_shuttingDown
<1>2. UnderwayFits'
  <2>1. \A f \in Frame : Fits(f) => Fits(f)'
    BY <1>1 DEF Fits, Frame, IInv, TypeOK
  <2> QED
    BY <1>1, <2>1, StillFits DEF IInv
<1>3. OneOutstandingDecode'
  BY <1>1 DEF IInv, OneOutstandingDecode, Outstanding, m_shuttingDown
<1> QED
  BY <1>1, <1>2, <1>3
     DEF IInv, NoStaleDisplay, PendingIsNewest, PendingInSession,
         CountersOrdered, ShutdownFlags, m_shuttingDown, TypeOK

\* So does the beginning of the shutdown, which also clears the busy flag: from
\* here on that flag says nothing.
LEMMA ShutdownAllStep == ASSUME IInv, TypeOK', ShutdownAll PROVE IInv'
<1>1. /\ ~m_shuttingDown /\ m_shuttingDown'
      /\ m_remoteReceiveGeneration' = m_remoteReceiveGeneration + 1
      /\ m_pendingRemoteJpeg' = NoFrame
      /\ discarded' = arrived
      /\ UNCHANGED <<decoding, m_shutdown, requests, results, arrived, handled>>
  BY DEF ShutdownAll, m_shuttingDown
<1>2. UnderwayFits'
  <2>1. \A f \in Frame : Fits(f) => Fits(f)'
    BY <1>1 DEF Fits, Frame, IInv, TypeOK
  <2> QED
    BY <1>1, <2>1, StillFits DEF IInv
<1>3. OneOutstandingDecode'
  BY <1>1 DEF IInv, OneOutstandingDecode, Outstanding, TypeOK
<1> QED
  BY <1>1, <1>2, <1>3
     DEF IInv, NoStaleDisplay, PendingIsNewest, PendingInSession,
         CountersOrdered, ShutdownFlags, TypeOK

\* The other steps of the shutdown move no frame.
LEMMA PhaseStep ==
  ASSUME IInv, TypeOK',
         QuitDecoderThread \/ DeleteDecoderThread \/ DecoderShutdown
           \/ DecoderThreadFinishes
  PROVE  IInv'
<1>1. /\ m_shuttingDown /\ m_shuttingDown'
      /\ UNCHANGED <<guiVars, decoding, requests, results, arrived, handled,
                     discarded>>
  BY DEF QuitDecoderThread, DeleteDecoderThread, DecoderShutdown,
         DecoderThreadFinishes, m_shuttingDown
<1>2. UnderwayFits'
  <2>1. \A f \in Frame : Fits(f) => Fits(f)'
    BY <1>1 DEF Fits, guiVars
  <2> QED
    BY <1>1, <2>1, StillFits DEF IInv
<1>3. OneOutstandingDecode'
  BY <1>1 DEF IInv, OneOutstandingDecode, Outstanding
<1> QED
  BY <1>1, <1>2, <1>3
     DEF IInv, NoStaleDisplay, PendingIsNewest, PendingInSession,
         CountersOrdered, ShutdownFlags, guiVars

\* The decoder's steps hand the one frame on, or drop it once shut down.
LEMMA DecodeStep ==
  ASSUME IInv, TypeOK', DecodeJpegBegins \/ \E ok \in BOOLEAN : DecodeJpegEnds(ok)
  PROVE  IInv'
<1>1. UNCHANGED <<guiVars, m_shutdown, phase, arrived, handled, discarded>>
  BY DEF DecodeJpegBegins, DecodeJpegEnds
<1>2. \A f \in Frame : Fits(f) => Fits(f)'
  BY <1>1 DEF Fits, guiVars, m_shuttingDown
<1>3. Outstanding <= 1
  BY DEF IInv, OneOutstandingDecode
<1>4. OneOutstandingDecode' /\ UnderwayFits'
  <2>1. CASE DecodeJpegBegins
    <3>1. /\ requests # <<>> /\ decoding = NoFrame
          /\ requests' = Tail(requests) /\ results' = results
      BY <2>1 DEF DecodeJpegBegins
    <3>2. Len(requests) = 1 /\ Len(requests') = 0 /\ Len(results) = 0
      <4>1. requests \in Seq(Frame) /\ results \in Seq(Result)
        BY DEF IInv, TypeOK
      <4>2. Len(requests) \in Nat \ {0} /\ Len(results) \in Nat
        BY <3>1, <4>1
      <4>3. Len(requests) = 1 /\ Len(results) = 0
        <5>1. Len(requests) + Len(results) + 0 <= 1
          BY <1>3, <3>1 DEF Outstanding
        <5> QED
          BY <4>2, <5>1
      <4> QED
        BY <3>1, <4>1, <4>3
    <3>3. Head(requests) = requests[1] /\ requests[1] \in Frame
      BY <3>1, <3>2, UnderwayTyped DEF IInv
    <3>4. m_shutdown => decoding' = NoFrame
      BY <2>1 DEF DecodeJpegBegins
    <3>5. ~m_shutdown => decoding' = requests[1]
      BY <2>1, <3>3 DEF DecodeJpegBegins
    <3>6. OneOutstandingDecode'
      <4>1. Outstanding = 1
        BY <3>1, <3>2 DEF Outstanding
      <4>2. CASE m_shutdown
        <5>1. Outstanding' = 0
          BY <3>1, <3>2, <3>4, <4>2 DEF Outstanding
        <5> QED
          BY <1>1, <4>2, <5>1
             DEF OneOutstandingDecode, IInv, ShutdownFlags, m_shuttingDown
      <4>3. CASE ~m_shutdown
        <5>1. decoding' # NoFrame
          BY <3>3, <3>5, <4>3, NoFrameAssumption
        <5>2. Outstanding' = 1
          BY <3>1, <3>2, <5>1 DEF Outstanding
        <5> QED
          BY <1>1, <4>1, <5>2 DEF OneOutstandingDecode, IInv, m_shuttingDown, guiVars
      <4> QED
        BY <4>2, <4>3
    <3>7. decoding' # NoFrame => Fits(decoding)'
      <4>1. Fits(requests[1])
        BY <3>2 DEF IInv, UnderwayFits
      <4> QED
        BY <1>2, <3>3, <3>4, <3>5, <4>1 DEF Fits
    <3>8. UnderwayFits'
      <4>1. Len(requests') = 0 /\ Len(results') = 0
        BY <3>1, <3>2
      <4> QED
        BY <3>7, <4>1 DEF UnderwayFits
    <3> QED
      BY <3>6, <3>8
  <2>2. ASSUME NEW ok \in BOOLEAN, DecodeJpegEnds(ok)
        PROVE OneOutstandingDecode' /\ UnderwayFits'
    <3> DEFINE result == [frame |-> decoding, ok |-> ok]
    <3>1. /\ decoding # NoFrame /\ decoding' = NoFrame
          /\ requests' = requests
          /\ results' = IF m_shuttingDown THEN results ELSE Append(results, result)
      BY <2>2 DEF DecodeJpegEnds
    <3>2. Len(requests) = 0 /\ Len(results) = 0 /\ results = <<>>
      BY <1>3, <3>1 DEF Outstanding, IInv, TypeOK
    <3>3. result.frame = decoding
      OBVIOUS
    <3> HIDE DEF result
    <3>4. IF m_shuttingDown THEN Len(results') = 0
          ELSE Len(results') = 1 /\ results'[1] = result
      BY <3>1, <3>2
    <3>5. OneOutstandingDecode'
      BY <1>1, <3>1, <3>2, <3>4
         DEF OneOutstandingDecode, Outstanding, IInv, m_shuttingDown, guiVars
    <3>6. Fits(decoding) /\ decoding \in Frame
      BY <3>1, UnderwayTyped DEF IInv, UnderwayFits
    <3>7. ASSUME NEW i \in 1 .. Len(results') PROVE Fits(results[i].frame)'
      <4>1. results'[i].frame = decoding
        BY <3>3, <3>4
      <4> QED
        BY <1>2, <3>6, <4>1 DEF Fits
    <3> QED
      BY <3>1, <3>2, <3>5, <3>7 DEF UnderwayFits
  <2> QED
    BY <2>1, <2>2
<1> QED
  BY <1>1, <1>4
     DEF IInv, NoStaleDisplay, PendingIsNewest, PendingInSession,
         CountersOrdered, ShutdownFlags, guiVars, m_shuttingDown

LEMMA NothingElse ==
  ASSUME NEW a \in Nat, NEW b \in Nat \ {0}, a + b <= 1
  PROVE  a = 0 /\ b = 1
OBVIOUS

\* What handling a result means for the frame it is about: it was the only one
\* under way, and it is shown only if it belongs to the current session.
LEMMA ResultHandled ==
  ASSUME IInv, GuiResult, NEW f, f = Head(results).frame
  PROVE  /\ f \in Frame /\ Fits(f)
         /\ Len(requests) = 0 /\ Len(results') = 0 /\ decoding = NoFrame
         /\ handled' = f.serial
         /\ CompleteRemoteJpegDecode
         /\ m_remoteFrame' # m_remoteFrame =>
              m_remoteFrame' = f /\ CurrentGeneration(f)
         /\ UNCHANGED <<m_remoteReceiveGeneration, m_networkSettingsValid,
                        m_peerAddress, decoding, m_shutdown, phase, arrived,
                        discarded>>
<1>1. /\ results # <<>> /\ results' = Tail(results)
      /\ handled' = f.serial
      /\ CompleteRemoteJpegDecode
      /\ m_remoteFrame' # m_remoteFrame =>
           m_remoteFrame' = f /\ CurrentGeneration(f)
      /\ UNCHANGED <<m_remoteReceiveGeneration, m_networkSettingsValid,
                     m_peerAddress, decoding, m_shutdown, phase, arrived,
                     discarded>>
  BY DEF GuiResult, OnRemoteFrameDecoded, OnRemoteFrameDecodeFailed
<1>2. requests \in Seq(Frame) /\ results \in Seq(Result)
  BY DEF IInv, TypeOK
<1>3. Len(requests) \in Nat /\ Len(results) \in Nat \ {0}
  BY <1>1, <1>2
<1>4. Outstanding <= 1
  BY DEF IInv, OneOutstandingDecode
<1>5. Len(requests) = 0 /\ Len(results) = 1 /\ decoding = NoFrame
  <2>1. Len(requests) + Len(results) <= 1
    BY <1>3, <1>4 DEF Outstanding
  <2>2. Len(requests) = 0 /\ Len(results) = 1
    BY <1>3, <2>1, NothingElse
  <2>3. decoding = NoFrame
    BY <1>4, <2>2 DEF Outstanding
  <2> QED
    BY <2>2, <2>3
<1>6. Len(results') = 0
  BY <1>1, <1>2, <1>5
<1>7. f = results[1].frame
  BY <1>1, <1>2
<1>8. f \in Frame /\ Fits(f)
  BY <1>5, <1>7, UnderwayTyped DEF IInv, UnderwayFits
<1> QED
  BY <1>1, <1>5, <1>6, <1>8

\* A result frees the decoder, which then takes the frame that waits, if any.
LEMMA ResultStep == ASSUME IInv, TypeOK', GuiResult PROVE IInv'
<1> DEFINE f == Head(results).frame
<1>1. /\ f \in Frame /\ Fits(f)
      /\ Len(requests) = 0 /\ Len(results') = 0 /\ decoding = NoFrame
      /\ handled' = f.serial
      /\ CompleteRemoteJpegDecode
      /\ m_remoteFrame' # m_remoteFrame =>
           m_remoteFrame' = f /\ CurrentGeneration(f)
      /\ UNCHANGED <<m_remoteReceiveGeneration, m_networkSettingsValid,
                     m_peerAddress, decoding, m_shutdown, phase, arrived,
                     discarded>>
  BY ResultHandled
<1> HIDE DEF f
<1>2. m_shuttingDown' <=> m_shuttingDown
  BY <1>1 DEF m_shuttingDown
<1>3. NoStaleDisplay'
  BY <1>1, <1>2 DEF IInv, NoStaleDisplay, Fits, CurrentGeneration
<1>4. CountersOrdered' /\ ShutdownFlags'
  BY <1>1, <1>2 DEF IInv, CountersOrdered, ShutdownFlags, Fits
<1>5. m_pendingRemoteJpeg' = NoFrame
  BY <1>1 DEF CompleteRemoteJpegDecode
<1>6. OneOutstandingDecode' /\ UnderwayFits'
  <2>1. CASE m_pendingRemoteJpeg # NoFrame
    <3> DEFINE g == m_pendingRemoteJpeg
    <3>1. /\ g \in Frame /\ ~m_shuttingDown /\ m_networkSettingsValid
          /\ g.generation = m_remoteReceiveGeneration
          /\ g.serial = arrived /\ g.sender = m_peerAddress
          /\ discarded < g.serial
      BY <2>1 DEF IInv, TypeOK, PendingInSession, PendingIsNewest
    <3>2. m_remoteDecodeBusy' /\ requests' = Append(requests, g)
      BY <1>1, <2>1, <3>1 DEF CompleteRemoteJpegDecode, CurrentGeneration, StartRemoteJpegDecode
    <3>3. Len(requests') = 1 /\ requests'[1] = g
      BY <1>1, <3>1, <3>2 DEF IInv, TypeOK
    <3>4. OneOutstandingDecode'
      <4>1. Outstanding' = 1
        BY <1>1, <3>3 DEF Outstanding
      <4> QED
        BY <3>2, <4>1 DEF OneOutstandingDecode
    <3>5. f.serial < arrived
      BY <1>1, <2>1 DEF Fits
    <3> HIDE DEF g
    <3>6. Fits(requests[1])'
      BY <1>1, <1>2, <1>5, <3>1, <3>3, <3>5 DEF Fits, IInv, TypeOK, Frame
    <3>7. UnderwayFits'
      BY <1>1, <3>3, <3>6 DEF UnderwayFits
    <3> QED
      BY <3>4, <3>7
  <2>2. CASE m_pendingRemoteJpeg = NoFrame
    <3>1. m_remoteDecodeBusy' = FALSE /\ requests' = requests
      BY <1>1, <2>2 DEF CompleteRemoteJpegDecode
    <3>2. Outstanding' = 0
      BY <1>1, <3>1 DEF Outstanding
    <3>3. OneOutstandingDecode'
      BY <3>1, <3>2 DEF OneOutstandingDecode
    <3>4. UnderwayFits'
      BY <1>1, <3>1 DEF UnderwayFits
    <3> QED
      BY <3>3, <3>4
  <2> QED
    BY <2>1, <2>2
<1> QED
  BY <1>3, <1>4, <1>5, <1>6 DEF IInv, PendingIsNewest, PendingInSession

LEMMA NextIInv == IInv /\ [Next]_vars => IInv'
<1> SUFFICES ASSUME IInv, [Next]_vars PROVE IInv'
  OBVIOUS
<1>0. TypeOK'
  BY TypeStep DEF IInv
<1>1. ASSUME NEW sender \in Peer, OnUdpFrameReceived(sender) PROVE IInv'
  BY <1>0, <1>1, ArrivalStep
<1>2. CASE User
  BY <1>0, <1>2, ResetStep, ShutdownAllStep DEF User
<1>3. CASE GuiResult
  BY <1>0, <1>3, ResultStep
<1>4. CASE GuiShutdown
  BY <1>0, <1>4, PhaseStep DEF GuiShutdown
<1>5. CASE Decoder
  BY <1>0, <1>5, PhaseStep, DecodeStep DEF Decoder
<1>6. CASE UNCHANGED vars
  <2>1. /\ UNCHANGED <<requests, decoding, results>> /\ UNCHANGED guiVars
        /\ UNCHANGED <<m_shutdown, phase, arrived, handled, discarded>>
    BY <1>6 DEF vars
  <2>2. \A f \in Frame : Fits(f) => Fits(f)'
    BY <2>1 DEF Fits, guiVars, m_shuttingDown
  <2>3. UnderwayFits'
    BY <2>1, <2>2, StillFits DEF IInv
  <2>4. OneOutstandingDecode'
    BY <2>1 DEF IInv, OneOutstandingDecode, Outstanding, m_shuttingDown, guiVars
  <2> QED
    BY <1>0, <2>1, <2>3, <2>4
       DEF IInv, NoStaleDisplay, PendingIsNewest, PendingInSession,
           CountersOrdered, ShutdownFlags, guiVars, m_shuttingDown
<1> QED
  BY <1>1, <1>2, <1>3, <1>4, <1>5, <1>6 DEF Next, Terminated
-----------------------------------------------------------------------------
LEMMA Invariance == Spec => []IInv
<1>1. Init => IInv
  BY InitIInv
<1>2. IInv /\ [Next]_vars => IInv'
  BY NextIInv
<1> QED
  BY <1>1, <1>2, PTL DEF Spec

\* Every variable keeps its type, for any set of peers and any bounds.
THEOREM TypeCorrect == Spec => []TypeOK
<1>1. IInv => TypeOK
  BY DEF IInv
<1> QED
  BY <1>1, Invariance, PTL

\* The busy flag tells the truth about both queues and the decoder thread: the
\* decoder never has two frames to work on, and never idles behind a raised flag.
THEOREM OneDecodeAtATime == Spec => []OneOutstandingDecode
<1>1. IInv => OneOutstandingDecode
  BY DEF IInv
<1> QED
  BY <1>1, Invariance, PTL

\* No result of an earlier network configuration is ever on display.
THEOREM DisplayIsCurrent == Spec => []NoStaleDisplay
<1>1. IInv => NoStaleDisplay
  BY DEF IInv
<1> QED
  BY <1>1, Invariance, PTL

\* The waiting frame is the newest, and a decode is under way that will fetch it.
THEOREM WaitingIsNewest == Spec => []PendingIsNewest
<1>1. IInv => PendingIsNewest
  BY DEF IInv
<1> QED
  BY <1>1, Invariance, PTL

\* Nothing is decoded or handled twice: what is under way is newer than what was
\* handled.
THEOREM NothingTwice == Spec => []NothingHandledTwice
<1>1. IInv => NothingHandledTwice
  BY DEF IInv, UnderwayFits, Fits, NothingHandledTwice
<1> QED
  BY <1>1, Invariance, PTL

-----------------------------------------------------------------------------
(* The refinement of NewestFrameView, but for its fairness. *)

Settled == IF handled > discarded THEN handled ELSE discarded
Shown == IF m_remoteFrame = NoFrame THEN 0 ELSE m_remoteFrame.serial

LEMMA ViewVars ==
  ASSUME UNCHANGED <<m_networkSettingsValid, arrived, Settled, Shown>>
  PROVE  [View!Next]_View!vars
BY DEF View!vars, Settled, Shown

\* A result of the session in force is settled; any other was settled before.
LEMMA ResultSettles == ASSUME IInv, GuiResult PROVE [View!Next]_View!vars
<1> DEFINE f == Head(results).frame
<1>1. /\ f \in Frame /\ Fits(f)
      /\ handled' = f.serial
      /\ m_remoteFrame' # m_remoteFrame =>
           m_remoteFrame' = f /\ CurrentGeneration(f)
      /\ UNCHANGED <<m_networkSettingsValid, arrived, discarded>>
  BY ResultHandled
<1> HIDE DEF f
<1>2. /\ f.serial \in Nat /\ arrived \in Nat /\ handled \in Nat
      /\ discarded \in Nat
  BY <1>1 DEF IInv, TypeOK, Frame
<1>3. CASE f.generation = m_remoteReceiveGeneration
  <2>1. /\ m_networkSettingsValid
        /\ f.serial \in Settled + 1 .. arrived
        /\ Settled' = f.serial
    BY <1>1, <1>2, <1>3 DEF Fits, Settled
  <2>2. Shown' \in {Shown, f.serial}
    BY <1>1, NoFrameAssumption DEF Shown
  <2>3. View!Settle
    BY <1>1, <2>1, <2>2 DEF View!Settle, Settled, Shown
  <2> QED
    BY <2>3 DEF View!Next
<1>4. CASE f.generation # m_remoteReceiveGeneration
  <2>1. m_remoteFrame' = m_remoteFrame
    BY <1>1, <1>4 DEF CurrentGeneration
  <2>2. Settled' = Settled
    BY <1>1, <1>2, <1>4 DEF Fits, Settled
  <2> QED
    BY <1>1, <2>1, <2>2, ViewVars DEF Shown
<1> QED
  BY <1>3, <1>4

\* The threads and queues implement the view: frames are settled in order, each
\* once, and a reconfiguration gives up all that was offered before it.
THEOREM ViewRefined == Spec => View!Safety
<1>1. Init => View!Init
  BY DEF Init, View!Init
<1>2. IInv /\ [Next]_vars => [View!Next]_View!vars
  <2> SUFFICES ASSUME IInv, [Next]_vars PROVE [View!Next]_View!vars
    OBVIOUS
  <2> USE DEF IInv, TypeOK, CountersOrdered
  <2>1. ASSUME NEW sender \in Peer, OnUdpFrameReceived(sender) PROVE View!Next
    BY <2>1 DEF OnUdpFrameReceived, View!Next, View!Offer
  <2>2. CASE \/ \E peer \in Peer : ApplyNetworkSettings(peer)
             \/ RejectNetworkSettings \/ StopNetwork
    <3>1. /\ m_networkSettingsValid' \in BOOLEAN
          /\ discarded' = arrived /\ m_remoteFrame' = NoFrame
          /\ UNCHANGED <<arrived, handled>>
      BY <2>2 DEF ApplyNetworkSettings, RejectNetworkSettings, StopNetwork,
                  ResetRemoteReceiveState
    <3>2. View!Reconfigure
      BY <3>1 DEF View!Reconfigure
    <3> QED
      BY <3>2 DEF View!Next
  <2>3. CASE ShutdownAll
    BY <2>3 DEF ShutdownAll, View!Next, View!Close
  <2>4. CASE GuiResult
    BY <2>4, ResultSettles
  <2>5. CASE GuiShutdown \/ Decoder \/ UNCHANGED vars
    <3>1. UNCHANGED <<m_networkSettingsValid, arrived, handled, discarded,
                      m_remoteFrame>>
      BY <2>5 DEF GuiShutdown, QuitDecoderThread, DeleteDecoderThread, Decoder,
                  DecodeJpegBegins, DecodeJpegEnds, DecoderShutdown,
                  DecoderThreadFinishes, vars, guiVars
    <3> QED
      BY <3>1, ViewVars DEF Settled, Shown
  <2> QED
    BY <2>1, <2>2, <2>3, <2>4, <2>5 DEF Next, User, Terminated
<1> QED
  BY <1>1, <1>2, Invariance, PTL DEF Spec, View!Safety
=============================================================================
