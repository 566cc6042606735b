------------------------------- MODULE Shutdown -------------------------------
(***************************************************************************)
(* Closing the program: MainWindow::shutdownAll in the GUI thread against  *)
(* the three workers in threads of their own, with whatever requests and   *)
(* events are under way.  What the workers do between is reduced to the    *)
(* devices they hold: CameraSession, AudioSession and RemoteDecode have    *)
(* the rest.                                                               *)
(***************************************************************************)
EXTENDS Naturals, Sequences

CONSTANTS
  RequestBound,   \* bound: requests queued for a worker by the open window
  EventBound      \* bound: events queued for the window when a worker adds one

ASSUME BoundsAssumption == RequestBound \in Nat /\ EventBound \in Nat

Worker == {"audio", "decoder", "camera"}

\* The order of the three calls in shutdownAll.
ShutdownOrder == <<"audio", "decoder", "camera">>

Devices == {"audio", "camera"}             \* workers that hold devices and timers
RefusesAfterShutdown == {"audio", "decoder"}     \* whose handlers read m_shutdown

VARIABLES
  m_shuttingDown,
  windowActive,   \* worker -> the window takes it to be at work (m_audioRunning,
                  \* m_remoteDecodeBusy, m_cameraOpening or m_cameraRunning)
  caller,         \* who runs shutdownAll: "none", "closeEvent", "destructor"
  step,           \* where the GUI thread is in it
  current,        \* position in ShutdownOrder
  announced,      \* arguments of the shutdownCompleted signals
  destroyed,      \* the window itself is gone
  connected,      \* the signals between the window and the workers
  requests,       \* worker -> queued for its thread
  events,         \* queued for the GUI thread
  thread,         \* worker -> "running", "finished" or "deleted"
  quitCalled,     \* threads whose event loop has been told to end
  m_workers,      \* worker objects that exist
  m_shutdown,     \* workers whose shutdown() has run
  device          \* workers holding their device

windowVars == <<m_shuttingDown, windowActive, destroyed>>
closingVars == <<caller, step, current, announced>>
workerVars == <<thread, m_workers, m_shutdown, device>>
vars == <<windowVars, closingVars, connected, requests, events, quitCalled, workerVars>>

Init ==
  /\ m_shuttingDown = FALSE
  /\ windowActive = [w \in Worker |-> FALSE]
  /\ caller = "none" /\ step = "call" /\ current = 1
  /\ announced = <<>> /\ destroyed = FALSE
  /\ connected = TRUE
  /\ requests = [w \in Worker |-> <<>>] /\ events = <<>>
  /\ thread = [w \in Worker |-> "running"] /\ quitCalled = {}
  /\ m_workers = Worker /\ m_shutdown = {} /\ device = {}
-----------------------------------------------------------------------------
(* The window, while its event loop runs. *)

InEventLoop == caller = "none" /\ ~destroyed

Post(w, request) == requests' = [requests EXCEPT ![w] = Append(@, request)]

\* The handlers of clicks and of received frames, each of which first looks at
\* m_shuttingDown.  A start is taken to succeed at once, but for audio; a frame
\* is decoded only when no other is.
WindowRequests(w, request) ==
  /\ InEventLoop /\ ~m_shuttingDown
  /\ Len(requests[w]) < RequestBound
  /\ request = "stop" => w \in Devices
  /\ w = "decoder" => ~windowActive[w]
  /\ Post(w, request)
  /\ windowActive' = IF request = "start" /\ w # "audio"
                     THEN [windowActive EXCEPT ![w] = TRUE] ELSE windowActive
  /\ UNCHANGED <<m_shuttingDown, destroyed, closingVars, connected, events, quitCalled,
                 workerVars>>

\* The window takes the next event off its queue.
WindowHandles(types) ==
  /\ InEventLoop
  /\ events # <<>> /\ Head(events).type \in types
  /\ events' = Tail(events)
  /\ UNCHANGED <<m_shuttingDown, destroyed, closingVars, connected, quitCalled, workerVars>>

\* Mutant: the handler does not look at m_shuttingDown.
OnStarted_AlsoWhenClosing ==
  /\ WindowHandles({"started"})
  /\ windowActive' = [windowActive EXCEPT ![Head(events).from] = TRUE]
  /\ UNCHANGED requests

\* onAudioStarted, onCameraStarted.
OnStarted ==
  /\ WindowHandles({"started"})
  /\ windowActive' = IF m_shuttingDown THEN windowActive
                     ELSE [windowActive EXCEPT ![Head(events).from] = TRUE]
  /\ UNCHANGED requests

\* onAudioStopped, onCameraStopped and the handlers of their errors.
OnEnded ==
  /\ WindowHandles({"stopped", "error"})
  /\ windowActive' = IF m_shuttingDown /\ Head(events).from = "camera" THEN windowActive
                     ELSE [windowActive EXCEPT ![Head(events).from] = FALSE]
  /\ UNCHANGED requests

\* onRemoteFrameDecoded and its failure: completeRemoteJpegDecode starts on the
\* frame that waited, if there is one and the window is not closing.
OnDecoded ==
  /\ WindowHandles({"decoded"})
  /\ \/ /\ windowActive' = [windowActive EXCEPT !["decoder"] = FALSE]
        /\ UNCHANGED requests
     \/ /\ ~m_shuttingDown
        /\ windowActive' = [windowActive EXCEPT !["decoder"] = TRUE]
        /\ Post("decoder", "start")

\* A picture or statistics; they change nothing here.
OnData == WindowHandles({"data"}) /\ UNCHANGED <<windowActive, requests>>
-----------------------------------------------------------------------------
(* shutdownAll. *)

\* Mutant: shutdownAll may be entered again.
Enter_Again(who) ==
  /\ m_shuttingDown' = TRUE
  /\ windowActive' = [w \in Worker |-> FALSE]
  /\ connected' = FALSE
  /\ caller' = who /\ current' = 1 /\ step' = "call"
  /\ UNCHANGED destroyed

\* The window's flags are reset and it is disconnected from its workers; events
\* already queued, on either side, will still be delivered.
Enter(who) ==
  \/ /\ ~m_shuttingDown
     /\ m_shuttingDown' = TRUE
     /\ windowActive' = [w \in Worker |-> FALSE]
     /\ connected' = FALSE
     /\ caller' = who /\ current' = 1 /\ step' = "call"
     /\ UNCHANGED destroyed
  \/ /\ m_shuttingDown
     /\ destroyed' = (who = "destructor")
     /\ UNCHANGED <<m_shuttingDown, windowActive, connected, caller, current, step>>

ShutdownAll(who) ==
  /\ InEventLoop
  /\ Enter(who)
  /\ UNCHANGED <<announced, requests, events, quitCalled, workerVars>>

CloseEvent == ShutdownAll("closeEvent")
Destructor == ShutdownAll("destructor")

At(place) == caller # "none" /\ step = place
w_current == ShutdownOrder[current]

\* Mutant: the call overtakes what is queued.
PostShutdown_Overtakes(w) ==
  requests' = [requests EXCEPT ![w] = <<"shutdown">> \o @]

\* invokeMethod puts the call behind what is queued.
PostShutdown(w) == Post(w, "shutdown")

\* A blocking call of the worker's shutdown, if there is someone to answer it.
CallShutdown ==
  /\ At("call")
  /\ IF thread[w_current] = "running" /\ w_current \in m_workers
     THEN step' = "blocked" /\ PostShutdown(w_current)
     ELSE step' = "quit" /\ UNCHANGED requests
  /\ UNCHANGED <<windowVars, caller, current, announced, connected, events, quitCalled,
                 workerVars>>

QuitThread ==
  /\ At("quit")
  /\ quitCalled' = quitCalled \cup {w_current}
  /\ step' = "wait"
  /\ UNCHANGED <<windowVars, caller, current, announced, connected, requests, events,
                 workerVars>>

\* wait() returns once the thread has finished; its QThread is deleted unless
\* the worker is still there.  A thread deleted before is passed over.
WaitAndDelete ==
  /\ At("wait")
  /\ thread[w_current] # "running"
  /\ thread' = IF w_current \in m_workers THEN thread
               ELSE [thread EXCEPT ![w_current] = "deleted"]
  /\ IF current = Len(ShutdownOrder)
     THEN step' = "verdict" /\ UNCHANGED current
     ELSE step' = "call" /\ current' = current + 1
  /\ UNCHANGED <<windowVars, caller, announced, connected, requests, events, quitCalled,
                 m_workers, m_shutdown, device>>

\* m_shutdownCompleted is computed and announced, and shutdownAll returns.
Announce ==
  /\ At("verdict")
  /\ announced' = Append(announced, m_workers = {}
                                    /\ \A w \in Worker : thread[w] = "deleted")
  /\ destroyed' = (caller = "destructor")
  /\ caller' = "none"
  /\ UNCHANGED <<m_shuttingDown, windowActive, step, current, connected, requests, events,
                 quitCalled, workerVars>>

Closing == CallShutdown \/ QuitThread \/ WaitAndDelete \/ Announce
-----------------------------------------------------------------------------
(* A worker's thread. *)

\* What a worker signals is queued for the window unless they are disconnected
\* or the window is gone.
Emits(w, types) ==
  events' = IF ~connected THEN events
            ELSE events \o [i \in DOMAIN types |-> [from |-> w, type |-> types[i]]]

Serves(w, request) ==
  /\ thread[w] = "running" /\ requests[w] # <<>> /\ Head(requests[w]) = request
  /\ connected => Len(events) < EventBound
  /\ requests' = [requests EXCEPT ![w] = Tail(@)]
  /\ UNCHANGED <<windowVars, connected, quitCalled, thread, m_workers>>

Refuses(w) == w \in RefusesAfterShutdown /\ w \in m_shutdown

\* startAudio, startCamera: the device opens or it does not, whatever was open
\* before; startAudio of running audio does nothing.  decodeJpeg answers.
ServesStart(w) ==
  /\ Serves(w, "start")
  /\ UNCHANGED <<closingVars, m_shutdown>>
  /\ \/ Refuses(w) /\ UNCHANGED <<device, events>>
     \/ ~Refuses(w) /\ w = "decoder" /\ Emits(w, <<"decoded">>) /\ UNCHANGED device
     \/ ~Refuses(w) /\ w = "audio" /\ w \in device /\ UNCHANGED <<device, events>>
     \/ ~Refuses(w) /\ w \in Devices /\ (w = "camera" \/ w \notin device)
        /\ \/ device' = device \cup {w} /\ Emits(w, <<"started">>)
           \/ device' = device \ {w} /\ Emits(w, <<"error">>)

\* stopAudio says so only if audio was running, stopCamera always.
ServesStop(w) ==
  /\ Serves(w, "stop")
  /\ UNCHANGED <<closingVars, m_shutdown>>
  /\ \/ Refuses(w) /\ UNCHANGED <<device, events>>
     \/ /\ ~Refuses(w)
        /\ device' = device \ {w}
        /\ Emits(w, IF w = "camera" \/ w \in device THEN <<"stopped">> ELSE <<>>)

\* The worker's shutdown() has run and the GUI thread goes on.
ServesShutdown(w) ==
  /\ Serves(w, "shutdown")
  /\ device' = device \ {w}
  /\ m_shutdown' = m_shutdown \cup {w}
  /\ step' = "quit"
  /\ UNCHANGED <<caller, current, announced, events>>

\* The worker's timers and devices, which signal or fail.
Works(w) ==
  /\ thread[w] = "running" /\ w \in device
  /\ connected => Len(events) < EventBound
  /\ \/ Emits(w, <<"data">>) /\ UNCHANGED device
     \/ /\ device' = device \ {w}
        /\ Emits(w, IF w = "camera" THEN <<"error", "stopped">> ELSE <<"stopped", "error">>)
  /\ UNCHANGED <<windowVars, closingVars, connected, requests, quitCalled, thread,
                 m_workers, m_shutdown>>

\* The event loop ends, what is still queued for it is lost, and on the signal
\* finished the worker is deleted, its destructor shutting it down, before
\* the thread counts as finished.
FinishThread(w) ==
  /\ thread[w] = "running" /\ w \in quitCalled
  /\ thread' = [thread EXCEPT ![w] = "finished"]
  /\ m_workers' = m_workers \ {w}
  /\ device' = device \ {w}
  /\ m_shutdown' = m_shutdown \cup {w}
  /\ requests' = [requests EXCEPT ![w] = <<>>]
  /\ UNCHANGED <<windowVars, closingVars, connected, events, quitCalled>>

Runs(w) == ServesStart(w) \/ ServesStop(w) \/ ServesShutdown(w) \/ FinishThread(w)
-----------------------------------------------------------------------------
\* The window is gone, and with it its workers.
Exited == destroyed /\ UNCHANGED vars

Next ==
  \/ \E w \in Worker, request \in {"start", "stop"} : WindowRequests(w, request)
  \/ OnStarted \/ OnEnded \/ OnDecoded \/ OnData
  \/ CloseEvent \/ Destructor \/ Closing
  \/ \E w \in Worker : Runs(w) \/ Works(w)
  \/ Exited

\* shutdownAll is straight-line code, and each worker's event loop runs; nobody
\* has to close the window, and no device has to deliver anything.
Spec == Init /\ [][Next]_vars /\ WF_vars(Closing) /\ \A w \in Worker : WF_vars(Runs(w))
-----------------------------------------------------------------------------
\* Closing is orderly, and ends, whatever is under way when it begins: each
\* worker is destroyed once, and after all of them, once, shutdownCompleted says
\* TRUE (mainwindow_exit_smoke_test.cpp:76-87, 203-213), though closeEvent and
\* the destructor both run shutdownAll and the GUI thread blocks on each worker.
Exit == INSTANCE OrderlyExit WITH
  closing <- m_shuttingDown, alive <- m_workers

ImplementsOrderlyExit == Exit!Spec

\* A device stays released once shutdown() has run.  CameraWorker does not
\* remember that it has (cpp, 230-244), so a request to open the camera that
\* came after it would: it relies on the order of its queue.
ReleasedForGood == m_shutdown \cap device = {}

\* The flags reset by shutdownAll stay down: events queued before the window was
\* disconnected reach their handlers after it, and none revives the session.
WindowStaysClosed == m_shuttingDown => \A w \in Worker : ~windowActive[w]
=============================================================================
