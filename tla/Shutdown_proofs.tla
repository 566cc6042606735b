---------------------------- MODULE Shutdown_proofs ----------------------------
(* Proofs about Shutdown: whatever is queued when the window closes, nothing  *)
(* is opened after a worker's shutdown, no late event revives the session,    *)
(* and the program's steps are those of OrderlyExit.  The bounds on queues    *)
(* are not used.                                                              *)
EXTENDS Shutdown, Integers, SequenceTheorems, TLAPS

Types ==
  /\ m_shuttingDown \in BOOLEAN
  /\ windowActive \in [Worker -> BOOLEAN]
  /\ caller \in {"none", "closeEvent", "destructor"}
  /\ step \in {"call", "blocked", "quit", "wait", "verdict"}
  /\ current \in 1 .. 3
  /\ requests \in [Worker -> Seq({"start", "stop", "shutdown"})]
  /\ thread \in [Worker -> {"running", "finished", "deleted"}]

\* Workers whose turn in shutdownAll is over.
Before == {ShutdownOrder[i] : i \in 1 .. current - 1}

\* Workers that shutdownAll has brought past the given steps.
Past(steps) == IF step \in steps THEN Before \cup {w_current} ELSE Before

\* Where shutdownAll is, before, while and after it runs.
Order ==
  /\ ~m_shuttingDown => /\ caller = "none" /\ announced = <<>>
                        /\ step = "call" /\ current = 1
  /\ m_shuttingDown /\ caller = "none" => step = "verdict"
  /\ step = "verdict" => current = 3
  /\ caller # "none" => announced = <<>>

\* The order of the calls is the order in which the workers end.
Progress ==
  /\ quitCalled \subseteq Past({"wait", "verdict"})
  /\ m_shutdown \subseteq Past({"quit", "wait", "verdict"})
  /\ \A w \in Past({"verdict"}) : thread[w] = "deleted"

Alive == m_workers = {w \in Worker : thread[w] = "running"}

\* A call of shutdown is the last request of its queue, and after it comes none.
Queues ==
  /\ \A w \in m_shutdown : requests[w] = <<>>
  /\ \A w \in Worker : \A i \in 1 .. Len(requests[w]) :
       requests[w][i] = "shutdown"
         => i = Len(requests[w]) /\ step = "blocked" /\ w = w_current

IInv == Types /\ Order /\ Progress /\ Alive /\ Queues /\ ReleasedForGood /\ WindowStaysClosed
-----------------------------------------------------------------------------
\* The workers in the order of their calls.
LEMMA Turns ==
  ASSUME current \in 1 .. 3
  PROVE  /\ w_current \in Worker /\ w_current \notin Before
         /\ Before \subseteq Worker
         /\ current = 3 => Before \cup {w_current} = Worker
<1>1. CASE current = 1
  BY <1>1 DEF w_current, Before, ShutdownOrder, Worker
<1>2. CASE current = 2
  BY <1>2 DEF w_current, Before, ShutdownOrder, Worker
<1>3. CASE current = 3
  BY <1>3 DEF w_current, Before, ShutdownOrder, Worker
<1> QED
  BY <1>1, <1>2, <1>3

LEMMA NextTurn ==
  ASSUME current \in 1 .. 2, current' = current + 1
  PROVE  Before' = Before \cup {w_current}
<1>1. CASE current = 1
  BY <1>1 DEF w_current, Before, ShutdownOrder
<1>2. CASE current = 2
  BY <1>2 DEF w_current, Before, ShutdownOrder
<1> QED
  BY <1>1, <1>2

LEMMA SameTurn ==
  ASSUME UNCHANGED current
  PROVE  Before' = Before /\ w_current' = w_current
BY DEF Before, w_current

LEMMA InitInv == Init => IInv
<1> SUFFICES ASSUME Init PROVE IInv
  OBVIOUS
<1>1. Types
  <2>1. <<>> \in Seq({"start", "stop", "shutdown"})
    OBVIOUS
  <2>2. requests \in [Worker -> Seq({"start", "stop", "shutdown"})]
    BY <2>1 DEF Init
  <2>3. /\ windowActive \in [Worker -> BOOLEAN]
        /\ thread \in [Worker -> {"running", "finished", "deleted"}]
    BY DEF Init
  <2>4. m_shuttingDown = FALSE /\ caller = "none" /\ step = "call" /\ current = 1
    BY DEF Init
  <2>5. m_shuttingDown \in BOOLEAN
    BY <2>4
  <2>6. current \in 1 .. 3
    BY <2>4
  <2> QED
    BY <2>2, <2>3, <2>4, <2>5, <2>6 DEF Types
<1>2. Order
  BY DEF Init, Order
<1>3. Before = {}
  BY DEF Init, Before
<1>4. Progress
  BY <1>3 DEF Init, Progress, Past
<1>5. Alive
  BY DEF Init, Alive
<1>6. Queues
  BY DEF Init, Queues
<1>7. ReleasedForGood /\ WindowStaysClosed
  BY DEF Init, ReleasedForGood, WindowStaysClosed
<1> QED
  BY <1>1, <1>2, <1>4, <1>5, <1>6, <1>7 DEF IInv
-----------------------------------------------------------------------------
\* A request that is no call of shutdown, of a window that is not closing.
LEMMA PostInv ==
  ASSUME IInv, ~m_shuttingDown, NEW w \in Worker, NEW request \in {"start", "stop"},
         Post(w, request), UNCHANGED <<current, step, m_shutdown>>
  PROVE  /\ requests' \in [Worker -> Seq({"start", "stop", "shutdown"})]
         /\ Queues'
<1>1. m_shutdown = {}
  BY DEF IInv, Order, Progress, Past, Before
<1>2. requests' = [requests EXCEPT ![w] = Append(@, request)]
  BY DEF Post
<1>3. /\ requests[w] \in Seq({"start", "stop", "shutdown"})
      /\ request \in {"start", "stop", "shutdown"}
  BY DEF IInv, Types
<1>4. Append(requests[w], request) \in Seq({"start", "stop", "shutdown"})
  BY <1>3
<1>5. requests' \in [Worker -> Seq({"start", "stop", "shutdown"})]
  BY <1>2, <1>4 DEF IInv, Types
<1>6. ASSUME NEW v \in Worker, NEW i \in 1 .. Len(requests'[v]),
             requests'[v][i] = "shutdown"
      PROVE  FALSE
  <2>1. \A u \in Worker : \A j \in 1 .. Len(requests[u]) : requests[u][j] # "shutdown"
    BY DEF IInv, Order, Queues
  <2>2. CASE v = w
    <3>1. requests'[v] = Append(requests[w], request)
      BY <1>2, <2>2 DEF IInv, Types
    <3> QED
      BY <1>3, <1>6, <2>1, <3>1
  <2>3. CASE v # w
    <3>1. requests'[v] = requests[v]
      BY <1>2, <2>3 DEF IInv, Types
    <3> QED
      BY <1>6, <2>1, <3>1
  <2> QED
    BY <2>2, <2>3
<1>7. Queues'
  BY <1>1, <1>6 DEF Queues
<1> QED
  BY <1>5, <1>7

\* What the window does while its event loop runs leaves shutdownAll and the
\* workers alone.
LEMMA WindowInv ==
  ASSUME IInv,
         UNCHANGED <<m_shuttingDown, closingVars, quitCalled, workerVars>>,
         windowActive' \in [Worker -> BOOLEAN],
         m_shuttingDown => \A w \in Worker : ~windowActive'[w],
         \/ UNCHANGED requests
         \/ ~m_shuttingDown /\ \E w \in Worker, request \in {"start", "stop"} :
                                 Post(w, request)
  PROVE  IInv'
<1>1. UNCHANGED <<caller, step, current, announced, thread, m_workers, m_shutdown, device>>
  BY DEF closingVars, workerVars
<1>2. Before' = Before /\ w_current' = w_current
  BY <1>1, SameTurn
<1>3. /\ requests' \in [Worker -> Seq({"start", "stop", "shutdown"})]
      /\ Queues'
  <2>1. CASE UNCHANGED requests
    BY <1>1, <1>2, <2>1 DEF IInv, Types, Queues
  <2>2. CASE ~m_shuttingDown /\ \E w \in Worker, request \in {"start", "stop"} :
                                  Post(w, request)
    BY <1>1, <2>2, PostInv
  <2> QED
    BY <2>1, <2>2
<1>4. Types'
  BY <1>1, <1>3 DEF IInv, Types
<1>5. Order'
  BY <1>1 DEF IInv, Order
<1>6. Progress'
  BY <1>1, <1>2 DEF IInv, Progress, Past
<1>7. Alive' /\ ReleasedForGood'
  BY <1>1 DEF IInv, Alive, ReleasedForGood
<1>8. WindowStaysClosed'
  BY DEF WindowStaysClosed
<1> QED
  BY <1>3, <1>4, <1>5, <1>6, <1>7, <1>8 DEF IInv

\* shutdownAll begins, or finds that it has run.
LEMMA EnterInv ==
  ASSUME IInv, NEW who \in {"closeEvent", "destructor"}, ShutdownAll(who)
  PROVE  IInv'
<1>1. caller = "none" /\ UNCHANGED <<announced, requests, thread, m_workers, m_shutdown,
                                     device, quitCalled>>
  BY DEF ShutdownAll, InEventLoop, workerVars
<1>2. CASE m_shuttingDown
  <2>1. UNCHANGED <<m_shuttingDown, windowActive, connected, caller, current, step>>
    BY <1>2 DEF ShutdownAll, Enter
  <2>2. Before' = Before /\ w_current' = w_current
    BY <2>1, SameTurn
  <2> QED
    BY <1>1, <2>1, <2>2
    DEF IInv, Types, Order, Progress, Past, Alive, Queues, ReleasedForGood,
        WindowStaysClosed
<1>3. CASE ~m_shuttingDown
  <2>1. /\ m_shuttingDown' = TRUE
        /\ windowActive' = [w \in Worker |-> FALSE]
        /\ caller' = who /\ current' = 1 /\ step' = "call"
    BY <1>3 DEF ShutdownAll, Enter
  <2>2. step = "call" /\ current = 1 /\ announced = <<>>
    BY <1>3 DEF IInv, Order
  <2>3. Before' = Before /\ w_current' = w_current
    BY <2>1, <2>2, SameTurn
  <2>4. Types'
    BY <1>1, <2>1 DEF IInv, Types
  <2>5. Order'
    BY <1>1, <2>1, <2>2 DEF Order
  <2>6. Progress' /\ Alive' /\ Queues' /\ ReleasedForGood'
    BY <1>1, <2>1, <2>2, <2>3
    DEF IInv, Progress, Past, Alive, Queues, ReleasedForGood
  <2>7. WindowStaysClosed'
    BY <2>1 DEF WindowStaysClosed
  <2> QED
    BY <2>4, <2>5, <2>6, <2>7 DEF IInv
<1> QED
  BY <1>2, <1>3

\* The call of shutdown goes behind what is queued.
LEMMA CallInv ==
  ASSUME IInv, CallShutdown
  PROVE  IInv'
<1>1. /\ caller # "none" /\ step = "call" /\ m_shuttingDown
      /\ UNCHANGED <<m_shuttingDown, windowActive, caller, current, announced, quitCalled,
                     thread, m_workers, m_shutdown, device>>
  BY DEF CallShutdown, At, windowVars, workerVars, IInv, Order, Types
<1>2. /\ Before' = Before /\ w_current' = w_current
      /\ w_current \in Worker /\ w_current \notin Before
  BY <1>1, SameTurn, Turns DEF IInv, Types
<1>3. CASE UNCHANGED requests /\ step' = "quit"
  <2>1. Queues'
    BY <1>1, <1>2, <1>3 DEF IInv, Queues
  <2>2. Progress'
    BY <1>1, <1>2, <1>3 DEF IInv, Progress, Past
  <2> QED
    BY <1>1, <1>3, <2>1, <2>2
    DEF IInv, Types, Order, Alive, ReleasedForGood, WindowStaysClosed
<1>4. CASE PostShutdown(w_current) /\ step' = "blocked"
  <2>1. requests' = [requests EXCEPT ![w_current] = Append(@, "shutdown")]
    BY <1>4 DEF PostShutdown, Post
  <2>2. requests[w_current] \in Seq({"start", "stop", "shutdown"})
    BY <1>2 DEF IInv, Types
  <2>3. Append(requests[w_current], "shutdown") \in Seq({"start", "stop", "shutdown"})
    BY <2>2
  <2>4. Types'
    <3>1. requests' \in [Worker -> Seq({"start", "stop", "shutdown"})]
      BY <2>1, <2>3 DEF IInv, Types
    <3> QED
      BY <1>1, <1>4, <3>1 DEF IInv, Types
  <2>5. ASSUME NEW v \in Worker, NEW i \in 1 .. Len(requests'[v]),
               requests'[v][i] = "shutdown"
        PROVE  i = Len(requests'[v]) /\ v = w_current
    <3>1. \A u \in Worker : \A j \in 1 .. Len(requests[u]) : requests[u][j] # "shutdown"
      BY <1>1 DEF IInv, Queues
    <3>2. CASE v = w_current
      <4>1. requests'[v] = Append(requests[w_current], "shutdown")
        BY <2>1, <3>2 DEF IInv, Types
      <4> QED
        BY <1>2, <2>2, <2>5, <3>1, <3>2, <4>1
    <3>3. CASE v # w_current
      <4>1. requests'[v] = requests[v]
        BY <2>1, <3>3 DEF IInv, Types
      <4> QED
        BY <2>5, <3>1, <4>1
    <3> QED
      BY <3>2, <3>3
  <2>6. \A v \in m_shutdown : v # w_current /\ requests'[v] = requests[v]
    BY <1>1, <1>2, <2>1 DEF IInv, Types, Progress, Past
  <2>7. Queues'
    BY <1>1, <1>2, <1>4, <2>5, <2>6 DEF IInv, Queues
  <2>8. Progress'
    BY <1>1, <1>2, <1>4 DEF IInv, Progress, Past
  <2> QED
    BY <1>1, <1>4, <2>4, <2>7, <2>8
    DEF IInv, Order, Alive, ReleasedForGood, WindowStaysClosed
<1> QED
  BY <1>3, <1>4 DEF CallShutdown

LEMMA QuitInv ==
  ASSUME IInv, QuitThread
  PROVE  IInv'
<1>1. /\ step = "quit" /\ step' = "wait" /\ quitCalled' = quitCalled \cup {w_current}
      /\ UNCHANGED <<m_shuttingDown, windowActive, caller, current, announced, requests,
                     thread, m_workers, m_shutdown, device>>
  BY DEF QuitThread, At, windowVars, workerVars
<1>2. Before' = Before /\ w_current' = w_current
  BY <1>1, SameTurn
<1>3. Progress' /\ Queues'
  BY <1>1, <1>2 DEF IInv, Progress, Past, Queues
<1> QED
  BY <1>1, <1>3 DEF IInv, Types, Order, Alive, ReleasedForGood, WindowStaysClosed

\* A thread that has finished is deleted, its worker being gone.
LEMMA WaitInv ==
  ASSUME IInv, WaitAndDelete
  PROVE  IInv'
<1>1. /\ step = "wait" /\ caller # "none" /\ thread[w_current] # "running"
      /\ UNCHANGED <<m_shuttingDown, windowActive, caller, announced, quitCalled, requests,
                     m_workers, m_shutdown, device>>
  BY DEF WaitAndDelete, At, windowVars
<1>2. /\ w_current \in Worker /\ w_current \notin Before
      /\ thread' = [thread EXCEPT ![w_current] = "deleted"]
  <2>1. w_current \in Worker /\ w_current \notin Before
    BY Turns DEF IInv, Types
  <2>2. w_current \notin m_workers
    BY <1>1 DEF IInv, Alive
  <2> QED
    BY <2>1, <2>2 DEF WaitAndDelete
<1>3. /\ Before \subseteq Worker
      /\ quitCalled \subseteq Before \cup {w_current}
      /\ m_shutdown \subseteq Before \cup {w_current}
      /\ \A w \in Before \cup {w_current} : thread'[w] = "deleted"
  <2>1. Before \subseteq Worker
    BY Turns DEF IInv, Types
  <2>2. \A w \in Before : thread[w] = "deleted"
    BY <1>1 DEF IInv, Progress, Past
  <2>3. \A w \in Before \cup {w_current} : thread'[w] = "deleted"
    BY <1>2, <2>1, <2>2 DEF IInv, Types
  <2> QED
    BY <1>1, <2>1, <2>3 DEF IInv, Progress, Past
<1>4. Alive'
  BY <1>1, <1>2 DEF IInv, Types, Alive
<1>5. thread' \in [Worker -> {"running", "finished", "deleted"}]
  BY <1>2 DEF IInv, Types
<1>6. \A w \in Worker : \A i \in 1 .. Len(requests[w]) : requests[w][i] # "shutdown"
  BY <1>1 DEF IInv, Queues
<1>7. Queues'
  BY <1>1, <1>6 DEF IInv, Queues
<1>8. CASE current = 3
  <2>1. step' = "verdict" /\ current' = current
    BY <1>8 DEF WaitAndDelete, ShutdownOrder
  <2>2. Before' = Before /\ w_current' = w_current
    BY <2>1, SameTurn
  <2>3. Progress'
    BY <1>1, <1>3, <2>1, <2>2 DEF Progress, Past
  <2> QED
    BY <1>1, <1>4, <1>5, <1>7, <1>8, <2>1, <2>3
    DEF IInv, Types, Order, ReleasedForGood, WindowStaysClosed
<1>9. CASE current # 3
  <2>1. current \in 1 .. 2
    BY <1>9 DEF IInv, Types
  <2>2. step' = "call" /\ current' = current + 1
    BY <1>9 DEF WaitAndDelete, ShutdownOrder
  <2>3. Before' = Before \cup {w_current}
    BY <2>1, <2>2, NextTurn
  <2>4. Progress'
    BY <1>1, <1>3, <2>2, <2>3 DEF Progress, Past
  <2>5. Types'
    BY <1>1, <1>5, <2>1, <2>2 DEF IInv, Types
  <2>6. Order'
    BY <1>1, <2>1, <2>2 DEF IInv, Types, Order
  <2> QED
    BY <1>1, <1>4, <1>7, <2>4, <2>5, <2>6 DEF IInv, ReleasedForGood, WindowStaysClosed
<1> QED
  BY <1>8, <1>9

\* The verdict is TRUE: all threads are deleted when it is given.
LEMMA AnnounceInv ==
  ASSUME IInv, Announce
  PROVE  IInv' /\ m_shuttingDown /\ m_workers = {} /\ announced = <<>>
         /\ announced' = <<TRUE>>
<1>1. /\ step = "verdict" /\ caller # "none" /\ caller' = "none"
      /\ announced' = Append(announced, m_workers = {}
                                        /\ \A w \in Worker : thread[w] = "deleted")
      /\ UNCHANGED <<m_shuttingDown, windowActive, step, current, requests, quitCalled,
                     thread, m_workers, m_shutdown, device>>
  BY DEF Announce, At, workerVars
<1>2. m_shuttingDown /\ announced = <<>> /\ current = 3
  BY <1>1 DEF IInv, Types, Order
<1>3. \A w \in Worker : thread[w] = "deleted"
  <2>1. Before \cup {w_current} = Worker
    BY <1>2, Turns DEF IInv, Types
  <2> QED
    BY <1>1, <2>1 DEF IInv, Progress, Past
<1>4. m_workers = {}
  BY <1>3 DEF IInv, Alive
<1>5. announced' = <<TRUE>>
  <2>1. (m_workers = {} /\ \A w \in Worker : thread[w] = "deleted") = TRUE
    BY <1>3, <1>4
  <2>2. announced' = Append(<<>>, TRUE)
    BY <1>1, <1>2, <2>1
  <2> QED
    BY <2>2
<1>6. Before' = Before /\ w_current' = w_current
  BY <1>1, SameTurn
<1>7. Progress' /\ Queues'
  BY <1>1, <1>6 DEF IInv, Progress, Past, Queues
<1>8. Order'
  BY <1>1, <1>2 DEF IInv, Order
<1>9. IInv'
  BY <1>1, <1>7, <1>8 DEF IInv, Types, Alive, ReleasedForGood, WindowStaysClosed
<1> QED
  BY <1>2, <1>4, <1>5, <1>9
-----------------------------------------------------------------------------
\* What a worker does in its thread but for its shutdown: it may take a request,
\* and holds its device afterwards only if it has not been shut down.
LEMMA WorkerInv ==
  ASSUME IInv, NEW w \in Worker,
         UNCHANGED <<windowVars, closingVars, quitCalled, thread, m_workers, m_shutdown>>,
         \/ UNCHANGED requests
         \/ /\ requests[w] # <<>> /\ Head(requests[w]) # "shutdown"
            /\ requests' = [requests EXCEPT ![w] = Tail(@)],
         device' \subseteq device \cup {w},
         w \in m_shutdown => w \notin device'
  PROVE  IInv'
<1>1. UNCHANGED <<m_shuttingDown, windowActive, caller, step, current, announced>>
  BY DEF windowVars, closingVars
<1>2. Before' = Before /\ w_current' = w_current
  BY <1>1, SameTurn
<1>3. requests' \in [Worker -> Seq({"start", "stop", "shutdown"})] /\ Queues'
  <2>1. CASE UNCHANGED requests
    BY <1>1, <1>2, <2>1 DEF IInv, Types, Queues
  <2>2. CASE /\ requests[w] # <<>> /\ Head(requests[w]) # "shutdown"
             /\ requests' = [requests EXCEPT ![w] = Tail(@)]
    <3>1. requests[w] \in Seq({"start", "stop", "shutdown"}) /\ requests[w] # <<>>
      BY <2>2 DEF IInv, Types
    <3>2. /\ Tail(requests[w]) \in Seq({"start", "stop", "shutdown"})
          /\ Len(Tail(requests[w])) = Len(requests[w]) - 1
          /\ \A i \in 1 .. Len(Tail(requests[w])) :
               Tail(requests[w])[i] = requests[w][i + 1] /\ i + 1 \in 1 .. Len(requests[w])
      BY <3>1
    <3>3. requests' \in [Worker -> Seq({"start", "stop", "shutdown"})]
      BY <2>2, <3>2 DEF IInv, Types
    <3>4. /\ requests'[w] = Tail(requests[w])
          /\ \A v \in Worker : v # w => requests'[v] = requests[v]
      BY <2>2 DEF IInv, Types
    <3>5. ASSUME NEW v \in Worker, NEW i \in 1 .. Len(requests'[v]),
                 requests'[v][i] = "shutdown"
          PROVE  i = Len(requests'[v]) /\ step = "blocked" /\ v = w_current
      <4>1. CASE v = w
        <5>1. requests[w][i + 1] = "shutdown" /\ i + 1 \in 1 .. Len(requests[w])
          BY <3>2, <3>4, <3>5, <4>1
        <5>2. i + 1 = Len(requests[w]) /\ step = "blocked" /\ w = w_current
          BY <5>1 DEF IInv, Queues
        <5>3. i \in Nat /\ Len(requests[w]) \in Nat
          BY <3>1, <5>1
        <5>4. Len(requests'[v]) = Len(requests[w]) - 1
          BY <3>2, <3>4, <4>1
        <5> QED
          BY <4>1, <5>2, <5>3, <5>4
      <4>2. CASE v # w
        BY <3>4, <3>5, <4>2 DEF IInv, Queues
      <4> QED
        BY <4>1, <4>2
    <3>6. \A v \in m_shutdown : requests'[v] = <<>>
      <4>1. w \notin m_shutdown
        BY <2>2 DEF IInv, Queues
      <4>2. m_shutdown \subseteq Worker
        BY Turns DEF IInv, Types, Progress, Past
      <4> QED
        BY <3>4, <4>1, <4>2 DEF IInv, Queues
    <3>7. Queues'
      BY <1>1, <1>2, <3>5, <3>6 DEF Queues
    <3> QED
      BY <3>3, <3>7
  <2> QED
    BY <2>1, <2>2
<1>4. Types'
  BY <1>1, <1>3 DEF IInv, Types
<1>5. Order' /\ WindowStaysClosed'
  BY <1>1 DEF IInv, Order, WindowStaysClosed
<1>6. Progress'
  BY <1>1, <1>2 DEF IInv, Progress, Past
<1>7. Alive'
  BY DEF IInv, Alive
<1>8. ReleasedForGood'
  BY DEF IInv, ReleasedForGood
<1> QED
  BY <1>3, <1>4, <1>5, <1>6, <1>7, <1>8 DEF IInv

\* The worker's shutdown has run, and its queue is empty from now on.
LEMMA ShutdownInv ==
  ASSUME IInv, NEW w \in Worker, ServesShutdown(w)
  PROVE  IInv'
<1>1. /\ UNCHANGED <<m_shuttingDown, windowActive, caller, current, announced, quitCalled,
                     thread, m_workers>>
      /\ requests[w] # <<>> /\ Head(requests[w]) = "shutdown"
      /\ requests' = [requests EXCEPT ![w] = Tail(@)]
      /\ device' = device \ {w}
      /\ m_shutdown' = m_shutdown \cup {w}
      /\ step' = "quit"
  BY DEF ServesShutdown, Serves, windowVars
<1>2. requests[w] \in Seq({"start", "stop", "shutdown"})
  BY DEF IInv, Types
<1>3. 1 \in 1 .. Len(requests[w]) /\ requests[w][1] = "shutdown"
  BY <1>1, <1>2
<1>4. Len(requests[w]) = 1 /\ step = "blocked" /\ w = w_current
  BY <1>3 DEF IInv, Queues
<1>5. Tail(requests[w]) = <<>>
  <2>1. Tail(requests[w]) \in Seq({"start", "stop", "shutdown"})
    BY <1>2, <1>3
  <2>2. Len(Tail(requests[w])) = 0
    BY <1>2, <1>4
  <2> QED
    BY <2>1, <2>2, EmptySeq
<1>6. /\ requests'[w] = <<>>
      /\ \A v \in Worker : v # w => requests'[v] = requests[v]
  BY <1>1, <1>5 DEF IInv, Types
<1>7. requests' \in [Worker -> Seq({"start", "stop", "shutdown"})]
  <2>1. <<>> \in Seq({"start", "stop", "shutdown"})
    OBVIOUS
  <2>2. requests' = [requests EXCEPT ![w] = <<>>]
    BY <1>1, <1>5
  <2> QED
    BY <2>1, <2>2 DEF IInv, Types
<1>8. Before' = Before /\ w_current' = w_current
  BY <1>1, SameTurn
<1>9. Types'
  BY <1>1, <1>7 DEF IInv, Types
<1>10. Order' /\ WindowStaysClosed'
  BY <1>1, <1>4 DEF IInv, Order, WindowStaysClosed
<1>11. Progress'
  BY <1>1, <1>4, <1>8 DEF IInv, Progress, Past
<1>12. Alive' /\ ReleasedForGood'
  BY <1>1 DEF IInv, Alive, ReleasedForGood
<1>13. Queues'
  <2>1. m_shutdown \subseteq Worker
    BY Turns DEF IInv, Types, Progress, Past
  <2>2. \A v \in m_shutdown' : requests'[v] = <<>>
    BY <1>1, <1>6, <2>1 DEF IInv, Queues
  <2>3. \A v \in Worker : \A i \in 1 .. Len(requests'[v]) : requests'[v][i] # "shutdown"
    <3>1. \A i \in 1 .. Len(requests'[w]) : requests'[w][i] # "shutdown"
      BY <1>6
    <3>2. \A v \in Worker \ {w} : \A i \in 1 .. Len(requests[v]) : requests[v][i] # "shutdown"
      BY <1>4 DEF IInv, Queues
    <3> QED
      BY <1>6, <3>1, <3>2
  <2> QED
    BY <2>2, <2>3 DEF Queues
<1> QED
  BY <1>9, <1>10, <1>11, <1>12, <1>13 DEF IInv

\* A thread ends, and its worker with it.
LEMMA FinishInv ==
  ASSUME IInv, NEW w \in Worker, FinishThread(w)
  PROVE  /\ IInv' /\ m_shuttingDown /\ w \in m_workers
         /\ m_workers' = m_workers \ {w} /\ UNCHANGED <<m_shuttingDown, announced>>
<1>1. /\ UNCHANGED <<m_shuttingDown, windowActive, caller, step, current, announced,
                     quitCalled>>
      /\ thread[w] = "running" /\ w \in quitCalled
      /\ thread' = [thread EXCEPT ![w] = "finished"]
      /\ m_workers' = m_workers \ {w}
      /\ device' = device \ {w}
      /\ m_shutdown' = m_shutdown \cup {w}
      /\ requests' = [requests EXCEPT ![w] = <<>>]
  BY DEF FinishThread, windowVars, closingVars
<1>2. Before' = Before /\ w_current' = w_current
  BY <1>1, SameTurn
<1>3. w \in Past({"wait", "verdict"}) /\ w \notin Past({"verdict"})
  BY <1>1 DEF IInv, Progress
<1>4. w \in m_workers /\ m_shuttingDown
  <2>1. w \in m_workers
    BY <1>1 DEF IInv, Alive
  <2>2. step = "wait"
    BY <1>3 DEF Past
  <2> QED
    BY <2>1, <2>2 DEF IInv, Types, Order
<1>5. requests' \in [Worker -> Seq({"start", "stop", "shutdown"})]
  <2>1. <<>> \in Seq({"start", "stop", "shutdown"})
    OBVIOUS
  <2> QED
    BY <1>1, <2>1 DEF IInv, Types
<1>6. thread' \in [Worker -> {"running", "finished", "deleted"}]
  BY <1>1 DEF IInv, Types
<1>7. Types'
  BY <1>1, <1>5, <1>6 DEF IInv, Types
<1>8. Order' /\ WindowStaysClosed'
  BY <1>1 DEF IInv, Order, WindowStaysClosed
<1>9. Past({"wait", "verdict"})' = Past({"wait", "verdict"})
      /\ Past({"quit", "wait", "verdict"})' = Past({"quit", "wait", "verdict"})
      /\ Past({"verdict"})' = Past({"verdict"})
      /\ Past({"wait", "verdict"}) \subseteq Past({"quit", "wait", "verdict"})
  BY <1>1, <1>2 DEF Past
<1>10. Progress'
  <2>1. \A v \in Past({"verdict"}) : thread'[v] = "deleted"
    BY <1>1, <1>3 DEF IInv, Types, Progress
  <2> QED
    BY <1>1, <1>3, <1>9, <2>1 DEF IInv, Progress
<1>11. Alive' /\ ReleasedForGood'
  BY <1>1 DEF IInv, Types, Alive, ReleasedForGood
<1>12. Queues'
  <2>1. m_shutdown \subseteq Worker
    BY Turns DEF IInv, Types, Progress, Past
  <2>2. requests'[w] = <<>> /\ \A v \in Worker : v # w => requests'[v] = requests[v]
    BY <1>1 DEF IInv, Types
  <2>3. \A i \in 1 .. Len(requests'[w]) : requests'[w][i] # "shutdown"
    BY <2>2
  <2> QED
    BY <1>1, <1>2, <2>1, <2>2, <2>3 DEF IInv, Queues
<1> QED
  BY <1>1, <1>4, <1>7, <1>8, <1>10, <1>11, <1>12 DEF IInv
-----------------------------------------------------------------------------
\* The window's handlers of requests and events.
LEMMA HandlersInv ==
  ASSUME IInv,
         \/ \E w \in Worker, request \in {"start", "stop"} : WindowRequests(w, request)
         \/ OnStarted \/ OnEnded \/ OnDecoded \/ OnData
  PROVE  IInv' /\ UNCHANGED <<m_shuttingDown, m_workers, announced>>
<1>1. /\ windowActive \in [Worker -> BOOLEAN]
      /\ m_shuttingDown => \A w \in Worker : ~windowActive[w]
  BY DEF IInv, Types, WindowStaysClosed
<1>2. ASSUME NEW w \in Worker, NEW request \in {"start", "stop"}, WindowRequests(w, request)
      PROVE  IInv' /\ UNCHANGED <<m_shuttingDown, m_workers, announced>>
  <2>1. /\ UNCHANGED <<m_shuttingDown, closingVars, quitCalled, workerVars>>
        /\ ~m_shuttingDown /\ Post(w, request)
    BY <1>2 DEF WindowRequests
  <2>2. windowActive' \in [Worker -> BOOLEAN]
    BY <1>1, <1>2 DEF WindowRequests
  <2>3. IInv'
    BY <2>1, <2>2, WindowInv
  <2> QED
    BY <2>1, <2>3 DEF closingVars, workerVars
<1>3. CASE OnStarted
  <2>1. UNCHANGED <<m_shuttingDown, closingVars, quitCalled, workerVars, requests>>
    BY <1>3 DEF OnStarted, WindowHandles
  <2>2. /\ windowActive' \in [Worker -> BOOLEAN]
        /\ m_shuttingDown => \A w \in Worker : ~windowActive'[w]
    BY <1>1, <1>3 DEF OnStarted
  <2>3. IInv'
    BY <2>1, <2>2, WindowInv
  <2> QED
    BY <2>1, <2>3 DEF closingVars, workerVars
<1>4. CASE OnEnded
  <2>1. UNCHANGED <<m_shuttingDown, closingVars, quitCalled, workerVars, requests>>
    BY <1>4 DEF OnEnded, WindowHandles
  <2>2. /\ windowActive' \in [Worker -> BOOLEAN]
        /\ m_shuttingDown => \A w \in Worker : ~windowActive'[w]
    BY <1>1, <1>4 DEF OnEnded
  <2>3. IInv'
    BY <2>1, <2>2, WindowInv
  <2> QED
    BY <2>1, <2>3 DEF closingVars, workerVars
<1>5. CASE OnDecoded
  <2>1. UNCHANGED <<m_shuttingDown, closingVars, quitCalled, workerVars>>
    BY <1>5 DEF OnDecoded, WindowHandles
  <2>2. /\ windowActive' \in [Worker -> BOOLEAN]
        /\ m_shuttingDown => \A w \in Worker : ~windowActive'[w]
    BY <1>1, <1>5 DEF OnDecoded
  <2>3. \/ UNCHANGED requests
        \/ ~m_shuttingDown /\ Post("decoder", "start") /\ "decoder" \in Worker
    BY <1>5 DEF OnDecoded, Worker
  <2>4. IInv'
    BY <2>1, <2>2, <2>3, WindowInv
  <2> QED
    BY <2>1, <2>4 DEF closingVars, workerVars
<1>6. CASE OnData
  <2>1. /\ UNCHANGED <<m_shuttingDown, closingVars, quitCalled, workerVars, requests>>
        /\ UNCHANGED windowActive
    BY <1>6 DEF OnData, WindowHandles
  <2>2. IInv'
    BY <1>1, <2>1, WindowInv
  <2> QED
    BY <2>1, <2>2 DEF closingVars, workerVars
<1> QED
  BY <1>2, <1>3, <1>4, <1>5, <1>6

\* A worker's requests other than shutdown, and its devices.
LEMMA ServesInv ==
  ASSUME IInv, NEW w \in Worker, ServesStart(w) \/ ServesStop(w) \/ Works(w)
  PROVE  IInv' /\ UNCHANGED <<m_shuttingDown, m_workers, announced>>
<1>1. UNCHANGED <<windowVars, closingVars, quitCalled, thread, m_workers, m_shutdown>>
  BY DEF ServesStart, ServesStop, Works, Serves
<1>2. \/ UNCHANGED requests
      \/ /\ requests[w] # <<>> /\ Head(requests[w]) # "shutdown"
         /\ requests' = [requests EXCEPT ![w] = Tail(@)]
  BY DEF ServesStart, ServesStop, Works, Serves
<1>3. device' \subseteq device \cup {w} /\ (w \in m_shutdown => w \notin device')
  <2>1. CASE ServesStart(w)
    <3>1. w \notin m_shutdown
      BY <2>1 DEF ServesStart, Serves, IInv, Queues
    <3> QED
      BY <2>1, <3>1 DEF ServesStart
  <2>2. CASE ServesStop(w) \/ Works(w)
    <3>1. device' \subseteq device
      BY <2>2 DEF ServesStop, Works
    <3> QED
      BY <3>1 DEF IInv, ReleasedForGood
  <2> QED
    BY <2>1, <2>2
<1>4. IInv'
  BY <1>1, <1>2, <1>3, WorkerInv
<1> QED
  BY <1>1, <1>4 DEF windowVars, closingVars

\* A step of the program keeps the invariant and is one of OrderlyExit.
LEMMA StepInv ==
  ASSUME IInv, [Next]_vars
  PROVE  IInv' /\ [Exit!Next]_(Exit!vars)
<1>1. ASSUME UNCHANGED <<m_shuttingDown, m_workers, announced>>
      PROVE  [Exit!Next]_(Exit!vars)
  BY <1>1 DEF Exit!vars
<1>2. CASE \/ \E w \in Worker, request \in {"start", "stop"} : WindowRequests(w, request)
           \/ OnStarted \/ OnEnded \/ OnDecoded \/ OnData
  BY <1>1, <1>2, HandlersInv
<1>3. ASSUME NEW who \in {"closeEvent", "destructor"}, ShutdownAll(who)
      PROVE  IInv' /\ [Exit!Next]_(Exit!vars)
  <2>1. IInv'
    BY <1>3, EnterInv
  <2>2. UNCHANGED <<m_workers, announced>>
    BY <1>3 DEF ShutdownAll, workerVars
  <2>3. UNCHANGED m_shuttingDown \/ (~m_shuttingDown /\ m_shuttingDown' = TRUE)
    BY <1>3 DEF ShutdownAll, Enter
  <2> QED
    BY <2>1, <2>2, <2>3 DEF Exit!Next, Exit!Close, Exit!vars
<1>4. CASE CallShutdown \/ QuitThread \/ WaitAndDelete
  <2>1. IInv'
    BY <1>4, CallInv, QuitInv, WaitInv
  <2>2. UNCHANGED <<m_shuttingDown, m_workers, announced>>
    BY <1>4 DEF CallShutdown, QuitThread, WaitAndDelete, windowVars, workerVars
  <2> QED
    BY <1>1, <2>1, <2>2
<1>5. CASE Announce
  <2>1. /\ IInv' /\ m_shuttingDown /\ m_workers = {} /\ announced = <<>>
        /\ announced' = <<TRUE>>
    BY <1>5, AnnounceInv
  <2>2. UNCHANGED <<m_shuttingDown, m_workers>>
    BY <1>5 DEF Announce, workerVars
  <2> QED
    BY <2>1, <2>2 DEF Exit!Next, Exit!Exit, Exit!Announce
<1>6. ASSUME NEW w \in Worker, ServesStart(w) \/ ServesStop(w) \/ Works(w)
      PROVE  IInv' /\ [Exit!Next]_(Exit!vars)
  BY <1>1, <1>6, ServesInv
<1>7. ASSUME NEW w \in Worker, ServesShutdown(w)
      PROVE  IInv' /\ [Exit!Next]_(Exit!vars)
  <2>1. IInv'
    BY <1>7, ShutdownInv
  <2>2. UNCHANGED <<m_shuttingDown, m_workers, announced>>
    BY <1>7 DEF ServesShutdown, Serves, windowVars
  <2> QED
    BY <1>1, <2>1, <2>2
<1>8. ASSUME NEW w \in Worker, FinishThread(w)
      PROVE  IInv' /\ [Exit!Next]_(Exit!vars)
  <2>1. /\ IInv' /\ m_shuttingDown /\ w \in m_workers
        /\ m_workers' = m_workers \ {w} /\ UNCHANGED <<m_shuttingDown, announced>>
    BY <1>8, FinishInv
  <2> QED
    BY <2>1 DEF Exit!Next, Exit!Exit, Exit!Destroy
<1>9. CASE UNCHANGED vars
  <2>1. /\ UNCHANGED <<m_shuttingDown, windowActive, caller, step, current, announced>>
        /\ UNCHANGED <<requests, quitCalled, thread, m_workers, m_shutdown, device>>
    BY <1>9 DEF vars, windowVars, closingVars, workerVars
  <2>2. Before' = Before /\ w_current' = w_current
    BY <2>1, SameTurn
  <2>3. IInv'
    BY <2>1, <2>2
    DEF IInv, Types, Order, Progress, Past, Alive, Queues, ReleasedForGood,
        WindowStaysClosed
  <2> QED
    BY <1>1, <2>1, <2>3
<1> QED
  BY <1>2, <1>3, <1>4, <1>5, <1>6, <1>7, <1>8, <1>9
  DEF Next, CloseEvent, Destructor, Closing, Runs, Exited

LEMMA Invariance == Spec => []IInv
<1>1. IInv /\ [Next]_vars => IInv'
  BY StepInv
<1> QED
  BY InitInv, <1>1, PTL DEF Spec
-----------------------------------------------------------------------------
\* Once a worker's shutdown has run it holds no device again, although the
\* camera's worker would open one if asked: the call is the last of its queue.
THEOREM DevicesStayReleased == Spec => []ReleasedForGood
<1>1. IInv => ReleasedForGood
  BY DEF IInv
<1> QED
  BY Invariance, <1>1, PTL

\* No event that was queued before the window was disconnected from its workers
\* makes it take one of them to be at work.
THEOREM NothingRevivesTheWindow == Spec => []WindowStaysClosed
<1>1. IInv => WindowStaysClosed
  BY DEF IInv
<1> QED
  BY Invariance, <1>1, PTL

\* Without its fairness the program implements OrderlyExit: workers are destroyed
\* once each and only while closing, and shutdownCompleted says TRUE, once, after
\* the last (that it comes to that is shown by the run of ImplementsOrderlyExit).
THEOREM ExitsInOrder == Spec => Exit!Safety
<1>1. Init => Exit!Init
  BY DEF Init, Exit!Init
<1>2. IInv /\ [Next]_vars => [Exit!Next]_(Exit!vars)
  BY StepInv
<1> QED
  BY Invariance, <1>1, <1>2, PTL DEF Spec, Exit!Safety
=============================================================================
