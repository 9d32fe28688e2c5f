-------------------------- MODULE CoapService_proofs --------------------------
(***************************************************************************)
(* Theorems about CoapService for every number of web sockets and reboots. *)
(*                                                                         *)
(* A request is kept in _pr under its task's own observer.  Two things     *)
(* hang on this: a task that ends forgets exactly its own request, and the *)
(* cancel_observation of a web socket finds the observation that is on,    *)
(* unless its task ended with an exception for the answer.                 *)
(***************************************************************************)
EXTENDS CoapService, FiniteSetTheorems, TLAPS

\* A request is kept under the observer of the task it belongs to.
UnderOwnObserver ==
  \A o \in Observers : _pr[o] # None =>
    IF _pr[o] \in Sockets THEN o = _pr[o] ELSE observer[_pr[o]] = o

\* What is observed for a web socket can be cancelled through its observer, unless
\* its request was forgotten as its answer raised an exception.
CancelReaches ==
  \A w \in Sockets : obs[w] = "on" => _pr[w] = w \/ LeftOn(w)

\* Nothing runs for a web socket that was not opened, or as the main that a
\* reboot has still to spawn.
NotYetSpawned ==
  /\ \A w \in Sockets : sock[w] = "new" => pc[w] = "none"
  /\ \A r \in Reboots : reboot[r] # "done" => pc[r + 1] = "none"

IInv ==
  /\ RequestOfItsTask
  /\ KeeperFitsSockets
  /\ ClosedMeansCancelled
  /\ UnderOwnObserver
  /\ CancelReaches
  /\ NotYetSpawned

-----------------------------------------------------------------------------
(***************************************************************************)
(* The names of tasks and observers                                        *)
(***************************************************************************)

\* Web sockets and mains are numbered apart.
LEMMA TaskNames ==
  /\ Mains \subseteq Nat \ {0} /\ MainObservers \subseteq Nat \ {0}
  /\ \A w \in Sockets : w \in Int /\ w < 0
  /\ \A r \in Reboots : r \in Nat \ {0} /\ r + 1 \in Mains
BY CoapServiceAssumption DEF Mains, MainObservers, Sockets, Reboots

\* So main's observers are none of the web sockets', and None is no task.
LEMMA NamesApart ==
  /\ Sockets \cap Mains = {} /\ Sockets \cap MainObservers = {}
  /\ None \notin Tasks /\ None \notin Observers
BY TaskNames DEF Tasks, Observers, None

\* There are more observers than other mains: main finds an unused one.
LEMMA UnusedObserver ==
  ASSUME TypeOK, NEW m \in Mains
  PROVE  \E o \in MainObservers : \A n \in Mains \ {m} : observer[n] # o
<1> DEFINE others == Mains \ {m}
           used == {observer[n] : n \in others}
<1>1. IsFiniteSet(others) /\ Cardinality(others) = MaxReboots
  <2>1. MaxReboots + 1 \in Int /\ 1 \in Int /\ ~(1 > MaxReboots + 1)
    BY CoapServiceAssumption
  <2>2. IsFiniteSet(Mains) /\ Cardinality(Mains) = MaxReboots + 1
    BY <2>1, FS_Interval, CoapServiceAssumption DEF Mains
  <2> HIDE DEF Mains
  <2> QED
    BY <2>2, FS_RemoveElement, CoapServiceAssumption
<1>2. IsFiniteSet(used) /\ Cardinality(used) <= MaxReboots
  <2> DEFINE f == [n \in others |-> observer[n]]
  <2>1. f \in [others -> used] /\ \A u \in used : \E n \in others : f[n] = u
    OBVIOUS
  <2>2. f \in Surjection(others, used)
    BY <2>1 DEF Surjection
  <2> HIDE DEF f, used, others
  <2> QED
    BY <1>1, <2>2, FS_Surjection
<1>3. IsFiniteSet(MainObservers) /\ Cardinality(MainObservers) = MaxReboots + 2
  BY CoapServiceAssumption, FS_Interval DEF MainObservers
<1>4. ~(MainObservers \subseteq used)
  <2> SUFFICES ASSUME MainObservers \subseteq used PROVE FALSE
    OBVIOUS
  <2> HIDE DEF used
  <2>1. Cardinality(MainObservers) <= Cardinality(used)
    BY <1>2, FS_Subset
  <2>2. Cardinality(used) \in Nat
    BY <1>2, FS_CardinalityType
  <2> QED
    BY <1>2, <1>3, <2>1, <2>2, CoapServiceAssumption
<1> QED
  BY <1>4

-----------------------------------------------------------------------------
(***************************************************************************)
(* The initial states                                                      *)
(***************************************************************************)

LEMMA InitIInv == Init => IInv
<1> SUFFICES ASSUME Init PROVE IInv
  OBVIOUS
<1> USE NamesApart DEF Init
<1>1. TypeOK
  <2>1. keeper \in BOOLEAN /\ cancelling \subseteq Sockets
    OBVIOUS
  <2> QED
    BY <2>1 DEF TypeOK
<1>2. RequestOfItsTask /\ UnderOwnObserver /\ CancelReaches
  BY <1>1 DEF RequestOfItsTask, UnderOwnObserver, CancelReaches, Tasks, Observers, LeftOn
<1>3. KeeperFitsSockets /\ ClosedMeansCancelled
  BY DEF KeeperFitsSockets, ClosedMeansCancelled, Websockets, LeftOn
<1>4. NotYetSpawned
  BY TaskNames DEF NotYetSpawned, Tasks
<1> QED
  BY <1>2, <1>3, <1>4 DEF IInv

-----------------------------------------------------------------------------
(***************************************************************************)
(* What a task does up to its next await                                   *)
(***************************************************************************)

\* main_observer and observer as StartMain leaves them for t, or unchanged.
OtherMainsKept(t) ==
  /\ main_observer' \in {None} \cup MainObservers
  /\ observer' \in [Mains -> {None} \cup MainObservers]
  /\ \A n \in Mains \ {t} : observer'[n] = observer[n]

\* A task goes on outside a request, or from its answer to its observation.
LEMMA GotoKeeps ==
  ASSUME IInv, NEW t \in Tasks, NEW where, Goto(t, where),
         where \in {"spawned", "creating", "observing", "over", "shutdown", "done"},
         \/ pc[t] \notin {"none", "response", "observing", "done"}
         \/ pc[t] = "response" /\ where = "observing" /\ observer' = observer,
         OtherMainsKept(t), client' \in {"none", "up", "closing"},
         UNCHANGED <<sock, keeper, cancelling, _pr, obs, reboot>>
  PROVE  IInv'
<1> USE NamesApart DEF IInv, Goto, OtherMainsKept
<1>1. TypeOK'
  BY DEF TypeOK, RequestOfItsTask
<1>2. RequestOfItsTask'
  BY <1>1 DEF RequestOfItsTask, TypeOK
<1>3. UnderOwnObserver'
  BY DEF UnderOwnObserver, RequestOfItsTask, TypeOK, Tasks
<1>4. KeeperFitsSockets' /\ ClosedMeansCancelled' /\ CancelReaches'
  BY DEF KeeperFitsSockets, Websockets, ClosedMeansCancelled, CancelReaches, LeftOn
<1>5. NotYetSpawned'
  BY TaskNames DEF NotYetSpawned, RequestOfItsTask, TypeOK, Tasks
<1> QED
  BY <1>2, <1>3, <1>4, <1>5

\* A request is sent, for a task that has none and, if for a web socket, while
\* that is open: the request is found under the task's observer.
LEMMA SendKeeps ==
  ASSUME IInv, NEW t \in Tasks, Send(t), ~IsClosed(t),
         pc[t] \in {"spawned", "creating"},
         OtherMainsKept(t), client' \in {"none", "up", "closing"},
         UNCHANGED <<sock, keeper, cancelling, reboot>>
  PROVE  IInv'
<1> USE NamesApart DEF IInv, Send, Goto, OtherMainsKept
<1>1. TypeOK'
  BY DEF TypeOK, RequestOfItsTask
<1>2. RequestOfItsTask'
  BY <1>1 DEF RequestOfItsTask, TypeOK
<1>3. UnderOwnObserver'
  BY DEF UnderOwnObserver, RequestOfItsTask, TypeOK, ObserverOf, Tasks
<1>4. CancelReaches'
  BY DEF CancelReaches, LeftOn, RequestOfItsTask, TypeOK, ObserverOf, Tasks, Observers
<1>5. KeeperFitsSockets'
  BY DEF KeeperFitsSockets, Websockets
<1>6. ClosedMeansCancelled'
  BY DEF ClosedMeansCancelled, LeftOn, IsClosed, Websockets, RequestOfItsTask, TypeOK
<1>7. NotYetSpawned'
  BY TaskNames DEF NotYetSpawned, RequestOfItsTask, TypeOK, Tasks
<1> QED
  BY <1>2, <1>3, <1>4, <1>5, <1>6, <1>7

\* A task's finally clause: it forgets its own request, and no web socket is
\* opened or closed by calling close.
LEMMA FinallyKeeps ==
  ASSUME IInv, NEW t \in Tasks, NEW raised \in BOOLEAN, Finally(t, raised),
         pc[t] \in {"response", "observing"},
         obs' \in [Tasks -> {"none", "on", "over", "cancelled"}],
         \A u \in Tasks \ {t} : obs'[u] = obs[u],
         UNCHANGED <<client, keeper, cancelling, mainVars, reboot>>
  PROVE  IInv'
<1> USE NamesApart DEF IInv, Finally, Goto, mainVars
<1>1. TypeOK'
  BY DEF TypeOK, RequestOfItsTask
<1>2. ObserverOf(t) = IF t \in Sockets THEN t ELSE observer[t]
  BY DEF ObserverOf
<1>3. \A o \in Observers : _pr[o] = t => o = ObserverOf(t)
  BY <1>2 DEF UnderOwnObserver
<1>4. RequestOfItsTask'
  BY <1>1, <1>3 DEF RequestOfItsTask, TypeOK
<1>5. UnderOwnObserver'
  BY DEF UnderOwnObserver, RequestOfItsTask, TypeOK
<1>6. CancelReaches'
  BY <1>2 DEF CancelReaches, LeftOn, RequestOfItsTask, TypeOK, Tasks, Observers
<1>7. Websockets' = Websockets
  BY DEF Websockets
<1>8. KeeperFitsSockets'
  BY <1>7 DEF KeeperFitsSockets
<1>9. ClosedMeansCancelled'
  BY <1>2 DEF ClosedMeansCancelled, LeftOn, Tasks, RequestOfItsTask, TypeOK
<1>10. NotYetSpawned'
  BY TaskNames DEF NotYetSpawned, RequestOfItsTask, TypeOK, Tasks
<1> QED
  BY <1>4, <1>5, <1>6, <1>8, <1>9, <1>10

-----------------------------------------------------------------------------
(***************************************************************************)
(* Web sockets                                                             *)
(***************************************************************************)

\* The first web socket that opens starts keep_alive.
LEMMA OpenKeeps == ASSUME IInv, NEW w \in Sockets, Open(w) PROVE IInv'
<1> USE NamesApart DEF IInv, Open, Goto, StartKeeper, mainVars
<1>1. keeper' \in BOOLEAN
  BY DEF RequestOfItsTask, TypeOK
<1>2. TypeOK'
  BY <1>1 DEF TypeOK, RequestOfItsTask, Tasks
<1>3. pc[w] = "none"
  BY DEF NotYetSpawned
<1>4. RequestOfItsTask'
  BY <1>2, <1>3 DEF RequestOfItsTask, TypeOK
<1>5. UnderOwnObserver' /\ CancelReaches'
  BY <1>3 DEF UnderOwnObserver, CancelReaches, LeftOn, RequestOfItsTask, TypeOK, Tasks
<1>6. Websockets' = Websockets \cup {w}
  BY DEF Websockets, RequestOfItsTask, TypeOK
<1>7. KeeperFitsSockets'
  BY <1>6 DEF KeeperFitsSockets
<1>8. ClosedMeansCancelled'
  BY DEF ClosedMeansCancelled, LeftOn, RequestOfItsTask, TypeOK
<1>9. NotYetSpawned'
  BY TaskNames DEF NotYetSpawned, RequestOfItsTask, TypeOK, Tasks
<1> QED
  BY <1>4, <1>5, <1>7, <1>8, <1>9

\* The last one that closes stops it; its observation has still to be cancelled.
LEMMA OnCloseKeeps == ASSUME IInv, NEW w \in Sockets, OnClose(w) PROVE IInv'
<1> USE NamesApart DEF IInv, OnClose, mainVars, taskVars
<1>1. keeper' \in BOOLEAN
  BY DEF RequestOfItsTask, TypeOK
<1>2. TypeOK'
  BY <1>1 DEF TypeOK, RequestOfItsTask
<1>3. RequestOfItsTask'
  BY <1>2 DEF RequestOfItsTask
<1>4. UnderOwnObserver' /\ CancelReaches'
  BY DEF UnderOwnObserver, CancelReaches, LeftOn
<1>5. Websockets' = Websockets \ {w} /\ w \in Websockets
  BY DEF Websockets, RequestOfItsTask, TypeOK
<1>6. KeeperFitsSockets'
  BY <1>5 DEF KeeperFitsSockets
<1>7. ClosedMeansCancelled'
  BY DEF ClosedMeansCancelled, LeftOn, RequestOfItsTask, TypeOK
<1>8. NotYetSpawned'
  BY DEF NotYetSpawned, RequestOfItsTask, TypeOK
<1> QED
  BY <1>3, <1>4, <1>6, <1>7, <1>8

\* Cancelling an observer ends its task's observation if it is on, and no other.
LEMMA CancelledType ==
  ASSUME TypeOK, NEW o
  PROVE  /\ Cancelled(o) \in [Tasks -> {"none", "on", "over", "cancelled"}]
         /\ \A t \in Tasks : Cancelled(o)[t] = "on" => obs[t] = "on" /\ t # _pr[o]
BY DEF Cancelled, TypeOK

\* cancel_observation: since a request is found under its task's observer, the
\* observation of a closed web socket is off from here on.
LEMMA CancelKeeps ==
  ASSUME IInv, NEW w \in Sockets, CancelObservation(w) PROVE IInv'
<1> USE NamesApart DEF IInv, CancelObservation, mainVars
<1>1. obs' \in [Tasks -> {"none", "on", "over", "cancelled"}]
  BY CancelledType DEF RequestOfItsTask
<1>2. TypeOK'
  BY <1>1 DEF TypeOK, RequestOfItsTask
<1>3. RequestOfItsTask'
  BY <1>2 DEF RequestOfItsTask
<1>4. \A v \in Sockets : obs'[v] = "on" => obs[v] = "on" /\ v # _pr[w]
  BY CancelledType DEF RequestOfItsTask, Tasks
<1>5. UnderOwnObserver' /\ CancelReaches'
  BY <1>4 DEF UnderOwnObserver, CancelReaches, LeftOn
<1>6. KeeperFitsSockets'
  BY DEF KeeperFitsSockets, Websockets
<1>7. ClosedMeansCancelled'
  BY <1>4 DEF ClosedMeansCancelled, LeftOn, CancelReaches
<1>8. NotYetSpawned'
  BY DEF NotYetSpawned
<1> QED
  BY <1>3, <1>5, <1>6, <1>7, <1>8

-----------------------------------------------------------------------------
(***************************************************************************)
(* Requests, mains and reboots                                             *)
(***************************************************************************)

\* Request, called by a task that was spawned.
LEMMA RequestKeeps ==
  ASSUME IInv, NEW t \in Tasks, Request(t), pc[t] = "spawned", OtherMainsKept(t),
         UNCHANGED <<client, sock, keeper, cancelling, reboot>>
  PROVE  IInv'
<1>1. client' \in {"none", "up", "closing"}
  BY DEF IInv, RequestOfItsTask, TypeOK
<1>2. CASE Goto(t, "creating") /\ UNCHANGED <<obs, _pr>>
  BY <1>1, <1>2, GotoKeeps
<1>3. CASE Goto(t, "done") /\ UNCHANGED <<obs, _pr>>
  BY <1>1, <1>3, GotoKeeps
<1>4. CASE Send(t) /\ ~IsClosed(t)
  BY <1>1, <1>4, SendKeeps
<1> QED
  BY <1>2, <1>3, <1>4 DEF Request, SendUnlessClosed

\* No main changes hands as long as mainVars stay.
LEMMA MainVarsKept ==
  ASSUME TypeOK, UNCHANGED mainVars, NEW t PROVE OtherMainsKept(t)
BY DEF TypeOK, mainVars, OtherMainsKept

LEMMA TaskKeeps ==
  ASSUME IInv, NEW t \in Tasks,
         ClientCreated(t) \/ Respond(t) \/ Fail(t) \/ ObservationEnds(t) \/ ObservationIsOver(t)
  PROVE  IInv'
<1>1. TypeOK
  BY DEF IInv, RequestOfItsTask
<1>2. CASE ClientCreated(t)
  <2>1. OtherMainsKept(t) /\ client' \in {"none", "up", "closing"}
    BY <1>1, <1>2, MainVarsKept DEF ClientCreated
  <2>2. CASE Goto(t, "done") /\ UNCHANGED <<obs, _pr>>
    BY <1>2, <2>1, <2>2, GotoKeeps DEF ClientCreated
  <2>3. CASE Send(t) /\ ~IsClosed(t)
    BY <1>2, <2>1, <2>3, SendKeeps DEF ClientCreated
  <2> QED
    BY <1>2, <2>2, <2>3 DEF ClientCreated, SendUnlessClosed
<1>3. CASE Respond(t)
  <2>1. OtherMainsKept(t) /\ client' \in {"none", "up", "closing"}
    BY <1>1, <1>3, MainVarsKept DEF Respond, TypeOK
  <2> QED
    BY <1>3, <2>1, GotoKeeps DEF Respond, mainVars
<1>4. CASE Fail(t)
  <2>1. /\ obs' \in [Tasks -> {"none", "on", "over", "cancelled"}]
        /\ \A u \in Tasks \ {t} : obs'[u] = obs[u]
    BY <1>1, <1>4 DEF Fail, TypeOK
  <2> QED
    BY <1>4, <2>1, FinallyKeeps DEF Fail
<1>5. CASE ObservationEnds(t)
  <2> USE <1>5, NamesApart DEF IInv, ObservationEnds, mainVars
  <2>1. TypeOK' /\ RequestOfItsTask' /\ UnderOwnObserver'
    BY DEF TypeOK, RequestOfItsTask, UnderOwnObserver
  <2>2. \A w \in Sockets : obs'[w] = "on" => obs[w] = "on"
    BY <1>1 DEF TypeOK
  <2>3. CancelReaches' /\ ClosedMeansCancelled'
    BY <2>2 DEF CancelReaches, LeftOn, ClosedMeansCancelled
  <2>4. KeeperFitsSockets' /\ NotYetSpawned'
    BY DEF KeeperFitsSockets, Websockets, NotYetSpawned
  <2> QED
    BY <2>1, <2>3, <2>4
<1>6. CASE ObservationIsOver(t)
  <2>1. /\ obs' \in [Tasks -> {"none", "on", "over", "cancelled"}]
        /\ \A u \in Tasks \ {t} : obs'[u] = obs[u]
    BY <1>1, <1>6 DEF ObservationIsOver, TypeOK
  <2> QED
    BY <1>6, <2>1, FinallyKeeps DEF ObservationIsOver
<1> QED
  BY <1>2, <1>3, <1>4, <1>5, <1>6

LEMMA MainKeeps ==
  ASSUME IInv, NEW m \in Mains, StartMain(m) \/ Shutdown(m) \/ ShutdownDone(m)
  PROVE  IInv'
<1>1. TypeOK /\ m \in Tasks
  BY DEF IInv, RequestOfItsTask, Tasks
<1>2. CASE StartMain(m)
  <2>1. main_observer' \in MainObservers
    BY <1>1, <1>2, UnusedObserver DEF StartMain, TypeOK
  <2>2. OtherMainsKept(m)
    BY <1>1, <1>2, <2>1 DEF StartMain, OtherMainsKept, TypeOK
  <2>3. CASE Goto(m, "over") /\ UNCHANGED <<obs, _pr>>
    BY <1>1, <1>2, <2>2, <2>3, GotoKeeps DEF StartMain, TypeOK
  <2>4. CASE Request(m)
    BY <1>1, <1>2, <2>2, <2>4, RequestKeeps DEF StartMain
  <2> QED
    BY <1>2, <2>3, <2>4 DEF StartMain
<1>3. CASE Shutdown(m)
  <2>1. OtherMainsKept(m) /\ client' \in {"none", "up", "closing"}
    BY <1>1, <1>3, MainVarsKept DEF Shutdown, TypeOK
  <2> QED
    BY <1>1, <1>3, <2>1, GotoKeeps DEF Shutdown
<1>4. CASE ShutdownDone(m)
  <2>1. OtherMainsKept(m) /\ client' \in {"none", "up", "closing"}
    BY <1>1, <1>4, MainVarsKept DEF ShutdownDone, TypeOK
  <2> QED
    BY <1>1, <1>4, <2>1, GotoKeeps DEF ShutdownDone
<1> QED
  BY <1>2, <1>3, <1>4

LEMMA RebootKeeps ==
  ASSUME IInv, NEW r \in Reboots,
         PostReboot(r) \/ RebootClient(r) \/ RebootService(r) \/ RebootMain(r)
  PROVE  IInv'
<1> USE NamesApart DEF RebootGoto, mainVars, taskVars
<1>1. TypeOK
  BY DEF IInv, RequestOfItsTask
<1>2. CASE PostReboot(r) \/ RebootClient(r)
  <2> USE <1>2 DEF PostReboot, RebootClient, IInv
  <2>1. UNCHANGED <<sock, keeper, cancelling, mainVars, taskVars>>
    BY DEF mainVars, taskVars
  <2>2. TypeOK'
    BY <1>1, <2>1 DEF TypeOK
  <2>3. RequestOfItsTask' /\ UnderOwnObserver' /\ CancelReaches'
    BY <2>1, <2>2 DEF RequestOfItsTask, UnderOwnObserver, CancelReaches, LeftOn
  <2>4. KeeperFitsSockets' /\ ClosedMeansCancelled'
    BY <2>1 DEF KeeperFitsSockets, ClosedMeansCancelled, Websockets, LeftOn
  <2>5. NotYetSpawned'
    BY <1>1, <2>1 DEF NotYetSpawned, TypeOK
  <2> QED
    BY <2>3, <2>4, <2>5
<1>3. CASE RebootService(r)
  <2> USE <1>3 DEF RebootService, IInv
  <2>1. /\ obs' \in [Tasks -> {"none", "on", "over", "cancelled"}]
        /\ \A t \in Tasks : obs'[t] = "on" => obs[t] = "on"
    BY <1>1, CancelledType DEF TypeOK
  <2>2. TypeOK'
    BY <1>1, <2>1 DEF TypeOK
  <2>3. RequestOfItsTask' /\ UnderOwnObserver'
    BY <2>2 DEF RequestOfItsTask, UnderOwnObserver
  <2>4. CancelReaches'
    BY <2>1 DEF CancelReaches, LeftOn, Tasks
  <2>5. Websockets' = Websockets
    BY DEF Websockets
  <2>6. KeeperFitsSockets'
    BY <2>5 DEF KeeperFitsSockets
  <2>7. ClosedMeansCancelled'
    BY <2>1, <2>5 DEF ClosedMeansCancelled, LeftOn, Websockets, Tasks
  <2>8. NotYetSpawned'
    BY <1>1 DEF NotYetSpawned, Websockets, TypeOK
  <2> QED
    BY <2>3, <2>4, <2>6, <2>7, <2>8
<1>4. CASE RebootMain(r)
  <2> USE <1>4 DEF RebootMain, Goto, IInv
  <2>1. pc[r + 1] = "none" /\ r + 1 \in Mains
    BY TaskNames DEF NotYetSpawned
  <2>2. TypeOK'
    BY <1>1 DEF TypeOK
  <2>3. RequestOfItsTask'
    BY <1>1, <2>1, <2>2 DEF RequestOfItsTask, TypeOK
  <2>4. \A w \in Sockets : pc'[w] = pc[w]
    BY <1>1, <2>1 DEF TypeOK, Tasks
  <2>5. UnderOwnObserver' /\ CancelReaches'
    BY <2>4 DEF UnderOwnObserver, CancelReaches, LeftOn
  <2>6. KeeperFitsSockets' /\ ClosedMeansCancelled'
    BY <2>4 DEF KeeperFitsSockets, ClosedMeansCancelled, Websockets, LeftOn
  <2>7. NotYetSpawned'
    <3>2. \A q \in Reboots \ {r} : pc'[q + 1] = pc[q + 1]
      BY <1>1, TaskNames DEF TypeOK
    <3>3. reboot'[r] = "done" /\ \A q \in Reboots \ {r} : reboot'[q] = reboot[q]
      BY <1>1 DEF TypeOK
    <3> QED
      BY <2>4, <3>2, <3>3 DEF NotYetSpawned
  <2> QED
    BY <2>3, <2>5, <2>6, <2>7
<1> QED
  BY <1>2, <1>3, <1>4

-----------------------------------------------------------------------------
(***************************************************************************)
(* Every step                                                              *)
(***************************************************************************)

LEMMA StepIInv == IInv /\ [Next]_vars => IInv'
<1> SUFFICES ASSUME IInv, [Next]_vars PROVE IInv'
  OBVIOUS
<1>1. CASE \E w \in Sockets : Open(w) \/ OnClose(w) \/ CancelObservation(w)
  BY <1>1, OpenKeeps, OnCloseKeeps, CancelKeeps
<1>2. CASE \E w \in Sockets : StartRequest(w)
  <2>1. PICK w \in Sockets : StartRequest(w)
    BY <1>2
  <2>2. w \in Tasks /\ OtherMainsKept(w)
    BY <2>1, MainVarsKept DEF StartRequest, IInv, RequestOfItsTask, Tasks
  <2> QED
    BY <2>1, <2>2, RequestKeeps DEF StartRequest
<1>3. CASE \E t \in Tasks : \/ ClientCreated(t) \/ Respond(t) \/ Fail(t)
                            \/ ObservationEnds(t) \/ ObservationIsOver(t)
  BY <1>3, TaskKeeps
<1>4. CASE \E m \in Mains : StartMain(m) \/ Shutdown(m) \/ ShutdownDone(m)
  BY <1>4, MainKeeps
<1>5. CASE \E r \in Reboots :
             PostReboot(r) \/ RebootClient(r) \/ RebootService(r) \/ RebootMain(r)
  BY <1>5, RebootKeeps
<1>6. CASE UNCHANGED vars
  <2> USE <1>6 DEF IInv, vars, mainVars, taskVars
  <2>1. TypeOK'
    BY DEF TypeOK, RequestOfItsTask
  <2>2. RequestOfItsTask' /\ UnderOwnObserver' /\ CancelReaches' /\ NotYetSpawned'
    BY <2>1 DEF RequestOfItsTask, UnderOwnObserver, CancelReaches, NotYetSpawned, LeftOn
  <2>3. KeeperFitsSockets' /\ ClosedMeansCancelled'
    BY DEF KeeperFitsSockets, ClosedMeansCancelled, Websockets, LeftOn
  <2> QED
    BY <2>2, <2>3
<1> QED
  BY <1>1, <1>2, <1>3, <1>4, <1>5, <1>6 DEF Next

\* The inductive invariant holds in every reachable state.
THEOREM Invariance == Spec => []IInv
<1>1. Init => IInv
  BY InitIInv
<1>2. IInv /\ [Next]_vars => IInv'
  BY StepIInv
<1> QED
  BY <1>1, <1>2, PTL DEF Spec

\* No observation is cancelled for a request that has ended: an observer forgets
\* its request when the task that made it ends (coap_service.py's observers).
THEOREM RequestsOfTheirTasks == Spec => []RequestOfItsTask
BY Invariance, PTL DEF IInv

\* keep_alive runs exactly while there are web sockets: open and on_close start
\* and stop it for the first and the last one.
THEOREM KeeperIsRight == Spec => []KeeperFitsSockets
BY Invariance, PTL DEF IInv

\* Whenever a browser leaves, cancel_observation ends its observation, or its
\* task finds the web socket closed and does not begin one.  The exception is a
\* task that incoming_observation has ended for its first answer: its request is
\* forgotten (line 116) and its observation on.
THEOREM CancelEndsObservation == Spec => []ClosedMeansCancelled
BY Invariance, PTL DEF IInv

=============================================================================
