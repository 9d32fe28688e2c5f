---------------------------- MODULE CoapService -----------------------------
(***************************************************************************)
(* The web service of the luke demo, coap_service/coap_service.py: it      *)
(* observes the resource directory for itself (main), observes a resource  *)
(* for each web socket a browser opens, and reboots the demo on request.   *)
(* All tasks share one CoAP client, which main shuts down whenever its     *)
(* observation is over.                                                    *)
(*                                                                         *)
(* Everything runs in one event loop: an action is what a task does up to  *)
(* its next await.  Spawned tasks, answers and the end of an observation   *)
(* come in any order.  aiocoap ends an observation with an error at any    *)
(* time, as when its client is shut down, but never after it was cancelled.*)
(*                                                                         *)
(* The requests a browser has forwarded (CoapRequestHandler) keep nothing, *)
(* and what is done with a notification changes nothing here.              *)
(***************************************************************************)
EXTENDS Integers

CONSTANTS MaxSockets,       \* bound on the web sockets, numbered as they open
          MaxReboots        \* bound on the requests to /reboot

ASSUME CoapServiceAssumption ==
  MaxSockets \in Nat /\ MaxReboots \in Nat

\* The main that is started first and those started by reboots; each spawns
\* itself again.
Mains == 1..(MaxReboots + 1)
Reboots == 1..MaxReboots
Sockets == {-w : w \in 1..MaxSockets}
Tasks == Sockets \cup Mains
\* Observers made by main; an observer no main uses is forgotten.
MainObservers == 1..(MaxReboots + 2)
Observers == Sockets \cup MainObservers
None == 0

VARIABLES
  client,           \* coap_client: "none", "up", or "closing" while it shuts down
  sock,             \* "new", "open", "closing" (close was called) or "closed"
  keeper,           \* keep_alive is called periodically
  cancelling,       \* web sockets whose cancel_observation is spawned
  main_observer,    \* main_observer, or None
  observer,         \* the observer a main waits for
  _pr,              \* each observer's request: the task it belongs to, or None
  pc,               \* where a task is in Observer.request or main
  obs,              \* a task's observation: "none", "on", "over" or "cancelled"
  reboot            \* where a reboot is

taskVars == <<_pr, pc, obs>>
mainVars == <<main_observer, observer>>
vars == <<client, sock, keeper, cancelling, mainVars, taskVars, reboot>>

Init ==
  /\ client = "none"
  /\ sock = [w \in Sockets |-> "new"]
  /\ keeper = FALSE /\ cancelling = {}
  /\ main_observer = None /\ observer = [m \in Mains |-> None]
  /\ _pr = [o \in Observers |-> None]
  /\ pc = [t \in Tasks |-> IF t = 1 THEN "spawned" ELSE "none"]
  /\ obs = [t \in Tasks |-> "none"]
  /\ reboot = [r \in Reboots |-> "none"]

ObserverOf(t) == IF t \in Sockets THEN t ELSE observer'[t]
Goto(t, where) == pc' = [pc EXCEPT ![t] = where]

(***************************************************************************)
(* Web sockets                                                             *)
(***************************************************************************)

Websockets == {w \in Sockets : sock[w] \in {"open", "closing"}}
IsClosed(t) == t \in Sockets /\ t \notin Websockets

\* Mutant: the set is looked at after the web socket was added.
KeeperTooLate(w) == UNCHANGED keeper
StartKeeper(w) == keeper' = (keeper \/ Websockets = {})

Open(w) ==
  /\ sock[w] = "new" /\ \A v \in Sockets : v > w => sock[v] # "new"
  /\ sock' = [sock EXCEPT ![w] = "open"]
  /\ StartKeeper(w)
  /\ Goto(w, "spawned")
  /\ UNCHANGED <<client, cancelling, mainVars, _pr, obs, reboot>>

\* on_close, after the browser or close() closed the web socket
OnClose(w) ==
  /\ w \in Websockets
  /\ sock' = [sock EXCEPT ![w] = "closed"]
  /\ keeper' = (keeper /\ Websockets # {w})
  /\ cancelling' = cancelling \cup {w}
  /\ UNCHANGED <<client, mainVars, taskVars, reboot>>

\* Observer.cancel
Cancelled(o) ==
  [t \in Tasks |-> IF t = _pr[o] /\ obs[t] = "on" THEN "cancelled" ELSE obs[t]]

CancelObservation(w) ==
  /\ w \in cancelling
  /\ cancelling' = cancelling \ {w}
  /\ obs' = Cancelled(w)
  /\ UNCHANGED <<client, sock, keeper, mainVars, _pr, pc, reboot>>

(***************************************************************************)
(* Observer.request                                                        *)
(***************************************************************************)

Send(t) ==
  /\ Goto(t, "response")
  /\ obs' = [obs EXCEPT ![t] = "on"]
  /\ _pr' = [_pr EXCEPT ![ObserverOf(t)] = t]

\* Mutant: the web socket is not looked at again.
SendAnyway(t) == Send(t)

\* With a client at hand: the web socket may have been closed meanwhile.
SendUnlessClosed(t) ==
  IF IsClosed(t) THEN Goto(t, "done") /\ UNCHANGED <<obs, _pr>>
                 ELSE Send(t)

\* Up to the creation of a client, or to the answer if there is one.
Request(t) ==
  IF client = "none" THEN Goto(t, "creating") /\ UNCHANGED <<obs, _pr>>
                     ELSE SendUnlessClosed(t)

StartRequest(w) ==
  /\ pc[w] = "spawned"
  /\ UNCHANGED mainVars
  /\ Request(w)
  /\ UNCHANGED <<client, sock, keeper, cancelling, reboot>>

\* get_coap_client goes on: it sets coap_client whatever it is by now.
ClientCreated(t) ==
  /\ pc[t] = "creating"
  /\ UNCHANGED mainVars
  /\ client' = "up"
  /\ SendUnlessClosed(t)
  /\ UNCHANGED <<sock, keeper, cancelling, reboot>>

\* The finally clause, and what main does next.  An exception ends main.
\* Mutants: the request is kept; the web socket is not closed.
KeepRequest(t, raised) ==
  /\ Goto(t, IF t \in Sockets THEN "done" ELSE IF raised THEN "dead" ELSE "over")
  /\ sock' = [w \in Sockets |-> IF w = t /\ sock[w] = "open" THEN "closing"
                                                             ELSE sock[w]]
  /\ UNCHANGED _pr

LeaveOpen(t, raised) ==
  /\ Goto(t, IF t \in Sockets THEN "done" ELSE IF raised THEN "dead" ELSE "over")
  /\ _pr' = [_pr EXCEPT ![ObserverOf(t)] = None]
  /\ UNCHANGED sock

Finally(t, raised) ==
  /\ Goto(t, IF t \in Sockets THEN "done" ELSE IF raised THEN "dead" ELSE "over")
  /\ _pr' = [_pr EXCEPT ![ObserverOf(t)] = None]
  /\ sock' = [w \in Sockets |-> IF w = t /\ sock[w] = "open" THEN "closing"
                                                             ELSE sock[w]]

Respond(t) ==
  /\ pc[t] = "response"
  /\ Goto(t, "observing")
  /\ UNCHANGED <<client, sock, keeper, cancelling, mainVars, _pr, obs, reboot>>

\* The request fails, and its observation with it; or incoming_observation raises
\* for the answer, which does not parse or goes to a closing web socket: then the
\* request is forgotten and the observation goes on.  A main is dead then, and what
\* becomes of its observation is not followed any further.
Fail(t) ==
  /\ pc[t] = "response"
  /\ UNCHANGED mainVars
  /\ Finally(t, TRUE)
  /\ \/ t \in Sockets /\ obs' = [obs EXCEPT ![t] = IF @ = "on" THEN "over" ELSE @]
     \/ t \in Sockets /\ UNCHANGED obs
     \/ t \in Mains /\ obs' = [obs EXCEPT ![t] = "none"]
  /\ UNCHANGED <<client, keeper, cancelling, reboot>>

\* errback, while there is a task it is for
ObservationEnds(t) ==
  /\ obs[t] = "on" /\ pc[t] \in {"response", "observing"}
  /\ obs' = [obs EXCEPT ![t] = "over"]
  /\ UNCHANGED <<client, sock, keeper, cancelling, mainVars, _pr, pc, reboot>>

ObservationIsOver(t) ==
  /\ pc[t] = "observing" /\ obs[t] = "over"
  /\ UNCHANGED mainVars
  /\ Finally(t, FALSE)
  /\ UNCHANGED <<client, keeper, cancelling, obs, reboot>>

(***************************************************************************)
(* main                                                                    *)
(***************************************************************************)

\* main finds an observer of an earlier main; if that one observes already
\* its request returns at once.
StartMain(m) ==
  /\ pc[m] = "spawned"
  /\ main_observer' = IF main_observer # None THEN main_observer
                      ELSE CHOOSE o \in MainObservers :
                             \A n \in Mains \ {m} : observer[n] # o
  /\ observer' = [observer EXCEPT ![m] = main_observer']
  /\ IF _pr[main_observer'] # None
     THEN Goto(m, "over") /\ UNCHANGED <<obs, _pr>>
     ELSE Request(m)
  /\ UNCHANGED <<client, sock, keeper, cancelling, reboot>>

\* shutdown_coap_client, up to its await and from there; without a client its
\* exception is caught.  main is spawned again.
Shutdown(m) ==
  /\ pc[m] = "over"
  /\ IF client = "none"
     THEN Goto(m, "spawned") /\ UNCHANGED client
     ELSE Goto(m, "shutdown") /\ client' = "closing"
  /\ UNCHANGED <<sock, keeper, cancelling, mainVars, _pr, obs, reboot>>

ShutdownDone(m) ==
  /\ pc[m] = "shutdown"
  /\ client' = "none"
  /\ Goto(m, "spawned")
  /\ UNCHANGED <<sock, keeper, cancelling, mainVars, _pr, obs, reboot>>

(***************************************************************************)
(* RebootHandler.post                                                      *)
(***************************************************************************)

RebootGoto(r, where) == reboot' = [reboot EXCEPT ![r] = where]

PostReboot(r) ==
  /\ reboot[r] = "none" /\ \A q \in Reboots : q < r => reboot[q] # "none"
  /\ RebootGoto(r, IF client = "none" THEN "creating" ELSE "posting")
  /\ UNCHANGED <<client, sock, keeper, cancelling, mainVars, taskVars>>

RebootClient(r) ==
  /\ reboot[r] = "creating"
  /\ client' = "up"
  /\ RebootGoto(r, "posting")
  /\ UNCHANGED <<sock, keeper, cancelling, mainVars, taskVars>>

\* The nodes have been told to reboot.
RebootService(r) ==
  /\ reboot[r] = "posting"
  /\ IF main_observer # None THEN obs' = Cancelled(main_observer)
                             ELSE UNCHANGED obs
  /\ main_observer' = None
  /\ sock' = [w \in Sockets |-> IF w \in Websockets THEN "closing" ELSE sock[w]]
  /\ RebootGoto(r, "sleeping")
  /\ UNCHANGED <<client, keeper, cancelling, observer, _pr, pc>>

RebootMain(r) ==
  /\ reboot[r] = "sleeping"
  /\ Goto(r + 1, "spawned")
  /\ RebootGoto(r, "done")
  /\ UNCHANGED <<client, sock, keeper, cancelling, mainVars, _pr, obs>>

Next ==
  \/ \E w \in Sockets :
       Open(w) \/ OnClose(w) \/ CancelObservation(w) \/ StartRequest(w)
  \/ \E t \in Tasks : \/ ClientCreated(t) \/ Respond(t) \/ Fail(t)
                      \/ ObservationEnds(t) \/ ObservationIsOver(t)
  \/ \E m \in Mains : StartMain(m) \/ Shutdown(m) \/ ShutdownDone(m)
  \/ \E r \in Reboots :
       PostReboot(r) \/ RebootClient(r) \/ RebootService(r) \/ RebootMain(r)

\* The event loop runs the tasks that are spawned or ready, those of the web
\* sockets at least; aiocoap gives every request an answer or an error, and tornado
\* a closing web socket its on_close.  Nothing makes an observation end, a browser
\* leave or anybody reboot.
RunTask(w) == \/ StartRequest(w) \/ ClientCreated(w)
              \/ Respond(w) \/ Fail(w) \/ ObservationIsOver(w)
Fairness ==
  \A w \in Sockets : /\ WF_vars(RunTask(w))
                     /\ WF_vars(sock[w] = "closing" /\ OnClose(w))

Spec == Init /\ [][Next]_vars /\ Fairness

(***************************************************************************)
(* Properties                                                              *)
(***************************************************************************)

TypeOK ==
  /\ client \in {"none", "up", "closing"}
  /\ sock \in [Sockets -> {"new", "open", "closing", "closed"}]
  /\ keeper \in BOOLEAN /\ cancelling \subseteq Sockets
  /\ main_observer \in {None} \cup MainObservers
  /\ observer \in [Mains -> {None} \cup MainObservers]
  /\ _pr \in [Observers -> {None} \cup Tasks]
  /\ pc \in [Tasks -> {"none", "spawned", "creating", "response", "observing",
                       "over", "shutdown", "done", "dead"}]
  /\ obs \in [Tasks -> {"none", "on", "over", "cancelled"}]
  /\ reboot \in [Reboots -> {"none", "creating", "posting", "sleeping", "done"}]

\* An observer's request belongs to a task that is at it: neither a browser that
\* leaves nor a reboot cancels the observation of a request that has ended.
RequestOfItsTask ==
  /\ TypeOK
  /\ \A o \in Observers :
       _pr[o] # None => pc[_pr[o]] \in {"response", "observing"}

\* Web sockets are kept alive as long as there are any, and by one caller:
\* open and on_close start and stop it for the first and the last one, in
\* whatever order web sockets come and go.
KeeperFitsSockets == keeper <=> Websockets # {}

\* The resource of a closed web socket is not observed any more once its
\* cancel_observation has run, whenever the browser left: before the request,
\* while a client was created, or before the request was answered; unless
\* incoming_observation raised for the answer, which ends the task and leaves its
\* observation on for good, as nothing cancels it any more.
LeftOn(w) == pc[w] = "done" /\ obs[w] = "on"
ClosedMeansCancelled ==
  \A w \in Sockets :
    sock[w] = "closed" /\ w \notin cancelling => obs[w] # "on" \/ LeftOn(w)

\* A browser learns of the end of its observation: the web socket is closed,
\* also if the client was shut down or created anew under it.
EndedMeansClosed ==
  \A w \in Sockets : obs[w] = "over" ~> sock[w] = "closed"

=============================================================================
