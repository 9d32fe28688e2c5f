----------------------------- MODULE PostPoints -----------------------------
(***************************************************************************)
(* lndw18_luke/common/common.c: the target a node posts points to, and the *)
(* posting of points.  post_points_to_target runs in the node's main       *)
(* thread; luke_set_target runs in the gcoap thread, which has the higher  *)
(* priority: it runs to completion between any two steps of the main       *)
(* thread.  Nothing locks the target.  Times are microseconds of a 32-bit  *)
(* clock, scaled down: the clock counts modulo ClockMod, and Second ticks  *)
(* are one second.                                                         *)
(***************************************************************************)
EXTENDS Naturals

CONSTANTS Addrs,            \* addresses a target can have
          Paths,            \* non-empty resource paths
          Unspecified,      \* the address ::
          NoPath,           \* the empty path
          GcoapPort,        \* GCOAP_PORT
          OtherPort,        \* a port given with the address
          ClockMod,         \* 2^32
          Second            \* US_PER_SEC

ASSUME PostPointsAssumption ==
  /\ Unspecified \notin Addrs /\ NoPath \notin Paths
  /\ {GcoapPort, OtherPort} \subseteq Nat \ {0}
  /\ ClockMod \in Nat /\ Second \in 1..ClockMod - 1

VARIABLES
  remote,           \* _target_remote: address and port
  path,             \* _target_path
  last_sent,        \* _victory_last_sent
  clock,            \* xtimer_now_usec()
  post_pc,          \* where post_points_to_target is
  now,              \* its local now, until the throttle has read it
  req_path,         \* the path gcoap_req_init put into the request
  \* History:
  age,              \* time since the last request went out, up to ClockMod
  retargeted        \* luke_set_target ran since the running post was called

targetVars == <<remote, path, retargeted>>
postVars == <<last_sent, post_pc, now, req_path>>
clockVars == <<clock, age>>

\* Not running, or before the test of the address, the test of the path and of
\* the time, the copy of the path, the read of the address by the send.
PostLocation == {"idle", "addr", "path", "init", "send"}

Remotes == [addr : Addrs \cup {Unspecified}, port : {0, GcoapPort, OtherPort}]

PostInit ==
  /\ remote = [addr |-> Unspecified, port |-> GcoapPort]
  /\ path = NoPath
  /\ last_sent = 0 /\ clock = 0 /\ age = ClockMod
  /\ post_pc = "idle" /\ now = 0 /\ req_path = NoPath
  /\ retargeted = FALSE

(***************************************************************************)
(* The gcoap thread: POST /<id>/target                                     *)
(***************************************************************************)

\* BAD_REQUEST: a payload that is no JSON object of two strings addr and path.
RejectTarget ==
  /\ UNCHANGED targetVars

\* BAD_REQUEST: make_sock_ep fails on addr; it has already zeroed the port, and the library's
\* parser may have cleared the address too.
MisparseTarget ==
  /\ \E a \in {remote.addr, Unspecified} : remote' = [addr |-> a, port |-> 0]
  /\ retargeted' = (post_pc # "idle")
  /\ UNCHANGED path

\* An empty addr clears the address alone, the port stays.
ClearTarget(p) ==
  /\ remote' = [remote EXCEPT !.addr = Unspecified]
  /\ path' = p
  /\ retargeted' = (post_pc # "idle")

\* make_sock_ep: an address without a port gets the default one.
make_sock_ep(a, port) ==
  [addr |-> a, port |-> IF port = 0 THEN GcoapPort ELSE port]

AcceptTarget(a, port, p) ==
  /\ remote' = make_sock_ep(a, port)
  /\ path' = p
  /\ retargeted' = (post_pc # "idle")

luke_set_target ==
  /\ \/ RejectTarget
     \/ MisparseTarget
     \/ \E p \in Paths \cup {NoPath} :
          \/ ClearTarget(p)
          \/ \E a \in Addrs, port \in {0, OtherPort} : AcceptTarget(a, port, p)
  /\ UNCHANGED <<postVars, clockVars>>

(***************************************************************************)
(* The main thread: post_points_to_target                                  *)
(***************************************************************************)

Elapsed(from, to) == (to + ClockMod - from) % ClockMod

\* The test of the throttle: (_victory_last_sent - now) < US_PER_SEC.
LastSendTooRecent == Elapsed(now, last_sent) < Second

NoTarget == remote.addr = Unspecified \/ path = NoPath

\* The call, which reads the clock first.
CallPostPoints ==
  /\ post_pc = "idle"
  /\ post_pc' = "addr"
  /\ now' = clock
  /\ UNCHANGED <<targetVars, clockVars, last_sent, req_path>>

\* The call returns 0 at once without a target, or when throttled: the address
\* is tested first, the path after it, and the target may change in between.
PostRefused ==
  /\ \/ post_pc = "addr" /\ remote.addr = Unspecified
     \/ post_pc = "path" /\ (path = NoPath \/ LastSendTooRecent)
  /\ post_pc' = "idle"
  /\ now' = 0
  /\ retargeted' = FALSE
  /\ UNCHANGED <<remote, path, clockVars, last_sent, req_path>>

AddrChecked ==
  /\ post_pc = "addr"
  /\ remote.addr # Unspecified
  /\ post_pc' = "path"
  /\ UNCHANGED <<targetVars, clockVars, last_sent, now, req_path>>

\* Mutant: the test of the path is dropped.
PathUnchecked ==
  /\ post_pc = "path"
  /\ ~LastSendTooRecent
  /\ post_pc' = "init"
  /\ now' = 0
  /\ UNCHANGED <<targetVars, clockVars, last_sent, req_path>>

PostChecked ==
  /\ post_pc = "path"
  /\ path # NoPath /\ ~LastSendTooRecent
  /\ post_pc' = "init"
  /\ now' = 0
  /\ UNCHANGED <<targetVars, clockVars, last_sent, req_path>>

\* gcoap_req_init copies the path; the time of sending is noted after it.
InitRequest ==
  /\ post_pc = "init"
  /\ req_path' = path
  /\ last_sent' = clock
  /\ post_pc' = "send"
  /\ UNCHANGED <<targetVars, clockVars, now>>

\* What gcoap_req_send2 sends: the path copied before, the address read now.
Request == [addr |-> remote.addr, port |-> remote.port, path |-> req_path]

\* gcoap_req_send2 returns 0 when the stack has no room for the request.
SendRequest(ok) ==
  /\ post_pc = "send"
  /\ post_pc' = "idle"
  /\ req_path' = NoPath
  /\ retargeted' = FALSE
  /\ age' = IF ok THEN 0 ELSE age
  /\ UNCHANGED <<remote, path, clock, last_sent, now>>

Tick ==
  /\ clock' = (clock + 1) % ClockMod
  /\ age' = IF age < ClockMod THEN age + 1 ELSE age
  /\ UNCHANGED <<targetVars, postVars>>

=============================================================================
