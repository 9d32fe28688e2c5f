-------------------------- MODULE ButtonNode_proofs --------------------------
(***************************************************************************)
(* Theorems about the button node: first about Controller by itself, for   *)
(* every number of presses, every series length of at least two and every  *)
(* width of the counters that holds the presses; then about the whole      *)
(* node, for every set of addresses and paths, every width of the clock    *)
(* and every length of the throttle.                                       *)
(*                                                                         *)
(* The controller's inductive invariant is the conjunction of the          *)
(* invariants the runs check: types need the conservation of presses (a    *)
(* counter that never exceeds the presses never wraps), and conservation   *)
(* and the length of a series need that exactly one send is outstanding.   *)
(* It survives the composition: every step of the node is a step of        *)
(* Controller, leaves Controller's variables alone, or starts over.  What  *)
(* the composition adds is the account of the points by their outcome, and *)
(* what the main thread knows of the target between its tests and the send, *)
(* which holds as long as the gcoap thread has not run since the call.     *)
(***************************************************************************)
EXTENDS ButtonNode, TLAPS

-----------------------------------------------------------------------------
(***************************************************************************)
(* The controller by itself                                                *)
(***************************************************************************)

IInv ==
  /\ TypeOK
  /\ OneSendOutstanding
  /\ NoStrandedPress
  /\ PressesConserved
  /\ SendsPerPress

\* Below its upper bound an atomic_uint counts up like a natural number.
LEMMA IncBelowMax ==
  ASSUME NEW u \in Nat, NEW m \in Nat, m <= UIntMax, u < m
  PROVE  Inc(u) = u + 1
BY ControllerAssumption DEF Inc

\* Above zero it counts down like one.
LEMMA DecAboveZero ==
  ASSUME NEW u \in Nat, u > 0
  PROVE  Dec(u) = u - 1
BY DEF Dec

LEMMA InitIInv == Init => IInv
<1> SUFFICES ASSUME Init PROVE IInv
  OBVIOUS
<1> USE ControllerAssumption DEF Init
<1>1. irq \in BOOLEAN /\ debounce_timer \in BOOLEAN /\ send_timer \in BOOLEAN
  OBVIOUS
<1>2. TypeOK
  BY <1>1 DEF TypeOK, Location, QueueSize
<1>3. OneSendOutstanding
  BY DEF OneSendOutstanding, SendInHand
<1>4. NoStrandedPress /\ PressesConserved /\ SendsPerPress
  BY DEF NoStrandedPress, PressesConserved, SendsPerPress
<1> QED
  BY <1>2, <1>3, <1>4 DEF IInv

\* The interrupt keeps the invariant: it only adds, and it starts a series
\* exactly when none is running.
LEMMA PressKeepsIInv == IInv /\ _increment_counter => IInv'
<1> SUFFICES ASSUME IInv, _increment_counter PROVE IInv'
  OBVIOUS
<1> USE ControllerAssumption
        DEF IInv, _increment_counter, NoSeries, _schedule_next_send
<1>1. counter \in Nat /\ counter < MaxPresses
  BY DEF TypeOK, PressesConserved
<1>2. counter' = counter + 1
  BY <1>1, IncBelowMax
<1>3. PressesConserved'
  BY <1>2 DEF PressesConserved, TypeOK
<1>4. TypeOK'
  <2>1. counter' \in 0..MaxPresses /\ pressed' \in 0..MaxPresses
    BY <1>1, <1>2 DEF TypeOK
  <2>2. sends_remaining' \in 0..SendsDefault /\ since' \in 0..SendsDefault
    OBVIOUS
  <2>3. irq' \in BOOLEAN /\ debounce_timer' \in BOOLEAN
    OBVIOUS
  <2>4. send_timer' \in BOOLEAN
    BY DEF TypeOK
  <2> QED
    BY <2>1, <2>2, <2>3, <2>4 DEF TypeOK
<1>5. OneSendOutstanding'
  BY DEF TypeOK, OneSendOutstanding, SendInHand, QueueSize
<1>6. NoStrandedPress'
  BY <1>5 DEF TypeOK, OneSendOutstanding, NoStrandedPress, SendInHand, QueueSize
<1>7. SendsPerPress'
  BY DEF TypeOK, SendsPerPress
<1> QED
  BY <1>3, <1>4, <1>5, <1>6, <1>7

\* The timer hands the send to the queue, which is empty.
LEMMA TimerKeepsIInv == IInv /\ SendTimerFires => IInv'
<1> SUFFICES ASSUME IInv, SendTimerFires PROVE IInv'
  OBVIOUS
<1> USE DEF IInv, SendTimerFires
<1>1. msg_q = 0 /\ msg_q' = 1 /\ send_timer' = FALSE
  BY DEF TypeOK, OneSendOutstanding, QueueSize
<1>2. msg_q' \in 0..QueueSize
  BY <1>1 DEF QueueSize
<1>3. TypeOK'
  BY <1>2 DEF TypeOK
<1>4. OneSendOutstanding'
  BY <1>1 DEF OneSendOutstanding, SendInHand
<1>5. NoStrandedPress'
  BY <1>1 DEF NoStrandedPress
<1>6. PressesConserved' /\ SendsPerPress'
  BY DEF PressesConserved, SendsPerPress
<1> QED
  BY <1>3, <1>4, <1>5, <1>6

\* Taking the counter moves the presses into the thread's hands.
LEMMA TakeKeepsIInv == IInv /\ TakeCounter => IInv'
<1> SUFFICES ASSUME IInv, TakeCounter PROVE IInv'
  OBVIOUS
<1> USE ControllerAssumption DEF IInv, TakeCounter
<1>1. counter' \in 0..MaxPresses /\ points' \in 0..MaxPresses
  BY DEF TypeOK
<1>2. pc' \in Location
  BY DEF Location
<1>3. TypeOK'
  BY <1>1, <1>2 DEF TypeOK
<1>4. OneSendOutstanding'
  BY DEF OneSendOutstanding, SendInHand
<1>5. NoStrandedPress'
  BY DEF NoStrandedPress
<1>6. PressesConserved'
  <2>1. points = 0
    BY DEF TypeOK, PressesConserved
  <2> QED
    BY <2>1 DEF TypeOK, PressesConserved
<1>7. SendsPerPress'
  BY DEF SendsPerPress
<1> QED
  BY <1>3, <1>4, <1>5, <1>6, <1>7

\* Counting a send down keeps it: the thread holds the send of a running series.
LEMMA CountSendKeepsIInv == IInv /\ CountSend => IInv'
<1> SUFFICES ASSUME IInv, CountSend PROVE IInv'
  OBVIOUS
<1> USE ControllerAssumption DEF IInv, CountSend, MoreSends
<1>1. sends_remaining \in Nat /\ sends_remaining > 0
  BY DEF TypeOK, OneSendOutstanding, SendInHand
<1>2. sends_remaining' = sends_remaining - 1
  BY <1>1, DecAboveZero
<1>3. SendsPerPress'
  BY <1>1, <1>2 DEF TypeOK, SendsPerPress
<1>4. since' \in 0..SendsDefault
  BY <1>1, <1>2, <1>3 DEF TypeOK, SendsPerPress
<1>5. TypeOK'
  BY <1>1, <1>2, <1>4 DEF TypeOK, Location
<1>6. OneSendOutstanding'
  BY <1>1, <1>2 DEF TypeOK, OneSendOutstanding, SendInHand
<1>7. NoStrandedPress'
  BY <1>1 DEF TypeOK, NoStrandedPress
<1>8. PressesConserved'
  BY DEF TypeOK, PressesConserved
<1> QED
  BY <1>3, <1>5, <1>6, <1>7, <1>8

\* So does giving the points away.
LEMMA PostKeepsIInv ==
  ASSUME IInv, NEW sent \in BOOLEAN, PostPoints(sent)
  PROVE  IInv'
<1> USE ControllerAssumption DEF IInv, PostPoints
<1>1. PressesConserved'
  BY DEF TypeOK, PressesConserved
<1>2. TypeOK'
  BY <1>1 DEF TypeOK, PressesConserved, Location
<1>3. OneSendOutstanding'
  BY DEF OneSendOutstanding, SendInHand
<1>4. NoStrandedPress'
  BY DEF NoStrandedPress
<1>5. SendsPerPress'
  BY DEF SendsPerPress
<1> QED
  BY <1>1, <1>2, <1>3, <1>4, <1>5

\* Every step keeps the inductive invariant.
LEMMA StepIInv == IInv /\ [Next]_vars => IInv'
<1> SUFFICES ASSUME IInv, [Next]_vars PROVE IInv'
  OBVIOUS
<1> USE ControllerAssumption
        DEF IInv, TypeOK, OneSendOutstanding, NoStrandedPress,
            PressesConserved, SendsPerPress, SendInHand, Location, QueueSize
<1>1. CASE _increment_counter
  BY <1>1, PressKeepsIInv
<1>2. CASE _enable_button
  BY <1>2 DEF _enable_button
<1>3. CASE SendTimerFires
  BY <1>3, TimerKeepsIInv
<1>4. CASE InitButton
  BY <1>4 DEF InitButton
<1>5. CASE RegisterListener \/ EnterClient
  BY <1>5 DEF RegisterListener, EnterClient
<1>6. CASE ReceiveMsg
  BY <1>6 DEF ReceiveMsg
<1>7. CASE TakeCounter
  BY <1>7, TakeKeepsIInv
<1>8. CASE CountSend
  BY <1>8, CountSendKeepsIInv
<1>9. CASE ScheduleSend
  BY <1>9 DEF ScheduleSend, _schedule_next_send
<1>10. CASE \E sent \in BOOLEAN : PostPoints(sent)
  BY <1>10, PostKeepsIInv
<1>11. CASE UNCHANGED vars
  BY <1>11 DEF vars
<1> QED
  BY <1>1, <1>2, <1>3, <1>4, <1>5, <1>6, <1>7, <1>8, <1>9, <1>10, <1>11
     DEF Next, Interrupts, Client

\* The inductive invariant holds in every reachable state.
THEOREM Invariance == Spec => []IInv
<1>1. Init => IInv
  BY InitIInv
<1>2. IInv /\ [Next]_vars => IInv'
  BY StepIInv
<1> QED
  BY <1>1, <1>2, PTL DEF Spec

\* Type correctness; in particular neither atomic counter ever wraps.
THEOREM TypeCorrect == Spec => []TypeOK
BY Invariance, PTL DEF IInv

\* The interrupt and the main thread never have two sends under way, nor none
\* while a series is running: the hand-over of the send timer needs no lock.
THEOREM OneSend == Spec => []OneSendOutstanding
BY Invariance, PTL DEF IInv

\* No press is left in the counter without a later send that takes it.
THEOREM NoPressStranded == Spec => []NoStrandedPress
BY Invariance, PTL DEF IInv

\* No press is lost or counted twice between the interrupt and the post.
THEOREM Conservation == Spec => []PressesConserved
BY Invariance, PTL DEF IInv

\* Every press is followed by exactly SendsDefault sends.
THEOREM SeriesLength == Spec => []SendsPerPress
BY Invariance, PTL DEF IInv

-----------------------------------------------------------------------------
(***************************************************************************)
(* The safety part of the refinement of PointTally                         *)
(***************************************************************************)

LEMMA StepRefines ==
  IInv /\ [Next]_vars => [Tally!TallyNext]_(Tally!tallyVars)
<1> SUFFICES ASSUME IInv, [Next]_vars
             PROVE  [Tally!TallyNext]_(Tally!tallyVars)
  OBVIOUS
<1> USE DEF Tally!TallyNext, Tally!tallyVars
<1>1. CASE _increment_counter
  BY <1>1 DEF _increment_counter, Tally!Press
<1>2. CASE \E sent \in BOOLEAN : PostPoints(sent)
  <2>1. points \in 0..MaxPresses /\ offered + points <= pressed
    BY ControllerAssumption DEF IInv, TypeOK, PressesConserved
  <2>2. Tally!HandOver(points)
    BY <1>2, <2>1 DEF PostPoints, Tally!HandOver
  <2> QED
    BY <2>1, <2>2
<1>3. CASE \/ _enable_button \/ SendTimerFires
  BY <1>3 DEF _enable_button, SendTimerFires
<1>4. CASE \/ InitButton \/ RegisterListener \/ EnterClient \/ ReceiveMsg
           \/ TakeCounter \/ CountSend \/ ScheduleSend
  BY <1>4 DEF InitButton, RegisterListener, EnterClient, ReceiveMsg, TakeCounter, CountSend,
              ScheduleSend
<1>5. CASE UNCHANGED vars
  BY <1>5 DEF vars
<1> QED
  BY <1>1, <1>2, <1>3, <1>4, <1>5 DEF Next, Interrupts, Client

\* Seen from outside, the node is a tally: presses in, batches out, none twice.
THEOREM RefinesTally ==
  Spec => Tally!TallyInit /\ [][Tally!TallyNext]_(Tally!tallyVars)
<1>1. Init => Tally!TallyInit
  BY DEF Init, Tally!TallyInit
<1>2. IInv /\ [Next]_vars => [Tally!TallyNext]_(Tally!tallyVars)
  BY StepRefines
<1> QED
  BY <1>1, <1>2, Invariance, PTL DEF Spec

-----------------------------------------------------------------------------
(***************************************************************************)
(* The whole node                                                          *)
(***************************************************************************)

\* What the two tests learnt, and what InitRequest copied, is still true of the
\* target unless luke_set_target ran since the call.
CheckedTarget ==
  /\ post_pc \in {"path", "init", "send"} /\ ~retargeted => remote.addr # Unspecified
  /\ post_pc \in {"init", "send"} /\ ~retargeted => path # NoPath
  /\ post_pc = "send" /\ ~retargeted => req_path = path

\* The points offered to post_points_to_target, by what became of them.
OfferedByOutcome == offered = posted + rejected

NodeIInv ==
  /\ IInv
  /\ NodeTypeOK
  /\ OfferedByOutcome
  /\ CheckedTarget

LEMMA NodeInitIInv == NodeInit => NodeIInv
<1> SUFFICES ASSUME NodeInit PROVE NodeIInv
  OBVIOUS
<1> USE ControllerAssumption, PostPointsAssumption DEF NodeInit, PostInit, PostLocation
<1>1. IInv
  BY InitIInv
<1>2. remote \in Remotes
  BY DEF Remotes
<1>3. NodeTypeOK
  <2>1. retargeted \in BOOLEAN /\ reboot_timer \in BOOLEAN
    OBVIOUS
  <2>2. rejected \in 0..MaxPresses
    OBVIOUS
  <2> QED
    BY <1>1, <1>2, <2>1, <2>2 DEF IInv, NodeTypeOK
<1>4. OfferedByOutcome /\ CheckedTarget
  BY DEF OfferedByOutcome, CheckedTarget, Init
<1> QED
  BY <1>1, <1>3, <1>4 DEF NodeIInv

-----------------------------------------------------------------------------
(***************************************************************************)
(* Steps that return from post_points_to_target                            *)
(***************************************************************************)

\* A call that returns zero adds its points to the rejected ones.
LEMMA ReturnZeroKeeps == NodeIInv /\ PostReturnsZero => NodeIInv'
<1> SUFFICES ASSUME NodeIInv, PostReturnsZero PROVE NodeIInv'
  OBVIOUS
<1> USE ControllerAssumption, PostPointsAssumption
        DEF NodeIInv, PostReturnsZero, targetVars, clockVars, PostLocation
<1>1. IInv'
  BY PostKeepsIInv
<1>2. post_pc' = "idle" /\ UNCHANGED <<remote, path, clock, last_sent, reboot_timer>>
  BY DEF PostRefused, SendRequest
<1>3. req_path' \in Paths \cup {NoPath} /\ retargeted' \in BOOLEAN /\ age' \in 0..ClockMod
  BY DEF PostRefused, SendRequest, NodeTypeOK
<1>3a. now' \in 0..ClockMod - 1
  <2>1. now' = now \/ now' = 0
    BY DEF PostRefused, SendRequest
  <2> QED
    BY <2>1 DEF NodeTypeOK
<1>4. OfferedByOutcome'
  BY DEF PostPoints, OfferedByOutcome, NodeTypeOK, TypeOK
<1>5. rejected' \in 0..MaxPresses
  BY <1>1, <1>4 DEF IInv, TypeOK, PressesConserved, OfferedByOutcome, NodeTypeOK
<1>6. NodeTypeOK'
  BY <1>1, <1>2, <1>3, <1>5, <1>3a DEF IInv, NodeTypeOK
<1>7. CheckedTarget'
  BY <1>2 DEF CheckedTarget
<1> QED
  BY <1>1, <1>4, <1>6, <1>7

\* A request that goes out adds its points to the posted ones.
LEMMA ReturnLenKeeps == NodeIInv /\ PostReturnsLen => NodeIInv'
<1> SUFFICES ASSUME NodeIInv, PostReturnsLen PROVE NodeIInv'
  OBVIOUS
<1> USE ControllerAssumption, PostPointsAssumption
        DEF NodeIInv, PostReturnsLen, SendRequest, PostLocation
<1>1. IInv'
  BY PostKeepsIInv
<1>2. OfferedByOutcome'
  BY DEF PostPoints, OfferedByOutcome, NodeTypeOK, TypeOK
<1>3. age' \in 0..ClockMod
  BY DEF NodeTypeOK
<1>4. NodeTypeOK'
  BY <1>1, <1>3 DEF IInv, NodeTypeOK
<1>5. CheckedTarget'
  BY DEF CheckedTarget
<1> QED
  BY <1>1, <1>2, <1>4, <1>5

-----------------------------------------------------------------------------
(***************************************************************************)
(* Steps that leave the controller's variables alone                       *)
(***************************************************************************)

\* Controller's invariant reads Controller's variables only.
LEMMA SameController == IInv /\ UNCHANGED vars => IInv'
BY StepIInv

\* post_points_to_target goes on: the call, the check, the request.
LEMMA GoesOnKeeps == NodeIInv /\ (CallPost \/ PostGoesOn) => NodeIInv'
<1> SUFFICES ASSUME NodeIInv, CallPost \/ PostGoesOn PROVE NodeIInv'
  OBVIOUS
<1> USE ControllerAssumption, PostPointsAssumption
        DEF NodeIInv, CallPost, CallPostPoints, PostGoesOn, targetVars, clockVars,
            PostLocation
<1>1. UNCHANGED vars /\ UNCHANGED <<rejected, reboot_timer, age>>
  BY DEF AddrChecked, PostChecked, InitRequest
<1>2. IInv'
  BY <1>1, SameController
<1>3. OfferedByOutcome'
  BY <1>1 DEF OfferedByOutcome, vars
<1>4. pc = "post" /\ pc' = "post"
  BY <1>1 DEF AddrChecked, PostChecked, InitRequest, NodeTypeOK, vars
<1>5. UNCHANGED <<remote, path, clock>>
  BY DEF AddrChecked, PostChecked, InitRequest
<1>6. /\ last_sent' \in 0..ClockMod - 1 /\ req_path' \in Paths \cup {NoPath}
      /\ post_pc' \in PostLocation /\ retargeted' \in BOOLEAN
      /\ now' \in 0..ClockMod - 1
  BY DEF AddrChecked, PostChecked, InitRequest, NodeTypeOK
<1>7. NodeTypeOK'
  BY <1>1, <1>2, <1>4, <1>5, <1>6 DEF IInv, NodeTypeOK
<1>8. CheckedTarget'
  BY <1>5 DEF CheckedTarget, AddrChecked, PostChecked, InitRequest
<1> QED
  BY <1>2, <1>3, <1>7, <1>8

\* A target request, between any two steps of a running post: if it changed
\* the target it left its mark.
LEMMA GcoapKeeps == NodeIInv /\ GcoapStep => NodeIInv'
<1> SUFFICES ASSUME NodeIInv, GcoapStep PROVE NodeIInv'
  OBVIOUS
<1> USE ControllerAssumption, PostPointsAssumption
        DEF NodeIInv, GcoapStep, targetVars, postVars, clockVars
<1>1. IInv'
  BY SameController
<1>2. UNCHANGED <<last_sent, post_pc, now, req_path, clock, age, rejected>>
  BY DEF luke_set_target
<1>3. \/ UNCHANGED <<remote, path, retargeted>>
      \/ retargeted' = (post_pc # "idle")
  BY DEF luke_set_target, RejectTarget, MisparseTarget, ClearTarget, AcceptTarget
<1>4. remote' \in Remotes /\ path' \in Paths \cup {NoPath}
  <2>1. CASE RejectTarget \/ UNCHANGED <<remote, path>>
    BY <2>1 DEF RejectTarget, NodeTypeOK
  <2>2. CASE MisparseTarget
    <3>1. remote.addr \in Addrs \cup {Unspecified}
      BY DEF NodeTypeOK, Remotes
    <3> QED
      BY <2>2, <3>1 DEF MisparseTarget, Remotes, NodeTypeOK
  <2>3. CASE \E p \in Paths \cup {NoPath} : ClearTarget(p)
    BY <2>3 DEF ClearTarget, Remotes, NodeTypeOK
  <2>4. CASE \E p \in Paths \cup {NoPath}, a \in Addrs, port \in {0, OtherPort} :
               AcceptTarget(a, port, p)
    BY <2>4 DEF AcceptTarget, make_sock_ep, Remotes
  <2> QED
    BY <2>1, <2>2, <2>3, <2>4 DEF luke_set_target
<1>5. retargeted' \in BOOLEAN
  BY <1>3 DEF NodeTypeOK
<1>6. reboot_timer' \in BOOLEAN
  BY DEF NodeTypeOK
<1>7. NodeTypeOK'
  BY <1>1, <1>2, <1>4, <1>5, <1>6 DEF IInv, NodeTypeOK, vars
<1>8. CheckedTarget'
  <2>1. CASE UNCHANGED <<remote, path, retargeted>>
    BY <1>2, <2>1 DEF CheckedTarget
  <2>2. CASE retargeted' = (post_pc # "idle")
    BY <1>2, <2>2 DEF CheckedTarget
  <2> QED
    BY <1>3, <2>1, <2>2
<1>9. OfferedByOutcome'
  BY <1>2 DEF OfferedByOutcome, vars
<1> QED
  BY <1>1, <1>7, <1>8, <1>9

\* The clock runs; the throttle's two times stay in their ranges.
LEMMA ClockKeeps == NodeIInv /\ ClockStep => NodeIInv'
<1> SUFFICES ASSUME NodeIInv, ClockStep PROVE NodeIInv'
  OBVIOUS
<1> USE ControllerAssumption, PostPointsAssumption
        DEF NodeIInv, ClockStep, Tick, targetVars, postVars
<1>1. IInv'
  BY SameController
<1>2. clock' \in 0..ClockMod - 1 /\ age' \in 0..ClockMod
  BY DEF NodeTypeOK
<1>3. NodeTypeOK'
  BY <1>1, <1>2 DEF IInv, NodeTypeOK, vars
<1>4. CheckedTarget' /\ OfferedByOutcome'
  BY DEF CheckedTarget, OfferedByOutcome, vars
<1> QED
  BY <1>1, <1>3, <1>4

-----------------------------------------------------------------------------
(***************************************************************************)
(* Steps of the controller, and the reboot                                 *)
(***************************************************************************)

\* Nothing but a post touches what the node adds: a controller step that moves
\* the main thread finds no post running.
LEMMA ControllerKeeps == NodeIInv /\ ControllerStep => NodeIInv'
<1> SUFFICES ASSUME NodeIInv, ControllerStep PROVE NodeIInv'
  OBVIOUS
<1> USE DEF NodeIInv, ControllerStep, commonVars, targetVars, postVars, clockVars
<1>1. IInv'
  BY StepIInv DEF Next, Client
<1>2. offered' = offered /\ (pc = "post" => pc' = "post")
  BY DEF Interrupts, _increment_counter, _enable_button, SendTimerFires,
         InitButton, RegisterListener, EnterClient, ReceiveMsg, TakeCounter,
         CountSend, ScheduleSend
<1>3. NodeTypeOK'
  BY <1>1, <1>2 DEF IInv, NodeTypeOK
<1>4. CheckedTarget'
  BY DEF CheckedTarget
<1>5. OfferedByOutcome'
  <2>1. UNCHANGED posted
    BY DEF Interrupts, _increment_counter, _enable_button, SendTimerFires,
           InitButton, RegisterListener, EnterClient, ReceiveMsg, TakeCounter,
           CountSend, ScheduleSend
  <2> QED
    BY <1>2, <2>1 DEF OfferedByOutcome
<1> QED
  BY <1>1, <1>3, <1>4, <1>5

\* A reboot is a fresh start.
LEMMA RebootStartsOver == _reboot => NodeInit'
BY DEF _reboot, NodeInit, Init, PostInit

\* Every step of the node keeps the inductive invariant.
LEMMA NodeStepIInv == NodeIInv /\ [NodeNext]_nodeVars => NodeIInv'
<1> SUFFICES ASSUME NodeIInv, [NodeNext]_nodeVars PROVE NodeIInv'
  OBVIOUS
<1>1. CASE MainStep
  BY <1>1, ReturnZeroKeeps, ReturnLenKeeps, GoesOnKeeps DEF MainStep
<1>2. CASE ControllerStep
  BY <1>2, ControllerKeeps
<1>3. CASE GcoapStep
  BY <1>3, GcoapKeeps
<1>4. CASE ClockStep
  BY <1>4, ClockKeeps
<1>5. CASE _reboot
  <2>1. NodeInit'
    BY <1>5, RebootStartsOver
  <2>2. (NodeInit => NodeIInv)'
    BY NodeInitIInv, PTL
  <2> QED
    BY <2>1, <2>2
<1>6. CASE UNCHANGED nodeVars
  <2>1. IInv'
    BY <1>6, SameController DEF NodeIInv, nodeVars
  <2>2. NodeTypeOK'
    BY <1>6, <2>1
       DEF NodeIInv, IInv, nodeVars, NodeTypeOK, vars, targetVars, postVars, clockVars
  <2>3. CheckedTarget' /\ OfferedByOutcome'
    BY <1>6 DEF NodeIInv, nodeVars, CheckedTarget, OfferedByOutcome,
                vars, targetVars, postVars, clockVars
  <2> QED
    BY <2>1, <2>2, <2>3 DEF NodeIInv
<1> QED
  BY <1>1, <1>2, <1>3, <1>4, <1>5, <1>6 DEF NodeNext

\* The inductive invariant holds in every reachable state of the node.
THEOREM NodeInvariance == NodeSpec => []NodeIInv
<1>1. NodeInit => NodeIInv
  BY NodeInitIInv
<1>2. NodeIInv /\ [NodeNext]_nodeVars => NodeIInv'
  BY NodeStepIInv
<1> QED
  BY <1>1, <1>2, PTL DEF NodeSpec

-----------------------------------------------------------------------------
(***************************************************************************)
(* What follows                                                            *)
(***************************************************************************)

\* Posting step by step, target requests, the clock and reboots leave intact
\* what Controller promises of its sends and presses.
THEOREM NodeKeepsSends ==
  NodeSpec => []OneSendOutstanding /\ []NoStrandedPress /\ []SendsPerPress
<1>1. NodeIInv => OneSendOutstanding /\ NoStrandedPress /\ SendsPerPress
  BY DEF NodeIInv, IInv
<1> QED
  BY <1>1, NodeInvariance, PTL

\* Every press since boot is in one place, whatever becomes of the posts.
THEOREM NodeAccountsForPoints == NodeSpec => []PointsAccounted
<1>1. NodeIInv => PointsAccounted
  BY DEF NodeIInv, IInv, PressesConserved, OfferedByOutcome, PointsAccounted,
         NodeTypeOK, TypeOK
<1> QED
  BY <1>1, NodeInvariance, PTL

\* A request goes to a target other than the one configured at that moment, or
\* to an incomplete one, only if luke_set_target ran after the call and before
\* the send.
THEOREM NodeTearsOnlyByRetarget == NodeSpec => TornOnlyByRetarget
<1>1. NodeIInv /\ [NodeNext]_nodeVars =>
        [(SendRequest(TRUE) /\ ~retargeted) =>
            /\ Request = [addr |-> remote.addr, port |-> remote.port, path |-> path]
            /\ ~NoTarget]_nodeVars
  BY DEF NodeIInv, CheckedTarget, SendRequest, Request, NoTarget
<1> QED
  BY <1>1, NodeInvariance, PTL DEF NodeSpec, TornOnlyByRetarget

-----------------------------------------------------------------------------
(***************************************************************************)
(* The safety part of the refinement of PointTally                         *)
(***************************************************************************)

\* A return from post_points_to_target hands the points in hand over, a reboot
\* forgets the tally; everything else is a press or changes neither count.
LEMMA NodeStepRefines ==
  NodeIInv /\ [NodeNext]_nodeVars => [NodeTally!TallyNext]_(NodeTally!tallyVars)
<1> SUFFICES ASSUME NodeIInv, [NodeNext]_nodeVars
             PROVE  [NodeTally!TallyNext]_(NodeTally!tallyVars)
  OBVIOUS
<1> USE DEF NodeTally!TallyNext, NodeTally!tallyVars
<1>1. CASE PostReturnsZero \/ PostReturnsLen
  <2>1. /\ points \in 0..MaxPresses /\ posted \in Nat /\ rejected \in Nat
        /\ posted + rejected + points <= pressed
    BY ControllerAssumption
       DEF NodeIInv, NodeTypeOK, IInv, TypeOK, PressesConserved, OfferedByOutcome
  <2>2. posted' + rejected' = posted + rejected + points /\ pressed' = pressed
    <3>1. CASE PostReturnsZero
      BY <2>1, <3>1 DEF PostReturnsZero, PostPoints
    <3>2. CASE PostReturnsLen
      BY <2>1, <3>2 DEF PostReturnsLen, PostPoints
    <3> QED
      BY <1>1, <3>1, <3>2
  <2>3. NodeTally!HandOver(points)
    BY <2>1, <2>2 DEF NodeTally!HandOver
  <2> QED
    BY <2>1, <2>3
<1>2. CASE ControllerStep
  <2>1. UNCHANGED <<posted, rejected>>
    BY <1>2 DEF ControllerStep, commonVars, Interrupts, _increment_counter,
                _enable_button, SendTimerFires, InitButton, RegisterListener, EnterClient,
                ReceiveMsg, TakeCounter, CountSend, ScheduleSend
  <2>2. CASE _increment_counter
    BY <2>1, <2>2 DEF _increment_counter, NodeTally!Press
  <2>3. CASE ~_increment_counter
    BY <1>2, <2>1, <2>3
       DEF ControllerStep, Interrupts, _enable_button, SendTimerFires, InitButton,
           RegisterListener, EnterClient, ReceiveMsg, TakeCounter, CountSend, ScheduleSend
  <2> QED
    BY <2>2, <2>3
<1>3. CASE _reboot
  BY <1>3 DEF _reboot, NodeTally!Reboot
<1>4. CASE CallPost \/ PostGoesOn \/ GcoapStep \/ ClockStep \/ UNCHANGED nodeVars
  BY <1>4 DEF CallPost, CallPostPoints, PostGoesOn, GcoapStep, ClockStep, nodeVars, vars
<1> QED
  BY <1>1, <1>2, <1>3, <1>4 DEF NodeNext, MainStep

\* Reboots apart, the node adds up: seen from outside it is a tally in which a
\* post that returned zero hands over its points too.
THEOREM NodeRefinesTally ==
  NodeSpec => /\ NodeTally!TallyInit
              /\ [][NodeTally!TallyNext]_(NodeTally!tallyVars)
<1>1. NodeInit => NodeTally!TallyInit
  BY DEF NodeInit, Init, NodeTally!TallyInit
<1>2. NodeIInv /\ [NodeNext]_nodeVars => [NodeTally!TallyNext]_(NodeTally!tallyVars)
  BY NodeStepRefines
<1> QED
  BY <1>1, <1>2, NodeInvariance, PTL DEF NodeSpec

=============================================================================
