----------------------------- MODULE Controller -----------------------------
(***************************************************************************)
(* The button node of the LNdW'18 demo, lndw18_luke/controller/main.c.     *)
(*                                                                         *)
(* A falling edge on the button runs _increment_counter in interrupt       *)
(* context.  It counts the press, and starts a series of SendsDefault      *)
(* sends unless one is running.  The send timer puts a message in the main *)
(* thread's queue; the main thread (_client) takes the presses counted so  *)
(* far, decides whether the series goes on, and posts the points.  The     *)
(* interrupt can hit between any two atomic steps of the main thread, and  *)
(* nothing but two atomic counters keeps the two apart.                    *)
(***************************************************************************)
EXTENDS Naturals

CONSTANTS SendsDefault,     \* LUKE_SEND_REMAINING_DEFAULT (10)
          UIntMax,          \* the largest value of an atomic_uint
          MaxPresses        \* bound on the presses of a behaviour

ASSUME ControllerAssumption ==
  /\ MaxPresses \in Nat
  /\ UIntMax \in Nat /\ MaxPresses <= UIntMax
  /\ SendsDefault \in 2..UIntMax

VARIABLES
  counter,          \* _counter: presses not yet taken by the main thread
  sends_remaining,  \* _sends_remaining: sends left in the running series
  irq,              \* the button interrupt is enabled
  debounce_timer,   \* _debounce_timer is armed
  send_timer,       \* _send_timer is armed
  msg_q,            \* SEND_POINTS messages waiting for the main thread
  pc,               \* where the main thread is
  points,           \* _client's local counter: presses taken, not offered
  \* History:
  pressed,          \* presses counted since boot
  offered,          \* points passed to post_points_to_target
  posted,           \* points of the posts that went out
  since             \* sends of the series since the last press

vars == <<counter, sends_remaining, irq, debounce_timer, send_timer, msg_q,
          pc, points, pressed, offered, posted, since>>

QueueSize == 1              \* msg_init_queue(&msg_q, 1)

\* The locations of main and _client at which an interrupt makes a difference.
Location == {"init", "boot", "register", "recv", "swap", "sub", "sched", "post"}

\* Arithmetic of an atomic_uint wraps at both ends.
Inc(u) == IF u = UIntMax THEN 0 ELSE u + 1
KeepSends(u) == u                       \* mutant: the series is not counted down
Dec(u) == IF u = 0 THEN UIntMax ELSE u - 1

Init ==
  /\ counter = 0 /\ sends_remaining = 0
  /\ irq = FALSE /\ debounce_timer = FALSE /\ send_timer = FALSE
  /\ msg_q = 0
  /\ pc = "init" /\ points = 0
  /\ pressed = 0 /\ offered = 0 /\ posted = 0 /\ since = 0

NoSchedule == UNCHANGED send_timer      \* mutant: the timer is not armed
\* xtimer_set_msg on the one send timer; arming it again only moves it.
_schedule_next_send == send_timer' = TRUE

(***************************************************************************)
(* Interrupt context                                                       *)
(***************************************************************************)

AlwaysStart == TRUE                     \* mutant: every press starts a series
\* atomic_exchange(&_sends_remaining, LUKE_SEND_REMAINING_DEFAULT) == 0
NoSeries == sends_remaining = 0

_increment_counter ==
  /\ irq
  /\ pressed < MaxPresses
  /\ irq' = FALSE
  /\ debounce_timer' = TRUE
  /\ counter' = Inc(counter)
  /\ sends_remaining' = SendsDefault
  /\ IF NoSeries THEN _schedule_next_send ELSE UNCHANGED send_timer
  /\ pressed' = pressed + 1
  /\ since' = 0
  /\ UNCHANGED <<msg_q, pc, points, offered, posted>>

_enable_button ==
  /\ debounce_timer
  /\ debounce_timer' = FALSE
  /\ irq' = TRUE
  /\ UNCHANGED <<counter, sends_remaining, send_timer, msg_q, pc, points,
                 pressed, offered, posted, since>>

\* The send timer expires: msg_send_int drops the message when the queue is full.
SendTimerFires ==
  /\ send_timer
  /\ send_timer' = FALSE
  /\ msg_q' = IF msg_q < QueueSize THEN msg_q + 1 ELSE msg_q
  /\ UNCHANGED <<counter, sends_remaining, irq, debounce_timer, pc, points,
                 pressed, offered, posted, since>>

(***************************************************************************)
(* The main thread                                                         *)
(***************************************************************************)

\* main up to gpio_init_int: from here on presses are counted.
InitButton ==
  /\ pc = "init"
  /\ pc' = "boot"
  /\ irq' = TRUE
  /\ UNCHANGED <<counter, sends_remaining, debounce_timer, send_timer, msg_q,
                 points, pressed, offered, posted, since>>

\* Two seconds of sleep, then the listener: from here on requests are served.
RegisterListener ==
  /\ pc = "boot"
  /\ pc' = "register"
  /\ UNCHANGED <<counter, sends_remaining, irq, debounce_timer, send_timer,
                 msg_q, points, pressed, offered, posted, since>>

\* cord_ep_register returns, the node registered or not, and main calls _client.
EnterClient ==
  /\ pc = "register"
  /\ pc' = "recv"
  /\ UNCHANGED <<counter, sends_remaining, irq, debounce_timer, send_timer,
                 msg_q, points, pressed, offered, posted, since>>

ReceiveMsg ==
  /\ pc = "recv"
  /\ msg_q > 0
  /\ msg_q' = msg_q - 1
  /\ pc' = "swap"
  /\ UNCHANGED <<counter, sends_remaining, irq, debounce_timer, send_timer,
                 points, pressed, offered, posted, since>>

\* counter = atomic_exchange(&_counter, LUKE_START_VALUE)
TakeCounter ==
  /\ pc = "swap"
  /\ points' = counter
  /\ counter' = 0
  /\ pc' = "sub"
  /\ UNCHANGED <<sends_remaining, irq, debounce_timer, send_timer, msg_q,
                 pressed, offered, posted, since>>

MoreThanOneSend == sends_remaining > 2  \* mutant: off by one
MoreSends == sends_remaining > 1

\* if (atomic_fetch_sub(&_sends_remaining, 1) > 1) ...
CountSend ==
  /\ pc = "sub"
  /\ sends_remaining' = Dec(sends_remaining)
  /\ pc' = IF MoreSends THEN "sched" ELSE "post"
  /\ since' = since + 1
  /\ UNCHANGED <<counter, irq, debounce_timer, send_timer, msg_q, points,
                 pressed, offered, posted>>

\* ... _schedule_next_send()
ScheduleSend ==
  /\ pc = "sched"
  /\ _schedule_next_send
  /\ pc' = "post"
  /\ UNCHANGED <<counter, sends_remaining, irq, debounce_timer, msg_q, points,
                 pressed, offered, posted, since>>

\* post_points_to_target(counter); the points are gone whatever it returns.
PostPoints(sent) ==
  /\ pc = "post"
  /\ offered' = offered + points
  /\ posted' = IF sent THEN posted + points ELSE posted
  /\ points' = 0
  /\ pc' = "recv"
  /\ UNCHANGED <<counter, sends_remaining, irq, debounce_timer, send_timer,
                 msg_q, pressed, since>>

Interrupts == _increment_counter \/ _enable_button \/ SendTimerFires
Client == \/ InitButton \/ RegisterListener \/ EnterClient
          \/ ReceiveMsg \/ TakeCounter \/ CountSend \/ ScheduleSend
          \/ \E sent \in BOOLEAN : PostPoints(sent)

Next == Interrupts \/ Client

\* Timers expire and the main thread is scheduled; nobody has to press.
Fairness == WF_vars(_enable_button) /\ WF_vars(SendTimerFires) /\ WF_vars(Client)

Spec == Init /\ [][Next]_vars /\ Fairness

-----------------------------------------------------------------------------
(***************************************************************************)
(* Properties                                                              *)
(***************************************************************************)

\* Every variable stays in its range; no counter of the code ever wraps.
TypeOK ==
  /\ counter \in 0..MaxPresses
  /\ sends_remaining \in 0..SendsDefault
  /\ irq \in BOOLEAN /\ debounce_timer \in BOOLEAN /\ send_timer \in BOOLEAN
  /\ msg_q \in 0..QueueSize
  /\ pc \in Location
  /\ points \in 0..MaxPresses
  /\ pressed \in 0..MaxPresses /\ offered \in 0..MaxPresses
  /\ posted \in 0..MaxPresses
  /\ since \in 0..SendsDefault

\* The main thread holds the send of the running series in its hands.
SendInHand == pc \in {"swap", "sub", "sched"}

\* A series is running exactly while its next send is in one place: the
\* timer, the queue or the main thread.  So the interrupt and the thread never
\* arm the timer against each other, the queue of one message never overflows,
\* and _sends_remaining is never decremented below zero.
OneSendOutstanding ==
  /\ ~(send_timer /\ msg_q > 0)
  /\ ~(send_timer /\ SendInHand)
  /\ ~(msg_q > 0 /\ SendInHand)
  /\ sends_remaining > 0 <=> send_timer \/ msg_q > 0 \/ SendInHand

\* A press that hits between the thread's two atomic operations is not left
\* behind: while presses are counted, a later send will still take them.
NoStrandedPress ==
  counter > 0 => \/ send_timer \/ msg_q > 0
                 \/ pc \in {"swap", "sched"}
                 \/ pc = "sub" /\ sends_remaining > 1

\* Every press is in exactly one place: counted, in the thread's hands, or
\* offered to post_points_to_target.
PressesConserved ==
  /\ pressed = counter + points + offered
  /\ points > 0 => pc \in {"sub", "sched", "post"}
  /\ posted <= offered

\* A press is followed by exactly SendsDefault sends (one second of them at
\* 100 ms each), however presses and sends interleave; before the first press
\* there are none.
SendsPerPress ==
  IF pressed = 0 THEN sends_remaining = 0 /\ since = 0
                 ELSE sends_remaining + since = SendsDefault

\* By itself the controller is a tally of its presses and offers.
Tally == INSTANCE PointTally

=============================================================================
