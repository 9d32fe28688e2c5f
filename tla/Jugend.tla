------------------------------- MODULE Jugend -------------------------------
(***************************************************************************)
(* The demo of jugend-hackt-2018-10: the button node of button/main.c and  *)
(* the dino of dino/main.c, with the air between them.  The button's main  *)
(* thread has no message queue: a press reaches it only while it waits in  *)
(* msg_receive.  Its gcoap thread, which sets the target, has the higher   *)
(* priority and runs between any two steps of main.  Times are scaled      *)
(* down: the clock counts modulo ClockMod, Second ticks are one second.    *)
(***************************************************************************)
EXTENDS Integers, FiniteSets, Sequences, SequencesExt

CONSTANTS Addrs, Dino,      \* addresses of a target, the dino's among them
          Unspecified,      \* the address ::
          Ports,            \* ports a target's address may name
          GcoapPort,        \* GCOAP_PORT
          Paths, MovePath,  \* paths a target may have, the dino's among them
          End,              \* the byte that ends a string
          PathLen,          \* BUTTON_TARGET_PATH_LEN, the bytes of the path's buffer
          Behind,           \* strings that may be in the memory behind the buffer
          ClockMod,         \* 2^32
          Second,           \* US_PER_SEC
          MaxPresses,       \* bound on the presses of a behaviour
          MaxCopies         \* bound on the copies the network makes of requests

ASSUME JugendAssumption ==
  /\ Dino \in Addrs /\ Unspecified \notin Addrs /\ MovePath \in Paths
  /\ PathLen \in Nat \ {0}
  /\ \A p \in Paths : p \in Seq(ToSet(p)) \ {<<>>} /\ End \notin ToSet(p)
  /\ \A b \in Behind : b \in Seq(ToSet(b))
  /\ ClockMod \in Nat /\ Second \in 1..ClockMod - 1

VARIABLES
  irq, debounce_timer,  \* the button interrupt is on; _debounce_timer is armed
  pc,                   \* main: init, boot, recv (in msg_receive), or where it is in
                        \* _post_to_target: throttle, addr, path, init_req, send
  target,               \* _button_target_remote and _button_target_path, byte by
                        \* byte; history: the path given last, and the length of
                        \* the longest given since boot
  req_path,             \* the path gcoap_req_init put into the request
  last_sent, clock,     \* _last_sent, xtimer_now_usec()
  air,                  \* requests on their way to the dino
  led, motor,           \* LED0 and DINO_MOVE_PIN of the dino
  moving,               \* its gcoap thread is between the two toggles
  \* History:
  pressed, lost, refused, sent,     \* presses, and what became of them
  copies, moves,        \* copies made of requests, moves of the dino by requests
  age                   \* time since _last_sent was written, up to ClockMod

button == <<irq, debounce_timer, pc>>
post == <<req_path, last_sent, age, refused, sent>>
dino == <<led, motor, moving, moves>>
net == <<air, copies>>
vars == <<button, target, post, clock, net, dino, pressed, lost>>

Init ==
  /\ irq = FALSE /\ debounce_timer = FALSE /\ pc = "init"
  /\ target = [remote |-> [addr |-> Unspecified, port |-> GcoapPort],
               path |-> [i \in 1..PathLen |-> End], given |-> <<>>, longest |-> 0]
  /\ req_path = <<>>
  /\ last_sent = 0 /\ clock = 0 /\ age = ClockMod
  /\ air = 0 /\ copies = 0 /\ moves = 0 /\ led = FALSE /\ motor = FALSE /\ moving = FALSE
  /\ pressed = 0 /\ lost = 0 /\ refused = 0 /\ sent = 0

\* The string a buffer holds: up to the first End.  One without any goes on with
\* whatever is behind it.
StringsIn(buf) ==
  LET ends == {i \in 1..PathLen : buf[i] = End}
  IN  IF ends = {} THEN {buf \o b : b \in Behind} ELSE {SubSeq(buf, 1, Min(ends) - 1)}

\* A path has been written over what follows its buffer.  That depends on the build:
\* the target's address, the time of the last request, the thread the presses go to.
Overran == target.longest > PathLen

(***************************************************************************)
(* The button: interrupts                                                  *)
(***************************************************************************)

\* msg_send_int finds main waiting or drops the message.
_button_press ==
  /\ irq /\ pressed < MaxPresses
  /\ irq' = FALSE /\ debounce_timer' = TRUE
  /\ pressed' = pressed + 1
  /\ \/ pc = "recv" /\ pc' = "throttle" /\ UNCHANGED lost
     \/ (pc # "recv" \/ Overran) /\ lost' = lost + 1 /\ UNCHANGED pc
  /\ UNCHANGED <<target, post, clock, net, dino>>

_enable_button ==
  /\ debounce_timer
  /\ debounce_timer' = FALSE /\ irq' = TRUE
  /\ UNCHANGED <<pc, target, post, clock, net, dino, pressed, lost>>

(***************************************************************************)
(* The button: POST /button/target, in the gcoap thread                    *)
(***************************************************************************)

\* make_sock_ep, whose result is ignored: without a valid address the port is
\* zero, and the library's parser may have cleared the address too.
make_sock_ep(r) ==
       {[addr |-> a, port |-> IF port = 0 THEN GcoapPort ELSE port] :
          a \in Addrs, port \in Ports \cup {0}}
  \cup {[addr |-> a, port |-> 0] : a \in {r.addr, Unspecified}}

\* Mutant: an empty path is copied like any other.
CopyBytes(buf, p) == [i \in 1..PathLen |-> IF i <= Len(p) THEN p[i] ELSE buf[i]]

\* strncpy of the path without an end; an empty one ends the string at once.
CopyPath(buf, p) ==
  IF p = <<>> THEN [buf EXCEPT ![1] = End]
              ELSE [i \in 1..PathLen |-> IF i <= Len(p) THEN p[i] ELSE buf[i]]

\* The path is copied whole, whatever its length.  What is behind the buffer may be
\* anything from then on.
Remotes == [addr : Addrs \cup {Unspecified}, port : Ports \cup {0, GcoapPort}]
PathGiven(t, p) ==
  {[remote |-> r, path |-> CopyPath(t.path, p), given |-> p,
    longest |-> IF Len(p) > t.longest THEN Len(p) ELSE t.longest] :
     r \in IF Len(p) > PathLen THEN Remotes ELSE {t.remote}}

\* What one key of the payload, addr or path, can make of target t.
SetKey(t) == {[t EXCEPT !.remote = r] : r \in make_sock_ep(t.remote)}
             \cup UNION {PathGiven(t, p) : p \in Paths \cup {<<>>}}

\* Up to two keys, in any order: what BAD_REQUEST comes after stays set.
_set_target ==
  /\ pc # "init"
  /\ target' \in SetKey(target) \cup UNION {SetKey(t) : t \in SetKey(target)}
  /\ last_sent' \in IF Overran' THEN 0..ClockMod - 1 ELSE {last_sent}
  /\ UNCHANGED <<button, req_path, age, refused, sent, clock, net, dino, pressed, lost>>

(***************************************************************************)
(* The button: main                                                        *)
(***************************************************************************)

\* gpio_init_int; then the listener, two seconds, the resource directory.
Boot ==
  /\ \/ pc = "init" /\ pc' = "boot" /\ irq' = TRUE
     \/ pc = "boot" /\ pc' = "recv" /\ UNCHANGED irq
  /\ UNCHANGED <<debounce_timer, target, post, clock, net, dino, pressed, lost>>

Elapsed(from, to) == (to + ClockMod - from) % ClockMod
NeverRecent == FALSE                                \* mutant: no throttle

\* (xtimer_now_usec() - US_PER_SEC) < _last_sent, unsigned.
LastSendTooRecent == Elapsed(Second, clock) < last_sent

NoAddr == target.remote.addr = Unspecified
NoPath == target.path[1] = End

\* Nothing keeps the gcoap thread from setting the target between two checks.
Refused == \/ pc = "throttle" /\ LastSendTooRecent
           \/ pc = "addr" /\ NoAddr
           \/ pc = "path" /\ NoPath

Refuse ==
  /\ Refused
  /\ pc' = "recv"
  /\ refused' = refused + 1
  /\ UNCHANGED <<irq, debounce_timer, target, req_path, last_sent, age, sent, clock, net,
                 dino, pressed, lost>>

Check ==
  /\ \/ pc = "throttle" /\ ~LastSendTooRecent /\ pc' = "addr"
     \/ pc = "addr" /\ ~NoAddr /\ pc' = "path"
     \/ pc = "path" /\ ~NoPath /\ pc' = "init_req"
  /\ UNCHANGED <<irq, debounce_timer, target, post, clock, net, dino, pressed, lost>>

\* gcoap_req_init copies the path, then the time is noted.
InitRequest ==
  /\ pc = "init_req"
  /\ pc' = "send"
  /\ req_path' \in StringsIn(target.path)
  /\ last_sent' = clock /\ age' = 0
  /\ UNCHANGED <<irq, debounce_timer, target, refused, sent, clock, net, dino, pressed, lost>>

\* gcoap_req_send2 reads the address now; nothing tells main of a failure.
SendRequest ==
  /\ pc = "send"
  /\ pc' = "recv"
  /\ req_path' = <<>>
  /\ sent' = sent + 1
  /\ air' \in {air} \cup
       (IF target.remote = [addr |-> Dino, port |-> GcoapPort] /\ req_path = MovePath
        THEN {air + 1} ELSE {})
  /\ UNCHANGED <<copies, irq, debounce_timer, target, last_sent, age, refused, clock, dino,
                 pressed, lost>>

Tick ==
  /\ clock' = (clock + 1) % ClockMod
  /\ age' = IF age < ClockMod THEN age + 1 ELSE age
  /\ UNCHANGED <<button, target, req_path, last_sent, refused, sent, net, dino, pressed, lost>>

(***************************************************************************)
(* The dino                                                                *)
(***************************************************************************)

\* Mutant: the button sets the pin to what the LED shows.
SetFromLed == led' = ~led /\ motor' = led'

\* The dino's own button runs _toggle_dino in interrupt context.
_toggle_dino == led' = ~led /\ motor' = ~motor

ToggleByHand ==
  /\ _toggle_dino
  /\ UNCHANGED <<button, target, post, clock, net, moving, moves, pressed, lost>>

\* The network delivers a request twice; nothing in it tells the dino.
Copy ==
  /\ air > 0 /\ copies < MaxCopies
  /\ air' = air + 1 /\ copies' = copies + 1
  /\ UNCHANGED <<button, target, post, clock, dino, pressed, lost>>

\* POST /dino/move toggles the two one after the other.
FirstToggle == led' = ~led /\ moving' = TRUE /\ UNCHANGED <<motor, moves>>
SecondToggle == motor' = ~motor /\ moving' = FALSE /\ moves' = moves + 1 /\ UNCHANGED led

\* Mutant: the request is not taken.
MoveForEver ==
  /\ \/ ~moving /\ air > 0 /\ FirstToggle
     \/ moving /\ SecondToggle
  /\ moves < MaxPresses + MaxCopies + 1
  /\ UNCHANGED <<button, target, post, clock, net, pressed, lost>>

_dino_move ==
  /\ \/ ~moving /\ air > 0 /\ air' = air - 1 /\ FirstToggle
     \/ moving /\ SecondToggle /\ UNCHANGED air
  /\ UNCHANGED <<button, target, post, clock, copies, pressed, lost>>

Next == \/ _button_press \/ _enable_button \/ _set_target
        \/ Boot \/ Refuse \/ Check \/ InitRequest \/ SendRequest \/ Tick
        \/ Copy \/ ToggleByHand \/ _dino_move

Spec == Init /\ [][Next]_vars

-----------------------------------------------------------------------------
(***************************************************************************)
(* Properties                                                              *)
(***************************************************************************)

\* A string begins with a path, as far as the buffer goes.
Begins(s, p) == \A i \in 1..Len(p) : i <= PathLen => i <= Len(s) /\ s[i] = p[i]

\* What is read as the path begins with the one given last, and clearing it
\* clears it, however long the paths before it were.  It is the path given last
\* if that is the longest since boot and left room for its end; otherwise what a
\* longer path left in the buffer, or what is behind a full one, may follow it.
PathAsGiven ==
  \A s \in StringsIn(target.path) :
    /\ target.given = <<>> => s = <<>>
    /\ Begins(s, target.given)
    /\ target.longest < PathLen /\ Len(target.given) >= target.longest =>
         s = target.given

\* "Pruefe, ob wir vor weniger als einer Sekunde gesendet haben"
\* (button/main.c:262): around the clock's wrap alone is the answer wrong.  A
\* request follows another within a second only in the first second of the
\* clock's round, and a post is called too recent after a second only if the
\* clock has come round since the last request; unless a path may have been
\* written over the time of that request.
ThrottleErrsAtWrapOnly ==
  [][ pc = "throttle" /\ ~Overran =>
        /\ Check => age >= Second \/ clock < Second
        /\ Refuse => age < Second \/ last_sent + age >= ClockMod ]_vars

\* Without a queue, a press main does not wait for is lost; any other is one
\* request or one refusal.  The dino is moved by requests, those under way among
\* them, once at most for each that was sent and for each copy the network made.
Posting == {"throttle", "addr", "path", "init_req", "send"}
EachPressOnce ==
  /\ pressed = lost + refused + sent + Cardinality({pc} \cap Posting)
  /\ moves + air + Cardinality({moving} \cap {TRUE}) <= sent + copies

\* LED0_TOGGLE is there "zum sichtbaren Debuggen" (dino/main.c:51): whenever the request handler is not
\* between the two, they agree, the dino's own button pressed meanwhile or not.
LedShowsMotor == moving \/ led = motor

=============================================================================
