-------------------------------- MODULE Dino --------------------------------
(***************************************************************************)
(* The dino of the LNdW'18 demo, lndw18_luke/dino/main.c: the reward that  *)
(* the display's victory sets in motion.  The gcoap thread and main switch *)
(* LED0 and then the motor's pin on, without a lock; the dino's button     *)
(* toggles both in interrupt context between any two steps of either; a    *)
(* timer of five seconds, armed last, switches both off.  The gcoap thread *)
(* has the higher priority: main runs only while gcoap is idle.            *)
(***************************************************************************)

VARIABLES
  led, motor,       \* LED0 and DINO_MOVE_PIN
  clear_timer,      \* _clear_timer is armed
  irq,              \* the button's interrupt is enabled
  reboot_timer,     \* _reboot_timer of common.c is armed
  step,             \* where each thread is
  hit               \* history: an interrupt wrote both between the two writes
                    \* of a thread, and they have not agreed since

pins == <<led, motor, hit>>
dinoVars == <<pins, clear_timer, irq, reboot_timer, step>>

DinoThread == {"main", "gcoap"}
At(m, g) == [t \in DinoThread |-> IF t = "main" THEN m ELSE g]

DinoInit ==
  /\ led = FALSE /\ motor = FALSE /\ hit = FALSE
  /\ clear_timer = FALSE /\ irq = FALSE /\ reboot_timer = FALSE
  /\ step = At("init", "off")

(***************************************************************************)
(* Interrupt context                                                       *)
(***************************************************************************)

WriteBoth(l, m) ==
  /\ led' = l /\ motor' = m
  /\ hit' = ((hit /\ l # m) \/ \E t \in DinoThread : step[t] = "move")

\* Mutant: the button does not start the timer.
ToggleOnly ==
  /\ irq
  /\ WriteBoth(~led, ~motor)
  /\ UNCHANGED <<clear_timer, irq, reboot_timer, step>>

_toggle_dino ==
  /\ irq
  /\ WriteBoth(~led, ~motor)
  /\ clear_timer' = TRUE
  /\ UNCHANGED <<irq, reboot_timer, step>>

\* Mutant: the motor is left as it is.
ClearLed ==
  /\ clear_timer
  /\ WriteBoth(FALSE, motor)
  /\ clear_timer' = FALSE
  /\ UNCHANGED <<irq, reboot_timer, step>>

_clear_dino ==
  /\ clear_timer
  /\ WriteBoth(FALSE, FALSE)
  /\ clear_timer' = FALSE
  /\ UNCHANGED <<irq, reboot_timer, step>>

\* pm_reboot, eight seconds after a request for it, in the middle of anything.
_reboot ==
  /\ reboot_timer
  /\ led' = FALSE /\ motor' = FALSE /\ hit' = FALSE
  /\ clear_timer' = FALSE /\ irq' = FALSE /\ reboot_timer' = FALSE
  /\ step' = At("init", "off")

(***************************************************************************)
(* The two threads                                                         *)
(***************************************************************************)

Steps(t, from, to) ==
  /\ step[t] = from
  /\ t = "main" => step["gcoap"] \in {"off", "idle"}
  /\ step' = [step EXCEPT ![t] = to]

SetLed(t) ==
  /\ Steps(t, "set", "move")
  /\ led' = TRUE
  /\ UNCHANGED <<motor, hit, clear_timer, irq, reboot_timer>>

SetMotor(t) ==
  /\ Steps(t, "move", "arm")
  /\ motor' = TRUE
  /\ hit' = (hit /\ ~led)
  /\ UNCHANGED <<led, clear_timer, irq, reboot_timer>>

\* After it the handler notifies the observers of the points and replies.
ArmClearTimer(t) ==
  /\ Steps(t, "arm", IF t = "gcoap" THEN "idle" ELSE "spin")
  /\ clear_timer' = TRUE
  /\ UNCHANGED <<pins, irq, reboot_timer>>

_set_dino(t) == SetLed(t) \/ SetMotor(t) \/ ArmClearTimer(t)

\* POST /dino/points: points of zero, or that cannot be read, move nothing.
_dino_move ==
  /\ Steps("gcoap", "idle", "set")
  /\ UNCHANGED <<pins, clear_timer, irq, reboot_timer>>

luke_reboot ==
  /\ step["gcoap"] = "idle"
  /\ reboot_timer' = TRUE
  /\ UNCHANGED <<pins, clear_timer, irq, step>>

\* The button, two seconds of sleep, the listener, the resource directory.
DinoBoots ==
  /\ \/ Steps("main", "init", "sleep") /\ irq' = TRUE
     \/ /\ step["main"] = "sleep"
        /\ step' = At("set", "idle")
        /\ UNCHANGED irq
  /\ UNCHANGED <<pins, clear_timer, reboot_timer>>

Threads == DinoBoots \/ \E t \in DinoThread : _set_dino(t)
Requests == _dino_move \/ luke_reboot

DinoNext == _toggle_dino \/ _clear_dino \/ _reboot \/ Threads \/ Requests

\* Timers expire and threads are scheduled; presses and requests need not come.
DinoSpec == /\ DinoInit /\ [][DinoNext]_dinoVars
            /\ WF_dinoVars(Threads) /\ WF_dinoVars(_clear_dino) /\ WF_dinoVars(_reboot)

-----------------------------------------------------------------------------
(***************************************************************************)
(* Properties                                                              *)
(***************************************************************************)

\* Whatever a press, the timer and two threads write over each other, a LED or
\* a motor that is on has a timer armed to stop it, or a thread about to arm it.
NeverLeftOn ==
  led \/ motor => clear_timer \/ \E t \in DinoThread : step[t] \in {"move", "arm"}

\* The LED shows the motor: they disagree only while a thread is between the
\* two writes, or since an interrupt hit a thread there.
LedShowsMotor == led # motor => hit \/ \E t \in DinoThread : step[t] = "move"

\* Once presses and requests stop, so does the dino.
Stops == <>[][~(_toggle_dino \/ Requests)]_dinoVars => <>[](~led /\ ~motor)

=============================================================================
