------------------------------ MODULE Display ------------------------------
(***************************************************************************)
(* The display node of the LNdW'18 demo, lndw18_luke/display/main.c.       *)
(*                                                                         *)
(* Points arrive in the gcoap thread (POST /dsp/points) and drain in the   *)
(* main thread, which sleeps on a timer while there are points and on a    *)
(* thread flag while there are none.  A mutex guards the points between    *)
(* the two threads; the difficulty button's interrupt writes them without  *)
(* it.  The gcoap thread has the higher priority: main runs only while     *)
(* gcoap is idle or blocked on the mutex main holds.                       *)
(***************************************************************************)
EXTENDS Integers

CONSTANTS PointsMax,        \* LUKE_POINTS_MAX (64)
          DropValue,        \* LUKE_POINT_DROP_VALUE (2)
          DifficultyMax,    \* LUKE_DIFFICULTY_MAX (10)
          DifficultyDefault,\* LUKE_DIFFICULTY_DEFAULT (9)
          VictoryCond,      \* LUKE_VICTORY_COND (5)
          ResetThreshold,   \* LUKE_VICTORY_RESET_THRESHOLD (3)
          VictoryMod,       \* 2^8, the width of _in_victory_cond
          PointsMod,        \* 2^16, the width of _points
          Posts,            \* points a POST to /dsp/points can carry: sscanf's
                            \* %u takes negative ones too
          Difficulties      \* difficulties a POST to /dsp/dif can carry

ASSUME DisplayAssumption ==
  /\ PointsMax \in Nat \ {0} /\ DropValue \in 1..PointsMax
  /\ DifficultyMax \in Nat \ {0} /\ DifficultyDefault \in 1..DifficultyMax
  /\ VictoryMod \in Nat /\ VictoryCond \in 1..VictoryMod - 1
  /\ ResetThreshold \in Nat
  /\ ResetThreshold + DropValue < PointsMax    \* 5 < 64: nor is a streak's last
                                              \* drain the one that takes all
  /\ PointsMax \div DifficultyMax > DropValue  \* 6 > 2: the button never sets so
                                              \* few points that one drain takes all
  /\ PointsMod \in Nat /\ PointsMax < PointsMod
  /\ Posts \subseteq Int /\ Difficulties \subseteq Nat

VARIABLES
  points,           \* _points
  last_notified,    \* _last_notified
  in_victory,       \* _in_victory_cond
  difficulty,       \* _difficulty
  last_reported,    \* _last_reported_difficulty; 0 before the first report
  flag,             \* LUKE_THREAD_FLAG_DEC of the main thread
  mutex,            \* holder of _points_mutex, or "free"
  pc,               \* where each thread is
  tmp,              \* each thread's register between read and write of _points
  leds,             \* some LED of the strip is lit
  light,            \* LED0, the victory light
  \* History:
  seen_points,      \* what the observers of /dsp/points were last sent
  missed,           \* they were not sent the last change
  lowered,          \* a POST lowered the points since main last drained them
  meddled,          \* a POST did or the button set them since then
  unfair            \* a POST had when the victory light was put on

vars == <<points, last_notified, in_victory, difficulty, last_reported, flag,
          mutex, pc, tmp, leds, light, seen_points, missed, meddled,
           lowered, unfair>>

Thread == {"main", "gcoap"}
pointVars == <<points, last_notified, in_victory, mutex, tmp, leds, seen_points, missed>>
restVars == <<light, meddled, lowered, unfair>>
difficultyVars == <<difficulty, last_reported>>

Init ==
  /\ points = PointsMax /\ last_notified = 0 /\ in_victory = 0
  /\ difficulty = DifficultyDefault /\ last_reported = 0
  /\ flag = FALSE /\ mutex = "free"
  /\ pc = [main |-> "boot", gcoap |-> "idle"]
  /\ tmp = [t \in Thread |-> 0]
  /\ leds = FALSE /\ light = FALSE
  /\ seen_points = "nobody" /\ missed = FALSE
  /\ meddled = FALSE /\ lowered = FALSE /\ unfair = FALSE

\* Thread t is at `from`, goes to `to`, and nothing keeps it from running.
AnyPriority(t) == TRUE              \* mutant: both threads have one priority
Runs(t) == t = "main" => \/ pc["gcoap"] = "idle"
                         \/ pc["gcoap"] = "lock" /\ mutex = "main"

Goto(t, from, to) ==
  /\ pc[t] = from
  /\ Runs(t)
  /\ pc' = [pc EXCEPT ![t] = to]

(***************************************************************************)
(* Interrupt context: the difficulty button                                *)
(***************************************************************************)

PointsFor(d) == (d * PointsMax) \div DifficultyMax

\* Mutant: the main thread is not woken.
SilentIncrease ==
  /\ difficulty' = IF difficulty >= DifficultyMax THEN 1 ELSE difficulty + 1
  /\ points' = PointsFor(difficulty')
  /\ meddled' = TRUE
  /\ UNCHANGED <<last_notified, in_victory, last_reported, flag, mutex, pc, tmp,
                 leds, light, seen_points, missed, lowered, unfair>>

_incr_difficulty ==
  /\ difficulty' = IF difficulty >= DifficultyMax THEN 1 ELSE difficulty + 1
  /\ points' = PointsFor(difficulty')
  /\ flag' = TRUE
  /\ meddled' = TRUE
  /\ UNCHANGED <<last_notified, in_victory, last_reported, mutex, pc, tmp, leds,
                 light, seen_points, missed, lowered, unfair>>

(***************************************************************************)
(* _display_points, called by both threads with the mutex held             *)
(***************************************************************************)

\* Until main has filled the colour map the strip may stay dark.
ShowLeds(t) ==
  /\ Goto(t, "leds", IF last_notified # points THEN "notify" ELSE "unlock")
  /\ \/ leds' = (points > 0)
     \/ pc["main"] = "register" /\ leds' = FALSE
  /\ UNCHANGED <<points, last_notified, in_victory, mutex, tmp, seen_points,
                 missed, difficultyVars, flag, restVars>>

\* Of the points sent to an observer only the zero matters here.
Shown(n) == IF n = 0 THEN "zero" ELSE "some"

\* _notify_points: nobody looks whether gcoap_obs_init and gcoap_obs_send work.
NotifyPoints(t) ==
  /\ Goto(t, "notify", "noted")
  /\ \/ /\ seen_points' = IF seen_points = "nobody" THEN "nobody" ELSE Shown(points)
        /\ missed' = FALSE
     \/ /\ seen_points # "nobody"
        /\ missed' = TRUE
        /\ UNCHANGED seen_points
  /\ UNCHANGED <<points, last_notified, in_victory, mutex, tmp, leds,
                 difficultyVars, flag, restVars>>

NotePoints(t) ==
  /\ Goto(t, "noted", "unlock")
  /\ last_notified' = points
  /\ UNCHANGED <<points, in_victory, mutex, tmp, leds, seen_points, missed,
                 difficultyVars, flag, restVars>>

Unlock(t) ==
  /\ Goto(t, "unlock", IF t = "main" THEN "dif" ELSE "idle")
  /\ mutex' = "free"
  /\ UNCHANGED <<points, last_notified, in_victory, tmp, leds, seen_points,
                 missed, difficultyVars, flag, restVars>>

(***************************************************************************)
(* The gcoap thread: requests are served once main has registered the      *)
(* listener, while it still registers the node at the resource directory   *)
(***************************************************************************)

\* POST /dsp/points: _increment_points sets the flag before it locks.
ReceivePoints(p) ==
  /\ pc["main"] # "boot"
  /\ Goto("gcoap", "idle", "lock")
  /\ flag' = TRUE
  /\ tmp' = [tmp EXCEPT !["gcoap"] = p]
  /\ UNCHANGED <<points, last_notified, in_victory, mutex, leds, seen_points,
                 missed, difficultyVars, restVars>>

\* mutex_lock, then new_points = _points + p, in 16 bits
AddPoints ==
  /\ Goto("gcoap", "lock", "write")
  /\ mutex = "free"
  /\ mutex' = "gcoap"
  /\ tmp' = [tmp EXCEPT !["gcoap"] = (points + @) % PointsMod]
  /\ UNCHANGED <<points, last_notified, in_victory, leds, seen_points, missed,
                 difficultyVars, flag, restVars>>

\* A POST takes points that the button set, and a GET has told of, back to the
\* value last notified: nobody will be.
LoweredToLastNotified ==
  points' < points /\ points' = last_notified /\ seen_points = "some"

StoreIncrement ==
  /\ Goto("gcoap", "write", "leds")
  /\ IF tmp["gcoap"] > PointsMax
     THEN points' = PointsMax /\ in_victory' = (in_victory + 1) % VictoryMod
     ELSE points' = tmp["gcoap"] /\ UNCHANGED in_victory
  /\ lowered' = (lowered \/ points' < points)
  /\ meddled' = (meddled \/ points' < points)
  /\ missed' = (missed \/ LoweredToLastNotified)
  /\ tmp' = [tmp EXCEPT !["gcoap"] = 0]
  /\ UNCHANGED <<last_notified, mutex, leds, seen_points, difficultyVars, flag,
                 light, unfair>>

\* GET /dsp/points with Observe: registered, and told the current points.
ObservePoints ==
  /\ pc["main"] # "boot" /\ pc["gcoap"] = "idle" /\ mutex = "free"
  /\ seen_points' = Shown(points)
  /\ UNCHANGED <<points, last_notified, in_victory, mutex, tmp, leds, missed,
                 difficultyVars, flag, restVars, pc>>

\* POST /dsp/dif: the observers are sent the difficulty first, and only then is
\* it set; the requested value waits in tmp.
ReceiveDifficulty(d) ==
  /\ pc["main"] # "boot"
  /\ \/ Goto("gcoap", "idle", "set")
     \/ Goto("gcoap", "idle", "report")
  /\ tmp' = [tmp EXCEPT !["gcoap"] = d]
  /\ UNCHANGED <<points, last_notified, in_victory, mutex, leds, seen_points,
                 missed, difficultyVars, flag, restVars>>

SetDifficulty ==
  /\ Goto("gcoap", "set", "idle")
  /\ difficulty' = CASE tmp["gcoap"] = 0 -> 1
                     [] tmp["gcoap"] > DifficultyMax -> DifficultyMax
                     [] OTHER -> tmp["gcoap"]
  /\ tmp' = [tmp EXCEPT !["gcoap"] = 0]
  /\ UNCHANGED <<points, last_notified, in_victory, mutex, leds, seen_points,
                 missed, last_reported, flag, restVars>>

(***************************************************************************)
(* _notify_difficulty, called by both threads: if somebody observes, and   *)
(* gcoap_obs_init works, the difficulty is noted as reported before it is  *)
(* sent, and whether it is sent nobody looks.  Who observes /dsp/dif is    *)
(* left open: every call may find somebody or nobody.                      *)
(***************************************************************************)

ReportDifficulty(t) ==
  /\ Goto(t, "report", IF t = "main" THEN "sleep" ELSE "set")
  /\ last_reported' = difficulty
  /\ UNCHANGED <<pointVars, difficulty, flag, restVars>>

(***************************************************************************)
(* The main thread                                                         *)
(***************************************************************************)

\* Two seconds of sleep, then the listener.
Boot ==
  /\ Goto("main", "boot", "register")
  /\ UNCHANGED <<pointVars, difficultyVars, flag, restVars>>

\* cord_ep_register, which may wait on flags of this thread and take them all,
\* and the colour map.
Registered ==
  /\ Goto("main", "register", "victory")
  /\ flag' \in {flag, FALSE}
  /\ UNCHANGED <<pointVars, difficultyVars, restVars>>

Victorious == in_victory >= VictoryCond

\* The victory light, and post_points_to_target(_points) if won.
CheckVictory ==
  /\ Goto("main", "victory", "lock")
  /\ light' = Victorious
  /\ unfair' = (Victorious /\ lowered)
  /\ UNCHANGED <<pointVars, difficultyVars, flag, meddled, lowered>>

\* _decrement_points up to the read of _points
ReadPoints ==
  /\ Goto("main", "lock", "write")
  /\ mutex = "free"
  /\ mutex' = "main"
  /\ tmp' = [tmp EXCEPT !["main"] =
               IF DropValue > points THEN 0 ELSE points - DropValue]
  /\ UNCHANGED <<points, last_notified, in_victory, leds, seen_points, missed,
                 difficultyVars, flag, restVars>>

StoreDecrement ==
  /\ Goto("main", "write", "reset")
  /\ points' = tmp["main"]
  /\ tmp' = [tmp EXCEPT !["main"] = 0]
  /\ meddled' = FALSE /\ lowered' = FALSE
  /\ UNCHANGED <<last_notified, in_victory, mutex, leds, seen_points, missed,
                 difficultyVars, flag, light, unfair>>

\* Mutant: a streak is never reset.
KeepVictory ==
  /\ Goto("main", "reset", "leds")
  /\ UNCHANGED <<pointVars, difficultyVars, flag, restVars>>

ResetVictory ==
  /\ Goto("main", "reset", "leds")
  /\ in_victory' = IF points < PointsMax - ResetThreshold THEN 0 ELSE in_victory
  /\ UNCHANGED <<points, last_notified, mutex, tmp, leds, seen_points, missed,
                 difficultyVars, flag, restVars>>

\* The main loop reports a changed difficulty.
CheckDifficulty ==
  /\ \/ Goto("main", "dif", "sleep")
     \/ /\ difficulty # last_reported
        /\ Goto("main", "dif", "report")
  /\ UNCHANGED <<pointVars, difficultyVars, flag, restVars>>

\* While there are points the main thread sleeps on the timer only.
GoToSleep ==
  /\ Goto("main", "sleep", IF points > 0 THEN "timer" ELSE "wait")
  /\ UNCHANGED <<pointVars, difficultyVars, flag, restVars>>

TimerWakes ==
  /\ Goto("main", "timer", "victory")
  /\ UNCHANGED <<pointVars, difficultyVars, flag, restVars>>

\* thread_flags_wait_any takes the flag.
FlagWakes ==
  /\ Goto("main", "wait", "victory")
  /\ flag
  /\ flag' = FALSE
  /\ UNCHANGED <<pointVars, difficultyVars, restVars>>

Shared(t) == \/ ShowLeds(t) \/ NotifyPoints(t) \/ NotePoints(t) \/ Unlock(t)
             \/ ReportDifficulty(t)

Main == \/ Boot \/ Registered \/ CheckVictory \/ ReadPoints \/ StoreDecrement \/ ResetVictory
        \/ CheckDifficulty \/ GoToSleep \/ TimerWakes \/ FlagWakes
        \/ Shared("main")

Handler == AddPoints \/ StoreIncrement \/ SetDifficulty \/ Shared("gcoap")

Request == \/ \E p \in Posts : ReceivePoints(p)
           \/ \E d \in Difficulties : ReceiveDifficulty(d)
           \/ ObservePoints

Next == _incr_difficulty \/ Main \/ Handler \/ Request

\* Both threads are scheduled, the handler first; requests and presses need
\* not come.
Spec == Init /\ [][Next]_vars /\ WF_vars(Main) /\ WF_vars(Handler)

-----------------------------------------------------------------------------
(***************************************************************************)
(* Properties                                                              *)
(***************************************************************************)

TypeOK ==
  /\ points \in 0..PointsMax /\ last_notified \in 0..PointsMax
  /\ leds \in BOOLEAN
  /\ in_victory \in 0..VictoryMod - 1
  /\ difficulty \in 1..DifficultyMax /\ last_reported \in 0..DifficultyMax
  /\ flag \in BOOLEAN /\ light \in BOOLEAN
  /\ missed \in BOOLEAN /\ meddled \in BOOLEAN /\ lowered \in BOOLEAN
  /\ unfair \in BOOLEAN
  /\ mutex \in Thread \cup {"free"}
  /\ \A t \in Thread : mutex = t <=> pc[t] \in {"write", "reset", "leds", "notify",
                                                "noted", "unlock"}
  /\ tmp["main"] \in 0..PointsMax
  /\ seen_points \in {"nobody", "zero", "some"}

\* No points are shown.  The observers were sent the zero, unless sending it
\* failed or a POST took the points back to a zero notified before.  The victory
\* light is out, unless a POST had lowered the points of the victory it shows:
\* main may then find none left to drain, and sleep.
Settled ==
  /\ points = 0 /\ ~leds /\ last_notified = 0
  /\ seen_points \in {"nobody", "zero"} \/ missed
  /\ light => unfair

\* When the main thread sleeps on the flag with nothing to wake it, there is
\* nothing left to do.  A wake-up lost between a POST, the button and the drain,
\* or a notification of a value the button changed meanwhile, would leave the
\* display lit or an observer wrong for ever.  Nor does any of it take the
\* points off their scale, or the mutex from its owner (TypeOK).
AsleepMeansSettled ==
  /\ TypeOK
  /\ pc["main"] = "wait" /\ ~flag /\ pc["gcoap"] = "idle" => Settled

\* A victory is posted from the top of the scale, however the points came
\* there, unless the difficulty button or a POST that adds a negative number
\* lowered them behind the streak's back, after the last drain looked at them.
VictoryFromTheTop ==
  pc["main"] = "victory" /\ Victorious /\ ~meddled =>
    points >= PointsMax - ResetThreshold

\* Once requests and the button stop, the points drain and the node settles,
\* whichever notifications fail on the way.
Settles == <>[][~(Request \/ _incr_difficulty)]_vars => <>[]Settled

=============================================================================
