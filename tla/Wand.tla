-------------------------------- MODULE Wand --------------------------------
(***************************************************************************)
(* The wand, wand/main.c: a light on one button, a clock on the other, and *)
(* a mode to set the clock that both buttons share.  After main returns    *)
(* everything happens in interrupt context, one handler at a time: each    *)
(* handler re-registers the handler and the edge of its button, and the    *)
(* two channels of one timer stand for "held long enough" and "half a      *)
(* blink".  The buttons can be pushed and released in any order and at any *)
(* time; how long a timer runs is left open.                               *)
(***************************************************************************)
EXTENDS Integers, FiniteSets

CONSTANTS HourMax,          \* HOUR_MAX (12)
          QuarterMax,       \* QUARTER_MAX (8): half-quarters of an hour
          Times,            \* times of day the RTC can have moved on to
          Permillages       \* battery levels in permille of the usable range

\* A half-quarter is a whole number of half minutes and longer than a minute:
\* the conversions below keep its tenths of minutes exact for nothing else.
ASSUME WandAssumption ==
  /\ HourMax \in Nat \ {0}
  /\ QuarterMax \in 1..59 /\ 120 % QuarterMax = 0
  /\ Times \subseteq [hour : 0..2 * HourMax - 1, min : 0..59]
  /\ Permillages \subseteq 0..1001

VARIABLES
  lights_on,        \* _lights_on
  light_led,        \* LED_LIGHT is lit
  blinking,         \* _blinking
  mode,             \* _set_time_mode
  cur,              \* _cur_hour and _cur_quarter
  rtc,              \* the real-time clock
  held,             \* buttons held down
  handler,          \* the interrupt handler registered for each button
  running,          \* TIMER_DEV(1) counts
  armed,            \* its channels with a timeout set
  lit               \* groups of time LEDs that are lit

vars == <<lights_on, light_led, blinking, mode, cur, rtc, held, handler,
          running, armed, lit>>

Button == {"light", "time"}
Mode == {"off", "hours", "quarters"}
POWER_BAR_CHANNEL == 0
SET_TIME_CHANNEL == 1

\* Handlers registered for the falling edge (push) and the rising (release).
OnPush == {"_btn_light_push", "_btn_time_push", "_decrement", "_increment"}
OnRelease == {"_btn_light_release", "_show_power_off", "_btn_time_release",
              "_do_decrement", "_do_increment"}
NormalHandler == {"_btn_light_push", "_btn_light_release", "_show_power_off",
                  "_btn_time_push", "_btn_time_release"}

Register(b, h) == handler' = [handler EXCEPT ![b] = h]

\* A button's edge runs the handler registered for it.
Edge(b, h) ==
  /\ handler[b] = h
  /\ IF h \in OnPush THEN b \notin held /\ held' = held \cup {b}
                     ELSE b \in held /\ held' = held \ {b}

(***************************************************************************)
(* The clock                                                               *)
(***************************************************************************)

\* Mutant: without the factor of ten.
LosesPrecision(m) == m \div (60 \div QuarterMax)
MinutesToQuarter(m) == (m * 10) \div (600 \div QuarterMax)

\* _time_get
TimeGet(t) ==
  [hour    |-> IF t.hour > HourMax THEN t.hour - HourMax ELSE t.hour,
   quarter |-> MinutesToQuarter(t.min)]

\* Mutant: the rounding error is not fixed.
RoundedDown(q) == (q * (600 \div QuarterMax)) \div 10
\* An odd half-quarter is rounded up to the next minute.
QuarterToMinutes(q) ==
  (q * (600 \div QuarterMax)) \div 10 + (IF q % 2 = 1 THEN 1 ELSE 0)

\* _time_set
TimeSet(c) == [hour |-> c.hour, min |-> QuarterToMinutes(c.quarter)]

RtcTicks ==
  /\ rtc' \in Times
  /\ UNCHANGED <<lights_on, light_led, blinking, mode, cur, held, handler,
                 running, armed, lit>>

(***************************************************************************)
(* Normal mode                                                             *)
(***************************************************************************)

\* _init_normal_mode; armed and lights_on are the caller's.
InitNormalMode ==
  /\ running' = FALSE
  /\ mode' = "off" /\ blinking' = FALSE
  /\ armed' = {}
  /\ handler' = [light |-> "_btn_light_push", time |-> "_btn_time_push"]
  /\ lit' = {}
  /\ light_led' = lights_on

Init ==
  /\ lights_on = FALSE /\ light_led = FALSE
  /\ blinking = FALSE /\ mode = "off"
  /\ cur = [hour |-> 0, quarter |-> 0]
  /\ rtc \in Times
  /\ held = {}
  /\ handler = [light |-> "_btn_light_push", time |-> "_btn_time_push"]
  /\ running = FALSE /\ armed = {} /\ lit = {}

_btn_light_push ==
  /\ Edge("light", "_btn_light_push")
  /\ lights_on' = ~lights_on
  /\ Register("light", "_btn_light_release")
  /\ running' = TRUE
  /\ armed' = armed \cup {POWER_BAR_CHANNEL}
  /\ UNCHANGED <<light_led, blinking, mode, cur, rtc, lit>>

_btn_light_release ==
  /\ Edge("light", "_btn_light_release")
  /\ armed' = armed \ {POWER_BAR_CHANNEL}
  /\ running' = FALSE
  /\ light_led' = lights_on
  /\ Register("light", "_btn_light_push")
  /\ UNCHANGED <<lights_on, blinking, mode, cur, rtc, lit>>

_btn_time_push ==
  /\ Edge("time", "_btn_time_push")
  /\ cur' = TimeGet(rtc)
  /\ lit' = {"hours", "quarters"}
  /\ Register("time", "_btn_time_release")
  /\ running' = TRUE
  /\ armed' = armed \cup {SET_TIME_CHANNEL}
  /\ UNCHANGED <<lights_on, light_led, blinking, mode, rtc>>

\* Mutant: the timeout to set mode is not cancelled.
ReleaseKeepsTimer ==
  /\ Edge("time", "_btn_time_release")
  /\ lit' = {}
  /\ Register("time", "_btn_time_push")
  /\ UNCHANGED <<lights_on, light_led, blinking, mode, cur, rtc, running, armed>>

_btn_time_release ==
  /\ Edge("time", "_btn_time_release")
  /\ armed' = armed \ {SET_TIME_CHANNEL}
  /\ lit' = {}
  /\ Register("time", "_btn_time_push")
  /\ UNCHANGED <<lights_on, light_led, blinking, mode, cur, rtc, running>>

\* Mutant: the power bar stays when the button is released.
PowerBarStays ==
  /\ Edge("light", "_show_power_off")
  /\ Register("light", "_btn_light_push")
  /\ UNCHANGED <<lights_on, light_led, blinking, mode, cur, rtc, running, armed,
                 lit>>

_show_power_off ==
  /\ Edge("light", "_show_power_off")
  /\ lit' = {}
  /\ Register("light", "_btn_light_push")
  /\ UNCHANGED <<lights_on, light_led, blinking, mode, cur, rtc, running, armed>>

\* LEDs of the power bar, one for each full eighth.
PowerBar(permillage) == Cardinality({i \in 1..8 : permillage >= 125 * i})

_show_power ==
  /\ Register("light", "_show_power_off")
  /\ \E p \in Permillages :
       lit' = IF PowerBar(p) > 0 THEN lit \cup {"power"} ELSE lit

(***************************************************************************)
(* Set time mode                                                           *)
(***************************************************************************)

\* _show_time(gpio_set)
ShowStatic == lit' = lit \cup {"hours", "quarters"}

\* _blink: the group being set is toggled, the other one is lit.
Toggled == IF mode = "hours" THEN "hours" ELSE "quarters"
_blink ==
  lit' = ({"hours", "quarters"} \ {Toggled})
         \cup ({Toggled} \ lit)

\* _return_to_blink from the dark.  It clears the channels of TIMER_DEV(0),
\* not of the wand's timer, so a timeout set for the other button stays.
_return_to_blink(left) ==
  /\ lit' = {"hours", "quarters"}
  /\ blinking' = TRUE
  /\ running' = TRUE
  /\ armed' = left \cup {POWER_BAR_CHANNEL}

\* Mutant: the LEDs are not made to blink again.
DecrementOnly ==
  /\ Edge("light", "_do_decrement")
  /\ Register("light", "_decrement")
  /\ cur' = IF mode = "hours"
            THEN [cur EXCEPT !.hour = IF @ > 0 THEN @ - 1 ELSE HourMax - 1]
            ELSE [cur EXCEPT !.quarter = IF @ > 0 THEN @ - 1 ELSE QuarterMax - 1]
  /\ armed' = armed \ {POWER_BAR_CHANNEL}
  /\ UNCHANGED <<lights_on, light_led, mode, rtc, lit, running, blinking>>

\* The pushes stop the blinking and time how long the button is held.
PushInSetMode(b, push, release, channel) ==
  /\ Edge(b, push)
  /\ Register(b, release)
  /\ ShowStatic
  /\ blinking' = FALSE
  /\ armed' = (armed \ {POWER_BAR_CHANNEL}) \cup {channel}
  /\ UNCHANGED <<lights_on, light_led, mode, cur, rtc, running>>

_decrement ==
  PushInSetMode("light", "_decrement", "_do_decrement", POWER_BAR_CHANNEL)
_increment ==
  PushInSetMode("time", "_increment", "_do_increment", SET_TIME_CHANNEL)

_do_decrement ==
  /\ Edge("light", "_do_decrement")
  /\ Register("light", "_decrement")
  /\ cur' = IF mode = "hours"
            THEN [cur EXCEPT !.hour = IF @ > 0 THEN @ - 1 ELSE HourMax - 1]
            ELSE [cur EXCEPT !.quarter = IF @ > 0 THEN @ - 1 ELSE QuarterMax - 1]
  /\ _return_to_blink(armed \ {POWER_BAR_CHANNEL})
  /\ UNCHANGED <<lights_on, light_led, mode, rtc>>

_do_increment ==
  /\ Edge("time", "_do_increment")
  /\ Register("time", "_increment")
  /\ cur' = IF mode = "hours"
            THEN [cur EXCEPT !.hour = (@ + 1) % HourMax]
            ELSE [cur EXCEPT !.quarter = (@ + 1) % QuarterMax]
  /\ _return_to_blink(armed \ {SET_TIME_CHANNEL})
  /\ UNCHANGED <<lights_on, light_led, mode, rtc>>

\* The edge a button is not registered for.
IgnoredEdge ==
  \E b \in Button :
    /\ IF handler[b] \in OnPush THEN b \in held /\ held' = held \ {b}
                                ELSE b \notin held /\ held' = held \cup {b}
    /\ UNCHANGED <<lights_on, light_led, blinking, mode, cur, rtc, handler,
                   running, armed, lit>>

(***************************************************************************)
(* _timeout                                                                *)
(***************************************************************************)

Expires(channel) == running /\ channel \in armed

\* While blinking either channel is half a blink.
BlinkTimeout ==
  /\ blinking
  /\ \E c \in armed :
       /\ Expires(c)
       /\ armed' = (armed \ {c}) \cup {POWER_BAR_CHANNEL}
  /\ _blink
  /\ UNCHANGED <<lights_on, light_led, blinking, mode, cur, rtc, held, handler,
                 running>>

\* The light button was held: back to normal mode, or the power bar.
PowerBarTimeout ==
  /\ ~blinking /\ Expires(POWER_BAR_CHANNEL)
  /\ IF mode # "off"
     THEN InitNormalMode
     ELSE /\ _show_power
          /\ running' = FALSE
          /\ armed' = armed \ {POWER_BAR_CHANNEL}
          /\ UNCHANGED <<light_led, blinking, mode>>
  /\ lights_on' = ~lights_on
  /\ UNCHANGED <<cur, rtc, held>>

\* Mutant: the handlers of normal mode stay registered in set mode.
NextModeOnly ==
  /\ ~blinking /\ Expires(SET_TIME_CHANNEL) /\ mode # "quarters"
  /\ mode' = IF mode = "off" THEN "hours" ELSE "quarters"
  /\ _return_to_blink(armed \ {SET_TIME_CHANNEL})
  /\ UNCHANGED <<lights_on, light_led, cur, rtc, held, handler>>

\* The time button was held: from normal mode to setting hours to quarters ...
NextModeTimeout ==
  /\ ~blinking /\ Expires(SET_TIME_CHANNEL) /\ mode # "quarters"
  /\ handler' = [light |-> "_decrement", time |-> "_increment"]
  /\ mode' = IF mode = "off" THEN "hours" ELSE "quarters"
  /\ _return_to_blink(armed \ {SET_TIME_CHANNEL})
  /\ UNCHANGED <<lights_on, light_led, cur, rtc, held>>

\* ... to setting the clock and back to normal mode.
TimeSetTimeout ==
  /\ ~blinking /\ Expires(SET_TIME_CHANNEL) /\ mode = "quarters"
  /\ rtc' = TimeSet(cur)
  /\ InitNormalMode
  /\ UNCHANGED <<lights_on, cur, held>>

Buttons == \/ _btn_light_push \/ _btn_light_release \/ _btn_time_push
           \/ _btn_time_release \/ _show_power_off \/ _decrement \/ _increment
           \/ _do_decrement \/ _do_increment \/ IgnoredEdge

_timeout == \/ BlinkTimeout \/ PowerBarTimeout \/ NextModeTimeout
            \/ TimeSetTimeout

Next == Buttons \/ _timeout \/ RtcTicks

Spec == Init /\ [][Next]_vars

-----------------------------------------------------------------------------
(***************************************************************************)
(* Properties                                                              *)
(***************************************************************************)

TypeOK ==
  /\ lights_on \in BOOLEAN /\ light_led \in BOOLEAN
  /\ blinking \in BOOLEAN /\ running \in BOOLEAN
  /\ mode \in Mode
  /\ cur \in [hour : 0..HourMax, quarter : 0..QuarterMax - 1]
  /\ rtc \in [hour : 0..2 * HourMax - 1, min : 0..59]
  /\ held \subseteq Button
  /\ handler \in [Button -> OnPush \cup OnRelease]
  /\ armed \subseteq {POWER_BAR_CHANNEL, SET_TIME_CHANNEL}
  /\ lit \subseteq {"hours", "quarters", "power"}

\* Both buttons always have handlers of the current mode, whichever button or
\* timeout changed the mode and whichever of them was held meanwhile: the
\* default branches of _do_decrement and _do_increment are never taken.
HandlersFitMode ==
  \A b \in Button : handler[b] \in NormalHandler <=> mode = "off"

\* With no button held, set mode blinks and keeps its timer going: no order of
\* pushes and releases leaves the wand dead in set mode.
SetModeBlinks ==
  mode # "off" /\ held = {} =>
    blinking /\ running /\ POWER_BAR_CHANNEL \in armed

\* In normal mode a channel is armed only while its button is held: the power
\* bar and set mode are never entered by themselves, after a release.
ArmedMeansHeld ==
  mode = "off" => /\ ~blinking
                  /\ POWER_BAR_CHANNEL \in armed => "light" \in held
                  /\ SET_TIME_CHANNEL \in armed => "time" \in held

\* In normal mode the time LEDs are dark when nothing is held, and in set mode
\* the group that is not being set never goes dark; a time that is shown has an
\* hour and a half-quarter (TypeOK).
DisplayFitsMode ==
  /\ TypeOK
  /\ mode = "off" /\ held = {} => lit = {}
  /\ mode = "hours" => "quarters" \in lit
  /\ mode = "quarters" => "hours" \in lit

\* The time set is the time shown: reading the clock back after it was set
\* gives the hour and the half-quarter that were chosen.
TimeSetIsTimeShown == [][TimeSetTimeout => TimeGet(rtc') = cur]_vars

\* wand/main.c:610: after the timeout of a held light button the status of the
\* light is "as it was", the one the LED shows.
KeepsLightAsItWas == [][PowerBarTimeout => lights_on' = light_led']_vars

=============================================================================
