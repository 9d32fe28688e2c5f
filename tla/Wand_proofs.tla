----------------------------- MODULE Wand_proofs -----------------------------
(***************************************************************************)
(* Theorems about the wand for every clock, every time of day and every    *)
(* battery level.                                                          *)
(*                                                                         *)
(* Almost all the wand knows is in the two registered handlers: which      *)
(* button is held, which channel may be armed, which LEDs may be lit.  The *)
(* inductive invariant says what each handler stands for, and the          *)
(* properties the runs check follow from it.                               *)
(***************************************************************************)
EXTENDS Wand, TLAPS

\* A handler of a release is registered only while its button is held.
ReleaseMeansHeld == \A b \in Button : handler[b] \in OnRelease => b \in held

\* In normal mode the handler that was registered with a timeout cancels it.
ArmedByHandler ==
  mode = "off" =>
    /\ ~blinking
    /\ POWER_BAR_CHANNEL \in armed => handler["light"] = "_btn_light_release"
    /\ SET_TIME_CHANNEL \in armed => handler["time"] = "_btn_time_release"

\* In set mode the LEDs blink unless a button waits for its release.
BlinksUnlessPushed ==
  mode # "off" /\ (\A b \in Button : handler[b] \in OnPush) =>
    blinking /\ running /\ POWER_BAR_CHANNEL \in armed

\* In normal mode what is lit goes dark with the release of a button.
LitByHandler ==
  mode = "off" /\ lit # {} => \/ handler["light"] = "_show_power_off"
                              \/ handler["time"] = "_btn_time_release"

\* In set mode the group that is not being set is lit.
OtherGroupLit ==
  /\ mode = "hours" => "quarters" \in lit
  /\ mode = "quarters" => "hours" \in lit

IInv ==
  /\ TypeOK
  /\ HandlersFitMode
  /\ ReleaseMeansHeld
  /\ ArmedByHandler
  /\ BlinksUnlessPushed
  /\ LitByHandler
  /\ OtherGroupLit

-----------------------------------------------------------------------------
(***************************************************************************)
(* The clock                                                               *)
(***************************************************************************)

\* A half-quarter in tenths of minutes, which is more than a minute.
LEMMA HalfQuarter ==
  \E k \in Nat : k > 2 /\ 600 \div QuarterMax = 5 * k /\ QuarterMax * (5 * k) = 600
<1> DEFINE k == 120 \div QuarterMax
<1>1. QuarterMax \in Nat \ {0} /\ 120 % QuarterMax = 0 /\ QuarterMax < 60
  BY WandAssumption
<1>2. k \in Nat /\ 120 = QuarterMax * k
  BY <1>1
<1> HIDE DEF k
<1>3. 600 = QuarterMax * (5 * k)
  BY <1>1, <1>2
<1>4. 600 \div QuarterMax = 5 * k
  BY <1>1, <1>2, <1>3
<1>5. k > 2
  BY <1>1, <1>2
<1> QED
  BY <1>2, <1>3, <1>4, <1>5

\* _time_get: every time of day is an hour and a half-quarter of the wand.
LEMMA TimeGetType ==
  ASSUME NEW t \in [hour : 0..2 * HourMax - 1, min : 0..59]
  PROVE  TimeGet(t) \in [hour : 0..HourMax, quarter : 0..QuarterMax - 1]
<1>1. (IF t.hour > HourMax THEN t.hour - HourMax ELSE t.hour) \in 0..HourMax
  BY WandAssumption
<1>2. MinutesToQuarter(t.min) \in 0..QuarterMax - 1
  <2>1. PICK D \in Nat : D > 10 /\ 600 \div QuarterMax = D /\ QuarterMax * D = 600
    BY HalfQuarter
  <2> DEFINE m == t.min * 10
  <2>2. m \in Nat /\ m < QuarterMax * D /\ QuarterMax \in Nat
    BY <2>1, WandAssumption
  <2> HIDE DEF m
  <2>3. m \div D \in 0..QuarterMax - 1
    BY <2>1, <2>2
  <2> QED
    BY <2>1, <2>3 DEF MinutesToQuarter, m
<1> QED
  BY <1>1, <1>2 DEF TimeGet

\* _time_set: every hour and half-quarter is a time of day.
LEMMA TimeSetType ==
  ASSUME NEW c \in [hour : 0..HourMax, quarter : 0..QuarterMax - 1]
  PROVE  QuarterToMinutes(c.quarter) \in 0..59
<1>1. PICK D \in Nat : D > 10 /\ 600 \div QuarterMax = D /\ QuarterMax * D = 600
  BY HalfQuarter
<1> DEFINE q == c.quarter
           x == q * D
<1>2. q \in 0..QuarterMax - 1 /\ QuarterMax \in Nat
  BY WandAssumption
<1> HIDE DEF q
<1>3. x \in Nat /\ x <= 600 - D
  BY <1>1, <1>2
<1>4. x \in 0..589
  BY <1>1, <1>3
<1> HIDE DEF x
<1>5. x \div 10 \in 0..58
  BY <1>4
<1> QED
  BY <1>1, <1>5 DEF QuarterToMinutes, x, q

\* Minutes made of a half-quarter are of that half-quarter again: rounding an
\* odd one down is made good by the extra minute.
LEMMA QuarterKept ==
  ASSUME NEW q \in 0..QuarterMax - 1
  PROVE  MinutesToQuarter(QuarterToMinutes(q)) = q
<1>1. PICK k \in Nat : k > 2 /\ 600 \div QuarterMax = 5 * k
  BY HalfQuarter
<1> DEFINE D == 5 * k
           x == q * D
<1>2. q \in Nat
  BY WandAssumption
<1>3. (((q * (5 * k)) \div 10 + (IF q % 2 = 1 THEN 1 ELSE 0)) * 10) \div (5 * k) = q
  <2>1. CASE q % 2 = 0
    <3>1. PICK j \in Nat : q = 2 * j
      BY <1>2, <2>1
    <3>2. q * D = 10 * (j * k) /\ j * k \in Nat
      BY <3>1
    <3>3. (q * D) \div 10 = j * k
      BY <3>2
    <3>4. 10 * (j * k) = q * D /\ D \in Nat \ {0}
      BY <1>1, <3>2
    <3> HIDE DEF D
    <3>5. (q * D) \div D = q
      BY <1>2, <3>4
    <3> QED
      BY <2>1, <3>2, <3>3, <3>4, <3>5 DEF D
  <2>2. CASE q % 2 = 1
    <3> DEFINE y == ((x \div 10) + 1) * 10
    <3>1. x \in Nat
      BY <1>2
    <3>2. y \in Nat /\ y >= x + 1 /\ y <= x + 10
      <4> HIDE DEF x
      <4> QED
        BY <3>1
    <3>3. x = q * D /\ D \in Nat /\ D > 10
      BY <1>1
    <3> HIDE DEF y, x, D
    <3>4. y >= q * D /\ y < (q + 1) * D
      BY <1>2, <3>1, <3>2, <3>3
    <3>5. y \div D = q
      BY <1>2, <3>2, <3>3, <3>4
    <3> QED
      BY <2>2, <3>5 DEF x, y, D
  <2> QED
    BY <1>2, <2>1, <2>2
<1> QED
  BY <1>1, <1>3 DEF MinutesToQuarter, QuarterToMinutes

\* Setting the clock keeps the hour and the half-quarter.
LEMMA TimeKept ==
  ASSUME NEW c \in [hour : 0..HourMax, quarter : 0..QuarterMax - 1]
  PROVE  /\ TimeSet(c) \in [hour : 0..2 * HourMax - 1, min : 0..59]
         /\ TimeGet(TimeSet(c)) = c
<1>1. c.hour \in 0..HourMax /\ c.hour \in 0..2 * HourMax - 1 /\ ~(c.hour > HourMax)
  BY WandAssumption
<1>2. QuarterToMinutes(c.quarter) \in 0..59
  BY TimeSetType
<1>3. MinutesToQuarter(QuarterToMinutes(c.quarter)) = c.quarter
  BY QuarterKept
<1> QED
  BY <1>1, <1>2, <1>3 DEF TimeSet, TimeGet

-----------------------------------------------------------------------------
(***************************************************************************)
(* The initial states                                                      *)
(***************************************************************************)

LEMMA InitIInv == Init => IInv
<1> SUFFICES ASSUME Init PROVE IInv
  OBVIOUS
<1> USE WandAssumption DEF Init
<1>1. lights_on \in BOOLEAN /\ light_led \in BOOLEAN /\ blinking \in BOOLEAN /\ running \in BOOLEAN
  OBVIOUS
<1>2. cur \in [hour : 0..HourMax, quarter : 0..QuarterMax - 1]
  OBVIOUS
<1>3. handler \in [Button -> OnPush \cup OnRelease]
  BY DEF Button, OnPush, OnRelease
<1>4. TypeOK
  BY <1>1, <1>2, <1>3 DEF TypeOK, Mode
<1>5. HandlersFitMode /\ ReleaseMeansHeld
  BY DEF HandlersFitMode, ReleaseMeansHeld, Button, NormalHandler, OnRelease
<1>6. ArmedByHandler /\ BlinksUnlessPushed /\ LitByHandler /\ OtherGroupLit
  BY DEF ArmedByHandler, BlinksUnlessPushed, LitByHandler, OtherGroupLit
<1> QED
  BY <1>4, <1>5, <1>6 DEF IInv

-----------------------------------------------------------------------------
(***************************************************************************)
(* The buttons                                                             *)
(***************************************************************************)

\* Normal mode: each push registers the release that undoes it.
LEMMA NormalButtonsKeep ==
  IInv /\ (\/ _btn_light_push \/ _btn_light_release \/ _btn_time_push
           \/ _btn_time_release \/ _show_power_off) => IInv'
<1> SUFFICES ASSUME IInv, \/ _btn_light_push \/ _btn_light_release \/ _btn_time_push
                          \/ _btn_time_release \/ _show_power_off
             PROVE  IInv'
  OBVIOUS
<1> USE DEF Edge, Register, _btn_light_push, _btn_light_release, _btn_time_push,
            _btn_time_release, _show_power_off, OnPush, OnRelease
<1>1. TypeOK
  BY DEF IInv
<1>2. mode = "off" /\ UNCHANGED <<mode, blinking>>
  BY DEF IInv, HandlersFitMode, Button, NormalHandler
<1>3. TypeOK'
  <2>1. cur' \in [hour : 0..HourMax, quarter : 0..QuarterMax - 1]
    BY <1>1, TimeGetType DEF TypeOK
  <2>2. /\ handler' \in [Button -> OnPush \cup OnRelease]
        /\ held' \subseteq Button
    <3>1. \E b \in Button, h \in OnPush \cup OnRelease :
            /\ handler' = [handler EXCEPT ![b] = h]
            /\ held' = held \cup {b} \/ held' = held \ {b}
      BY DEF Button
    <3> QED
      BY <1>1, <3>1 DEF TypeOK
  <2>3. lights_on' \in BOOLEAN
    BY <1>1 DEF TypeOK
  <2>4. light_led' \in BOOLEAN
    BY <1>1 DEF TypeOK
  <2>5. running' \in BOOLEAN
    BY <1>1 DEF TypeOK
  <2>6. /\ armed' \subseteq {POWER_BAR_CHANNEL, SET_TIME_CHANNEL}
        /\ lit' \subseteq {"hours", "quarters", "power"}
    BY <1>1 DEF TypeOK
  <2>7. UNCHANGED rtc
    OBVIOUS
  <2> QED
    BY <1>1, <1>2, <2>1, <2>2, <2>3, <2>4, <2>5, <2>6, <2>7 DEF TypeOK
<1>4. HandlersFitMode'
  BY <1>1, <1>2 DEF IInv, HandlersFitMode, TypeOK, Button, NormalHandler
<1>5. ReleaseMeansHeld'
  BY <1>1 DEF IInv, ReleaseMeansHeld, TypeOK, Button
<1>6. ArmedByHandler'
  BY <1>1, <1>2 DEF IInv, ArmedByHandler, TypeOK, Button, POWER_BAR_CHANNEL, SET_TIME_CHANNEL
<1>7. LitByHandler'
  BY <1>1, <1>2 DEF IInv, LitByHandler, TypeOK, Button
<1>8. BlinksUnlessPushed' /\ OtherGroupLit'
  BY <1>2 DEF BlinksUnlessPushed, OtherGroupLit
<1> QED
  BY <1>3, <1>4, <1>5, <1>6, <1>7, <1>8 DEF IInv

\* Set mode: a push stops the blinking, and registers the release that starts
\* it again.
LEMMA SetButtonsKeep ==
  IInv /\ (_decrement \/ _increment \/ _do_decrement \/ _do_increment) => IInv'
<1> SUFFICES ASSUME IInv, _decrement \/ _increment \/ _do_decrement \/ _do_increment
             PROVE  IInv'
  OBVIOUS
<1> USE DEF Edge, Register, _decrement, _increment, _do_decrement, _do_increment,
            PushInSetMode, ShowStatic, _return_to_blink, OnPush, OnRelease
<1>1. TypeOK
  BY DEF IInv
<1>2. mode # "off" /\ mode' = mode
  BY DEF IInv, HandlersFitMode, Button, NormalHandler
<1>3. TypeOK'
  <2>1. cur' \in [hour : 0..HourMax, quarter : 0..QuarterMax - 1]
    <3>1. CASE _do_decrement
      BY <1>1, <3>1, WandAssumption DEF TypeOK
    <3>2. CASE _do_increment
      <4>1. cur.hour \in Nat /\ cur.quarter \in Nat
        BY <1>1, WandAssumption DEF TypeOK
      <4>2. (cur.hour + 1) % HourMax \in 0..HourMax
        BY <4>1, WandAssumption
      <4>3. (cur.quarter + 1) % QuarterMax \in 0..QuarterMax - 1
        BY <4>1, WandAssumption
      <4> QED
        BY <1>1, <3>2, <4>2, <4>3 DEF TypeOK
    <3> QED
      BY <1>1, <3>1, <3>2 DEF TypeOK
  <2>2. handler' \in [Button -> OnPush \cup OnRelease] /\ held' \subseteq Button
    BY <1>1 DEF TypeOK, Button
  <2>3. UNCHANGED <<lights_on, light_led, rtc>>
    OBVIOUS
  <2>4. blinking' \in BOOLEAN
    OBVIOUS
  <2>5. running' \in BOOLEAN
    BY <1>1 DEF TypeOK
  <2>6. /\ armed' \subseteq {POWER_BAR_CHANNEL, SET_TIME_CHANNEL}
        /\ lit' \subseteq {"hours", "quarters", "power"}
    BY <1>1 DEF TypeOK
  <2> QED
    BY <1>1, <1>2, <2>1, <2>2, <2>3, <2>4, <2>5, <2>6 DEF TypeOK
<1>4. HandlersFitMode'
  BY <1>1, <1>2 DEF IInv, HandlersFitMode, TypeOK, Button, NormalHandler
<1>5. ReleaseMeansHeld'
  BY <1>1 DEF IInv, ReleaseMeansHeld, TypeOK, Button
<1>6. ArmedByHandler' /\ LitByHandler'
  BY <1>2 DEF ArmedByHandler, LitByHandler
<1>7. BlinksUnlessPushed'
  BY <1>1 DEF BlinksUnlessPushed, TypeOK, Button
<1>8. OtherGroupLit'
  BY DEF OtherGroupLit
<1> QED
  BY <1>3, <1>4, <1>5, <1>6, <1>7, <1>8 DEF IInv

\* An edge that is not registered for is the release of a button that was held
\* across a change of mode; the handlers stay.
LEMMA IgnoredEdgeKeeps == IInv /\ IgnoredEdge => IInv'
<1> SUFFICES ASSUME IInv, IgnoredEdge PROVE IInv'
  OBVIOUS
<1> USE DEF IInv
<1>1. PICK b \in Button :
        /\ IF handler[b] \in OnPush THEN b \in held /\ held' = held \ {b}
                                    ELSE b \notin held /\ held' = held \cup {b}
        /\ UNCHANGED <<lights_on, light_led, blinking, mode, cur, rtc, handler,
                       running, armed, lit>>
  BY DEF IgnoredEdge
<1>2. handler[b] \in OnPush /\ held' = held \ {b}
  BY <1>1 DEF TypeOK, ReleaseMeansHeld
<1>3. TypeOK'
  BY <1>1, <1>2 DEF TypeOK
<1>4. ReleaseMeansHeld'
  BY <1>1, <1>2 DEF ReleaseMeansHeld, OnPush, OnRelease
<1>5. HandlersFitMode' /\ ArmedByHandler' /\ BlinksUnlessPushed'
  BY <1>1 DEF HandlersFitMode, ArmedByHandler, BlinksUnlessPushed
<1>6. LitByHandler' /\ OtherGroupLit'
  BY <1>1 DEF LitByHandler, OtherGroupLit
<1> QED
  BY <1>3, <1>4, <1>5, <1>6

-----------------------------------------------------------------------------
(***************************************************************************)
(* The timer                                                               *)
(***************************************************************************)

\* Half a blink, which arms the channel that the next one expires on.
LEMMA BlinkKeeps == IInv /\ BlinkTimeout => IInv'
<1> SUFFICES ASSUME IInv, BlinkTimeout PROVE IInv'
  OBVIOUS
<1> USE DEF IInv, BlinkTimeout, Expires
<1>1. mode \in {"hours", "quarters"}
  BY DEF ArmedByHandler, TypeOK, Mode
<1>2. /\ armed' \subseteq {POWER_BAR_CHANNEL, SET_TIME_CHANNEL}
      /\ POWER_BAR_CHANNEL \in armed'
  BY DEF TypeOK
<1>3. lit' \subseteq {"hours", "quarters", "power"}
  BY DEF _blink, Toggled
<1>4. TypeOK'
  BY <1>2, <1>3 DEF TypeOK
<1>5. HandlersFitMode' /\ ReleaseMeansHeld'
  BY DEF HandlersFitMode, ReleaseMeansHeld
<1>6. ArmedByHandler' /\ LitByHandler'
  BY <1>1 DEF ArmedByHandler, LitByHandler
<1>7. BlinksUnlessPushed'
  BY <1>2 DEF BlinksUnlessPushed
<1>8. OtherGroupLit'
  BY <1>1 DEF OtherGroupLit, _blink, Toggled
<1> QED
  BY <1>4, <1>5, <1>6, <1>7, <1>8

\* _init_normal_mode: nothing armed, nothing lit, both buttons wait for a push.
LEMMA InitNormalModeKeeps ==
  ASSUME IInv, InitNormalMode, lights_on' \in BOOLEAN, UNCHANGED <<cur, held>>,
         rtc' \in [hour : 0..2 * HourMax - 1, min : 0..59]
  PROVE  IInv'
<1> USE DEF IInv, InitNormalMode
<1>1. light_led' \in BOOLEAN
  BY DEF TypeOK
<1>2. running' \in BOOLEAN
  OBVIOUS
<1>3. blinking' \in BOOLEAN
  OBVIOUS
<1>4. handler' \in [Button -> OnPush \cup OnRelease]
  BY DEF Button, OnPush, OnRelease
<1>5. TypeOK'
  BY <1>1, <1>2, <1>3, <1>4 DEF TypeOK, Mode
<1>6. HandlersFitMode' /\ ReleaseMeansHeld'
  BY DEF HandlersFitMode, ReleaseMeansHeld, Button, NormalHandler, OnRelease
<1>7. ArmedByHandler' /\ BlinksUnlessPushed' /\ LitByHandler' /\ OtherGroupLit'
  BY DEF ArmedByHandler, BlinksUnlessPushed, LitByHandler, OtherGroupLit
<1> QED
  BY <1>5, <1>6, <1>7

\* The light button was held.
LEMMA PowerBarKeeps == IInv /\ PowerBarTimeout => IInv'
<1> SUFFICES ASSUME IInv, PowerBarTimeout PROVE IInv'
  OBVIOUS
<1>1. lights_on' \in BOOLEAN /\ rtc \in [hour : 0..2 * HourMax - 1, min : 0..59]
  BY DEF IInv, TypeOK, PowerBarTimeout
<1>2. CASE mode # "off"
  BY <1>1, <1>2, InitNormalModeKeeps DEF PowerBarTimeout
<1>3. CASE mode = "off"
  <2> USE <1>3 DEF IInv, PowerBarTimeout, Expires, Register, _show_power
  <2>1. handler["light"] = "_btn_light_release"
    BY DEF ArmedByHandler
  <2>2. "light" \in held
    BY <2>1 DEF ReleaseMeansHeld, Button, OnRelease
  <2>3. handler' \in [Button -> OnPush \cup OnRelease]
    BY DEF TypeOK, OnRelease
  <2>4. lit' \subseteq {"hours", "quarters", "power"}
    BY DEF TypeOK
  <2>5. running' = FALSE /\ UNCHANGED <<light_led, blinking, mode, cur, rtc, held>>
    OBVIOUS
  <2>6. TypeOK'
    BY <1>1, <2>3, <2>4, <2>5 DEF TypeOK
  <2>7. HandlersFitMode' /\ ReleaseMeansHeld'
    BY <2>2 DEF HandlersFitMode, ReleaseMeansHeld, TypeOK, Button, NormalHandler
  <2>8. ArmedByHandler'
    BY DEF ArmedByHandler, TypeOK, Button
  <2>9. LitByHandler'
    BY DEF LitByHandler, TypeOK, Button
  <2>10. BlinksUnlessPushed' /\ OtherGroupLit'
    BY DEF BlinksUnlessPushed, OtherGroupLit
  <2> QED
    BY <2>6, <2>7, <2>8, <2>9, <2>10
<1> QED
  BY <1>2, <1>3

\* The time button was held: both buttons get the handlers of set mode.
LEMMA NextModeKeeps == IInv /\ NextModeTimeout => IInv'
<1> SUFFICES ASSUME IInv, NextModeTimeout PROVE IInv'
  OBVIOUS
<1> USE DEF IInv, NextModeTimeout, _return_to_blink
<1>1. mode' \in {"hours", "quarters"}
  OBVIOUS
<1>2. handler' \in [Button -> OnPush \cup OnRelease]
  BY DEF Button, OnPush, OnRelease
<1>3. blinking' \in BOOLEAN
  OBVIOUS
<1>4. running' \in BOOLEAN
  OBVIOUS
<1>5. armed' \subseteq {POWER_BAR_CHANNEL, SET_TIME_CHANNEL}
  BY DEF TypeOK
<1>6. TypeOK'
  BY <1>1, <1>2, <1>3, <1>4, <1>5 DEF TypeOK, Mode
<1>7. HandlersFitMode' /\ ReleaseMeansHeld'
  BY <1>1 DEF HandlersFitMode, ReleaseMeansHeld, Button, NormalHandler, OnRelease
<1>8. ArmedByHandler' /\ LitByHandler'
  BY <1>1 DEF ArmedByHandler, LitByHandler
<1>9. BlinksUnlessPushed' /\ OtherGroupLit'
  BY DEF BlinksUnlessPushed, OtherGroupLit
<1> QED
  BY <1>6, <1>7, <1>8, <1>9

\* The clock is set to the time that was chosen.
LEMMA TimeSetKeeps == IInv /\ TimeSetTimeout => IInv'
<1> SUFFICES ASSUME IInv, TimeSetTimeout PROVE IInv'
  OBVIOUS
<1>1. lights_on' \in BOOLEAN /\ rtc' \in [hour : 0..2 * HourMax - 1, min : 0..59]
  BY TimeKept DEF IInv, TypeOK, TimeSetTimeout
<1> QED
  BY <1>1, InitNormalModeKeeps DEF TimeSetTimeout

-----------------------------------------------------------------------------
(***************************************************************************)
(* Every step                                                              *)
(***************************************************************************)

LEMMA StepIInv == IInv /\ [Next]_vars => IInv'
<1> SUFFICES ASSUME IInv, [Next]_vars PROVE IInv'
  OBVIOUS
<1>1. CASE Buttons
  BY <1>1, NormalButtonsKeep, SetButtonsKeep, IgnoredEdgeKeeps DEF Buttons
<1>2. CASE _timeout
  BY <1>2, BlinkKeeps, PowerBarKeeps, NextModeKeeps, TimeSetKeeps DEF _timeout
<1>3. CASE RtcTicks \/ UNCHANGED vars
  <2>1. UNCHANGED <<lights_on, light_led, blinking, mode, cur, held, handler,
                    running, armed, lit>>
    BY <1>3 DEF RtcTicks, vars
  <2>2. rtc' \in [hour : 0..2 * HourMax - 1, min : 0..59]
    BY <1>3, WandAssumption DEF RtcTicks, vars, IInv, TypeOK
  <2>3. TypeOK'
    BY <2>1, <2>2 DEF IInv, TypeOK
  <2>4. /\ HandlersFitMode' /\ ReleaseMeansHeld' /\ ArmedByHandler'
        /\ BlinksUnlessPushed' /\ LitByHandler' /\ OtherGroupLit'
    BY <2>1 DEF IInv, HandlersFitMode, ReleaseMeansHeld, ArmedByHandler,
                BlinksUnlessPushed, LitByHandler, OtherGroupLit
  <2> QED
    BY <2>3, <2>4 DEF IInv
<1> QED
  BY <1>1, <1>2, <1>3 DEF Next

\* The inductive invariant holds in every reachable state.
THEOREM Invariance == Spec => []IInv
<1>1. Init => IInv
  BY InitIInv
<1>2. IInv /\ [Next]_vars => IInv'
  BY StepIInv
<1> QED
  BY <1>1, <1>2, PTL DEF Spec

\* Both buttons always have handlers of the current mode, so that the default
\* branches of _do_decrement and _do_increment are never taken.
THEOREM HandlersAlwaysFit == Spec => []HandlersFitMode
BY Invariance, PTL DEF IInv

\* The wand is never left dead in set mode: with no button held it blinks, and
\* the timer that makes it blink is armed (_blink and the handlers of main.c).
THEOREM SetModeStaysAlive == Spec => []SetModeBlinks
<1>1. IInv => SetModeBlinks
  BY DEF IInv, TypeOK, ReleaseMeansHeld, BlinksUnlessPushed, SetModeBlinks
<1> QED
  BY <1>1, Invariance, PTL

\* No timeout outlives the button it was set for in normal mode: each release
\* clears the channel its push had set.
THEOREM TimeoutsNeedButtons == Spec => []ArmedMeansHeld
<1>1. IInv => ArmedMeansHeld
  BY DEF IInv, ReleaseMeansHeld, ArmedByHandler, ArmedMeansHeld, Button, OnRelease
<1> QED
  BY <1>1, Invariance, PTL

\* The groups of LEDs that are lit fit the mode, and what they show is an hour
\* and a half-quarter (_btn_*, _show_* and _do_* of main.c).
THEOREM DisplayAlwaysFits == Spec => []DisplayFitsMode
<1>1. IInv => DisplayFitsMode
  BY DEF IInv, ReleaseMeansHeld, LitByHandler, OtherGroupLit, DisplayFitsMode,
         Button, OnRelease
<1> QED
  BY <1>1, Invariance, PTL

\* Setting the clock and reading it back gives the time that was chosen: the
\* roundings of the two conversions of main.c cancel.
THEOREM SetTimeIsShown == Spec => TimeSetIsTimeShown
<1>1. IInv /\ [Next]_vars => [TimeSetTimeout => TimeGet(rtc') = cur]_vars
  BY TimeKept DEF IInv, TypeOK, TimeSetTimeout
<1> QED
  BY <1>1, Invariance, PTL DEF Spec, TimeSetIsTimeShown

=============================================================================
