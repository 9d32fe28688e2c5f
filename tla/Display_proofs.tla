---------------------------- MODULE Display_proofs ----------------------------
(***************************************************************************)
(* Theorems about the display node for every scale of points, every drop,  *)
(* every difficulty and every POST.                                        *)
(*                                                                         *)
(* Two arguments meet.  While the flag is not set neither the button nor a *)
(* POST has touched the points since main woke, so that what main did last *)
(* still stands (Quiet).  And whoever holds the mutex, a zero that is not  *)
(* notified was notified before, because neither the button nor a drain    *)
(* gets to zero unnoticed, and of a POST that does, and of a notification  *)
(* that fails, the history keeps account (Notified).                       *)
(***************************************************************************)
EXTENDS Display, Dino, TLAPS

-----------------------------------------------------------------------------
(***************************************************************************)
(* The inductive invariant                                                 *)
(***************************************************************************)

MainAt == {"boot", "register", "victory", "lock", "write", "reset", "leds", "notify", "noted",
           "unlock", "dif", "report", "sleep", "timer", "wait"}
GcoapAt == {"idle", "lock", "write", "leds", "notify", "noted", "unlock", "report",
            "set"}

\* Where each thread can be, and what its register can hold.
PlacesOK ==
  /\ pc \in [Thread -> MainAt \cup GcoapAt]
  /\ pc["main"] \in MainAt /\ pc["gcoap"] \in GcoapAt
  /\ tmp \in [Thread -> Int]
  /\ pc["gcoap"] \in {"write", "report", "set"} => tmp["gcoap"] \in Nat

\* A streak is lived at the top unless the button or a POST meddled, and never
\* so low that one drain takes all unless a POST did; main finds out about the
\* rest between its write of the points and its reset of the streak.
Streak ==
  in_victory > 0 /\ pc["main"] # "reset" =>
    /\ ~lowered => points > DropValue
    /\ ~meddled => points >= PointsMax - ResetThreshold

\* Between a thread's read of the points and its note that they were notified.
Changing == \E t \in Thread : pc[t] \in {"write", "reset", "leds", "notify", "noted"}

SawZero == seen_points \in {"nobody", "zero"} \/ missed

\* When the last notification was a zero, only the button has changed the
\* points since, or a thread is at it; and that thread will notify a zero, or
\* need not, or is a POST that finds points and leaves its mark.
Notified ==
  /\ ~Changing /\ last_notified = 0 =>
       points > DropValue \/ (points = 0 /\ SawZero)
  /\ pc["main"] = "write" /\ last_notified = 0 /\ tmp["main"] = 0 => SawZero
  /\ pc["gcoap"] = "write" /\ last_notified = 0 /\ points = 0 => SawZero
  /\ \A t \in Thread :
       /\ pc[t] \in {"reset", "leds"} /\ last_notified = 0 /\ points = 0 => SawZero
       /\ pc[t] = "noted" /\ points = 0 => SawZero

\* With the flag not set, no POST of points is under way, and what main has
\* shown, noted and seen of the points is still so.
Quiet ==
  ~flag =>
    /\ pc["gcoap"] \in {"idle", "report", "set"}
    /\ pc["main"] \in {"notify", "noted", "unlock", "dif", "report", "sleep",
                       "wait"} => leds = (points > 0)
    /\ pc["main"] \in {"unlock", "dif", "report", "sleep", "wait"} =>
         last_notified = points
    /\ pc["main"] = "wait" => points = 0
    /\ light /\ ~unfair =>
         /\ pc["main"] = "lock" => points > DropValue
         /\ pc["main"] = "write" => tmp["main"] > 0
         /\ pc["main"] \in {"reset", "leds", "notify", "noted", "unlock", "dif",
                            "report", "sleep", "wait"} => points > 0

\* TypeOK in two parts: the flags and lights, and the rest.
BoolsOK ==
  /\ flag \in BOOLEAN /\ light \in BOOLEAN /\ leds \in BOOLEAN
  /\ missed \in BOOLEAN /\ meddled \in BOOLEAN /\ lowered \in BOOLEAN
  /\ unfair \in BOOLEAN

RangesOK ==
  /\ points \in 0..PointsMax /\ last_notified \in 0..PointsMax
  /\ in_victory \in 0..VictoryMod - 1
  /\ difficulty \in 1..DifficultyMax /\ last_reported \in 0..DifficultyMax
  /\ mutex \in Thread \cup {"free"}
  /\ \A t \in Thread : mutex = t <=> pc[t] \in {"write", "reset", "leds", "notify",
                                                "noted", "unlock"}
  /\ tmp["main"] \in 0..PointsMax
  /\ seen_points \in {"nobody", "zero", "some"}

IInv == TypeOK /\ PlacesOK /\ Streak /\ Notified /\ Quiet

LEMMA TypeParts == TypeOK <=> BoolsOK /\ RangesOK
BY DEF TypeOK, BoolsOK, RangesOK

LEMMA TypePartsNext == BoolsOK' /\ RangesOK' => TypeOK'
BY DEF TypeOK, BoolsOK, RangesOK

-----------------------------------------------------------------------------
(***************************************************************************)
(* Arithmetic of the constants                                             *)
(***************************************************************************)

\* A victory's points, and those the button sets, are more than a drain takes.
LEMMA Scale ==
  /\ PointsMax \in Nat /\ DropValue \in Nat \ {0} /\ PointsMax > DropValue
  /\ PointsMax - ResetThreshold \in Nat /\ PointsMax - ResetThreshold <= PointsMax
  /\ PointsMax - ResetThreshold > DropValue
  /\ PointsMod \in Nat \ {0} /\ VictoryMod \in Nat \ {0}
  /\ VictoryCond \in Nat \ {0} /\ DifficultyMax \in Nat \ {0}
BY DisplayAssumption

LEMMA PointsForRange ==
  ASSUME NEW d \in 1..DifficultyMax
  PROVE  PointsFor(d) \in Nat /\ PointsFor(d) > DropValue /\ PointsFor(d) <= PointsMax
<1> DEFINE m == DifficultyMax
           q == PointsMax \div m
           x == d * PointsMax
<1>1. m \in Nat \ {0} /\ PointsMax \in Nat /\ d \in 1..m /\ DropValue \in Nat
  BY Scale
<1>2. q \in Nat /\ q * m <= PointsMax /\ q > DropValue
  BY DisplayAssumption, <1>1
<1>3. x \in Nat /\ x <= PointsMax * m /\ x >= q * m
  BY <1>1, <1>2
<1> HIDE DEF m, q, x
<1>4. x \div m \in Nat /\ x \div m <= PointsMax /\ x \div m >= q
  BY <1>1, <1>2, <1>3
<1> QED
  BY <1>1, <1>2, <1>4 DEF PointsFor, x, m

-----------------------------------------------------------------------------
(***************************************************************************)
(* The initial states                                                      *)
(***************************************************************************)

LEMMA InitIInv == Init => IInv
<1> SUFFICES ASSUME Init PROVE IInv
  OBVIOUS
<1> USE Scale DEF Init, Thread
<1>1. TypeOK
  <2>1. BoolsOK
    BY Zenon DEF BoolsOK
  <2>2. RangesOK
    BY DisplayAssumption DEF RangesOK
  <2> QED
    BY <2>1, <2>2, TypeParts
<1>2. PlacesOK
  BY DEF PlacesOK, MainAt, GcoapAt
<1>3. Streak /\ Notified
  BY DEF Streak, Notified
<1>4. Quiet
  BY DEF Quiet
<1> QED
  BY <1>1, <1>2, <1>3, <1>4 DEF IInv

-----------------------------------------------------------------------------
(***************************************************************************)
(* The button                                                              *)
(***************************************************************************)

\* The button may meddle with everything but gets nowhere near zero, and sets
\* the flag.
LEMMA ButtonKeeps == IInv /\ _incr_difficulty => IInv'
<1> SUFFICES ASSUME IInv, _incr_difficulty PROVE IInv'
  OBVIOUS
<1> USE Scale DEF IInv, _incr_difficulty, Thread
<1>1. difficulty' \in 1..DifficultyMax
  BY DEF TypeOK
<1>2. points' \in Nat /\ points' > DropValue /\ points' <= PointsMax
  BY <1>1, PointsForRange
<1>3. flag' = TRUE /\ meddled' = TRUE
  OBVIOUS
<1>4. TypeOK'
  BY <1>1, <1>2, <1>3 DEF TypeOK
<1>5. PlacesOK'
  BY DEF PlacesOK
<1>6. Streak'
  BY <1>2, <1>3 DEF Streak
<1>7. Notified'
  BY <1>2 DEF Notified, Changing, SawZero
<1>8. Quiet'
  BY <1>3 DEF Quiet
<1> QED
  BY <1>4, <1>5, <1>6, <1>7, <1>8

-----------------------------------------------------------------------------
(***************************************************************************)
(* Steps that only move the main thread                                    *)
(***************************************************************************)

\* main's steps that change nothing but its place and the flag, none of them
\* with the mutex held.
MainMove == \/ Boot \/ Registered \/ CheckDifficulty \/ GoToSleep \/ TimerWakes
            \/ FlagWakes

LEMMA MainMoves == IInv /\ MainMove => IInv'
<1> SUFFICES ASSUME IInv, MainMove PROVE IInv'
  OBVIOUS
<1> USE Scale DEF IInv, MainMove, Boot, Registered, CheckDifficulty, GoToSleep,
                  TimerWakes, FlagWakes, Goto, pointVars, difficultyVars, restVars, Thread
<1>1. PlacesOK'
  BY DEF PlacesOK, MainAt, GcoapAt
<1>2. TypeOK'
  <2>1. BoolsOK'
    <3>1. UNCHANGED <<light, leds, missed, meddled, lowered, unfair>>
      OBVIOUS
    <3>2. flag' = flag \/ flag' = FALSE
      BY Zenon
    <3> QED
      BY <3>1, <3>2, TypeParts, Zenon DEF BoolsOK
  <2>2. RangesOK'
    <3>1. CASE Boot \/ Registered
      BY <3>1, TypeParts DEF RangesOK, PlacesOK, MainAt, GcoapAt
    <3>2. CASE CheckDifficulty \/ GoToSleep
      BY <3>2, TypeParts DEF RangesOK, PlacesOK, MainAt, GcoapAt
    <3>3. CASE TimerWakes \/ FlagWakes
      BY <3>3, TypeParts DEF RangesOK, PlacesOK, MainAt, GcoapAt
    <3> QED
      BY <3>1, <3>2, <3>3
  <2> QED
    BY <2>1, <2>2, TypePartsNext
<1>3. Streak'
  BY DEF Streak, PlacesOK
<1>4. Notified'
  BY DEF Notified, Changing, SawZero, PlacesOK
<1>5. Quiet'
  <2>1. CASE Boot \/ Registered
    BY <2>1 DEF Quiet, PlacesOK, TypeOK, Runs
  <2>2. CASE CheckDifficulty
    BY <2>2 DEF Quiet, PlacesOK, TypeOK, Runs
  <2>3. CASE GoToSleep
    BY <2>3 DEF Quiet, PlacesOK, TypeOK, Runs
  <2>4. CASE TimerWakes \/ FlagWakes
    BY <2>4 DEF Quiet, PlacesOK, TypeOK, Runs
  <2> QED
    BY <2>1, <2>2, <2>3, <2>4
<1> QED
  BY <1>1, <1>2, <1>3, <1>4, <1>5

-----------------------------------------------------------------------------
(***************************************************************************)
(* _display_points, in either thread                                       *)
(***************************************************************************)

\* The strip shows the points; a zero noted last need not be notified again.
LEMMA ShowLedsKeeps ==
  ASSUME IInv, NEW t \in Thread, ShowLeds(t) PROVE IInv'
<1> USE Scale DEF IInv, ShowLeds, Goto, Runs, Thread,
                  pointVars, difficultyVars, restVars
<1>1. PlacesOK'
  BY DEF PlacesOK, MainAt, GcoapAt, TypeOK
<1>2. TypeOK'
  <2>1. BoolsOK'
    <3>1. UNCHANGED <<flag, light, missed, meddled, lowered, unfair>>
      OBVIOUS
    <3>2. leds' \in BOOLEAN
      <4>1. leds' = (points > 0) \/ leds' = FALSE
        BY Zenon
      <4>2. (points > 0) \in BOOLEAN
        OBVIOUS
      <4> QED
        BY ONLY <4>1, <4>2, Zenon
    <3> QED
      BY <3>1, <3>2, TypeParts, Zenon DEF BoolsOK
  <2>2. RangesOK'
    BY TypeParts DEF RangesOK, PlacesOK, MainAt, GcoapAt
  <2> QED
    BY <2>1, <2>2, TypePartsNext
<1>3. Streak'
  BY DEF Streak, PlacesOK, TypeOK
<1>4. Notified'
  BY DEF Notified, Changing, SawZero, PlacesOK, TypeOK
<1>5. Quiet'
  BY DEF Quiet, PlacesOK, TypeOK
<1> QED
  BY <1>1, <1>2, <1>3, <1>4, <1>5

\* The observers are sent what _points is by now.
LEMMA NotifyKeeps ==
  ASSUME IInv, NEW t \in Thread, NotifyPoints(t) PROVE IInv'
<1> USE Scale DEF IInv, NotifyPoints, Goto, Runs, Thread,
                  pointVars, difficultyVars, restVars
<1>1. PlacesOK'
  BY DEF PlacesOK, MainAt, GcoapAt, TypeOK
<1>2. TypeOK'
  <2>1. BoolsOK'
    <3>1. UNCHANGED <<flag, light, leds, meddled, lowered, unfair>>
      OBVIOUS
    <3>2. missed' \in BOOLEAN
      BY Zenon
    <3> QED
      BY <3>1, <3>2, TypeParts, Zenon DEF BoolsOK
  <2>2. RangesOK'
    BY TypeParts DEF RangesOK, PlacesOK, MainAt, GcoapAt, Shown
  <2> QED
    BY <2>1, <2>2, TypePartsNext
<1>3. Streak'
  BY DEF Streak, PlacesOK, TypeOK
<1>4. Notified'
  <2>1. Changing'
    BY DEF Changing, PlacesOK, TypeOK
  <2>2. points' = 0 => SawZero'
    BY DEF SawZero, Shown
  <2>3. /\ \A u \in Thread : pc'[u] \notin {"write", "reset", "leds"}
        /\ pc'["main"] # "write" /\ pc'["gcoap"] # "write"
    BY DEF PlacesOK, TypeOK
  <2> QED
    BY <2>1, <2>2, <2>3 DEF Notified
<1>5. Quiet'
  BY DEF Quiet, PlacesOK, TypeOK
<1> QED
  BY <1>1, <1>2, <1>3, <1>4, <1>5

\* What is noted is what _points is by then, which the button may have
\* changed, but not to zero.
LEMMA NoteKeeps ==
  ASSUME IInv, NEW t \in Thread, NotePoints(t) PROVE IInv'
<1> USE Scale DEF IInv, NotePoints, Goto, Runs, Thread,
                  pointVars, difficultyVars, restVars
<1>1. PlacesOK'
  BY DEF PlacesOK, MainAt, GcoapAt, TypeOK
<1>2. TypeOK'
  BY DEF TypeOK, PlacesOK, MainAt, GcoapAt
<1>3. Streak'
  BY DEF Streak, PlacesOK, TypeOK
<1>4. Notified'
  BY DEF Notified, Changing, SawZero, PlacesOK, TypeOK
<1>5. Quiet'
  BY DEF Quiet, PlacesOK, TypeOK
<1> QED
  BY <1>1, <1>2, <1>3, <1>4, <1>5

\* The mutex is given back.
LEMMA UnlockKeeps ==
  ASSUME IInv, NEW t \in Thread, Unlock(t) PROVE IInv'
<1> USE Scale DEF IInv, Unlock, Goto, Runs, Thread,
                  pointVars, difficultyVars, restVars
<1>1. PlacesOK'
  BY DEF PlacesOK, MainAt, GcoapAt, TypeOK
<1>2. TypeOK'
  BY DEF TypeOK, PlacesOK, MainAt, GcoapAt
<1>3. Streak'
  BY DEF Streak, PlacesOK, TypeOK
<1>4. Notified'
  BY DEF Notified, Changing, SawZero, PlacesOK, TypeOK
<1>5. Quiet'
  BY DEF Quiet, PlacesOK, TypeOK
<1> QED
  BY <1>1, <1>2, <1>3, <1>4, <1>5

\* Reports of the difficulty leave the points alone.
LEMMA DifficultyKeeps ==
  ASSUME IInv, NEW t \in Thread, ReportDifficulty(t) PROVE IInv'
<1> USE Scale DEF IInv, ReportDifficulty, Goto, Runs, Thread,
                  pointVars, difficultyVars, restVars
<1>1. PlacesOK'
  BY DEF PlacesOK, MainAt, GcoapAt, TypeOK
<1>2. TypeOK'
  BY DEF TypeOK, PlacesOK, MainAt, GcoapAt
<1>3. Streak'
  BY DEF Streak, PlacesOK, TypeOK
<1>4. Notified'
  BY DEF Notified, Changing, SawZero, PlacesOK, TypeOK
<1>5. Quiet'
  BY DEF Quiet, PlacesOK, TypeOK
<1> QED
  BY <1>1, <1>2, <1>3, <1>4, <1>5

-----------------------------------------------------------------------------
(***************************************************************************)
(* The gcoap thread                                                        *)
(***************************************************************************)

\* A POST of points sets the flag before anything else.
LEMMA ReceivePointsKeeps ==
  ASSUME IInv, NEW p \in Int, ReceivePoints(p) PROVE IInv'
<1> USE Scale DEF IInv, ReceivePoints, Goto, Runs, Thread,
                  pointVars, difficultyVars, restVars
<1>1. PlacesOK'
  BY DEF PlacesOK, MainAt, GcoapAt, TypeOK
<1>2. TypeOK'
  BY DEF TypeOK, PlacesOK, MainAt, GcoapAt
<1>3. Streak'
  BY DEF Streak, PlacesOK, TypeOK
<1>4. Notified'
  BY DEF Notified, Changing, SawZero, PlacesOK, TypeOK
<1>5. Quiet'
  BY DEF Quiet, PlacesOK, TypeOK
<1> QED
  BY <1>1, <1>2, <1>3, <1>4, <1>5

\* The sum is taken modulo the width of the points, and may be lower than they.
LEMMA AddPointsKeeps == IInv /\ AddPoints => IInv'
<1> SUFFICES ASSUME IInv, AddPoints PROVE IInv'
  OBVIOUS
<1> USE Scale DEF IInv, AddPoints, Goto, Runs, Thread,
                  pointVars, difficultyVars, restVars
<1>1. PlacesOK'
  BY DEF PlacesOK, MainAt, GcoapAt, TypeOK
<1>2. TypeOK'
  BY DEF TypeOK, PlacesOK, MainAt, GcoapAt
<1>3. Streak'
  BY DEF Streak, PlacesOK, TypeOK
<1>4. Notified'
  BY DEF Notified, Changing, SawZero, PlacesOK, TypeOK
<1>5. Quiet'
  BY DEF Quiet, PlacesOK, TypeOK
<1> QED
  BY <1>1, <1>2, <1>3, <1>4, <1>5

\* It is stored, over whatever the button did meanwhile.
LEMMA StoreIncrementKeeps == IInv /\ StoreIncrement => IInv'
<1> SUFFICES ASSUME IInv, StoreIncrement PROVE IInv'
  OBVIOUS
<1> USE Scale DEF IInv, StoreIncrement, Goto, Runs, Thread,
                  pointVars, difficultyVars, restVars
<1>1. PlacesOK'
  BY DEF PlacesOK, MainAt, GcoapAt, TypeOK
<1>6. points' \in 0..PointsMax /\ (points' >= points \/ points' < points)
  BY DEF TypeOK, PlacesOK
<1>7. points' < points => lowered' /\ meddled'
  BY Zenon
<1>8. (lowered => lowered') /\ (meddled => meddled')
  BY Zenon
<1>2. TypeOK'
  <2>1. BoolsOK'
    <3>1. UNCHANGED <<flag, light, leds, unfair>>
      OBVIOUS
    <3>2. lowered' \in BOOLEAN /\ meddled' \in BOOLEAN /\ missed' \in BOOLEAN
      BY Zenon
    <3> QED
      BY <3>1, <3>2, TypeParts, Zenon DEF BoolsOK
  <2>2. RangesOK'
    BY <1>6, TypeParts DEF RangesOK, PlacesOK, MainAt, GcoapAt
  <2> QED
    BY <2>1, <2>2, TypePartsNext
<1>3. Streak'
  <2>1. pc["main"] # "reset" /\ pc'["main"] = pc["main"]
    BY DEF PlacesOK, TypeOK
  <2>2. points' >= points \/ (lowered' /\ meddled')
    BY <1>6, <1>7
  <2>3. CASE in_victory' = in_victory
    BY <1>6, <1>8, <2>1, <2>2, <2>3 DEF Streak, TypeOK
  <2>4. CASE points' = PointsMax
    BY <2>4 DEF Streak
  <2> QED
    BY <2>3, <2>4
<1>4. Notified'
  <2>1. pc["gcoap"] = "write" /\ pc'["gcoap"] = "leds" /\ pc'["main"] = pc["main"]
        /\ pc["main"] \notin {"write", "reset", "leds", "notify", "noted", "unlock"}
    BY DEF PlacesOK, TypeOK
  <2>2. Changing'
    BY <2>1 DEF Changing
  <2>3. points' = 0 /\ last_notified' = 0 => SawZero'
    <3>1. UNCHANGED <<last_notified, seen_points>> /\ (missed => missed')
      BY Zenon
    <3>2. points \in Nat /\ seen_points \in {"nobody", "zero", "some"}
      BY DEF TypeOK
    <3>3. CASE points = 0
      BY <2>1, <3>1, <3>3 DEF Notified, SawZero
    <3>4. CASE points' < points /\ points' = last_notified /\ seen_points = "some"
      <4>1. missed'
        BY <3>4, Zenon DEF LoweredToLastNotified
      <4> QED
        BY <4>1 DEF SawZero
    <3> QED
      BY <3>1, <3>2, <3>3, <3>4 DEF SawZero
  <2> QED
    BY <2>1, <2>2, <2>3 DEF Notified
<1>5. Quiet'
  BY DEF Quiet, PlacesOK, TypeOK
<1> QED
  BY <1>1, <1>2, <1>3, <1>4, <1>5

\* A POST of a difficulty, and its end, leave the points alone.
LEMMA PostDifficultyKeeps ==
  ASSUME IInv, NEW d \in Nat, ReceiveDifficulty(d) \/ SetDifficulty PROVE IInv'
<1> USE Scale DEF IInv, ReceiveDifficulty, SetDifficulty, Goto, Runs, Thread,
                  pointVars, difficultyVars, restVars
<1>1. PlacesOK'
  BY DEF PlacesOK, MainAt, GcoapAt, TypeOK
<1>2. TypeOK'
  BY DEF TypeOK, PlacesOK, MainAt, GcoapAt
<1>3. Streak'
  BY DEF Streak, PlacesOK, TypeOK
<1>4. Notified'
  BY DEF Notified, Changing, SawZero, PlacesOK, TypeOK
<1>5. Quiet'
  BY DEF Quiet, PlacesOK, TypeOK
<1> QED
  BY <1>1, <1>2, <1>3, <1>4, <1>5

\* Who starts to observe is told the points as they are.
LEMMA ObserveKeeps == IInv /\ ObservePoints => IInv'
<1> SUFFICES ASSUME IInv, ObservePoints PROVE IInv'
  OBVIOUS
<1> USE Scale DEF IInv, ObservePoints, Goto, Runs, Thread,
                  pointVars, difficultyVars, restVars
<1>1. PlacesOK'
  BY DEF PlacesOK, MainAt, GcoapAt, TypeOK
<1>2. TypeOK'
  BY DEF TypeOK, PlacesOK, MainAt, GcoapAt, Shown
<1>3. Streak'
  BY DEF Streak, PlacesOK, TypeOK
<1>4. Notified'
  BY DEF Notified, Changing, SawZero, PlacesOK, TypeOK, Shown
<1>5. Quiet'
  BY DEF Quiet, PlacesOK, TypeOK
<1> QED
  BY <1>1, <1>2, <1>3, <1>4, <1>5

-----------------------------------------------------------------------------
(***************************************************************************)
(* The main thread's drain                                                 *)
(***************************************************************************)

\* The victory light is lit for a streak, with more points than a drain takes.
LEMMA CheckVictoryKeeps == IInv /\ CheckVictory => IInv'
<1> SUFFICES ASSUME IInv, CheckVictory PROVE IInv'
  OBVIOUS
<1> USE Scale DEF IInv, CheckVictory, Victorious, Goto, Runs, Thread,
                  pointVars, difficultyVars, restVars
<1>1. PlacesOK'
  BY DEF PlacesOK, MainAt, GcoapAt, TypeOK
<1>2. TypeOK'
  BY DEF TypeOK, PlacesOK, MainAt, GcoapAt
<1>3. Streak'
  BY DEF Streak, PlacesOK, TypeOK
<1>4. Notified'
  BY DEF Notified, Changing, SawZero, PlacesOK, TypeOK
<1>5. Quiet'
  <2>1. pc["main"] = "victory" /\ pc'["main"] = "lock" /\ pc'["gcoap"] = pc["gcoap"]
    BY DEF PlacesOK
  <2>2. light' /\ ~unfair' => points > DropValue
    <3>1. in_victory \in Nat
      BY DEF TypeOK
    <3>2. Victorious => in_victory > 0
      BY <3>1
    <3>3. light' = Victorious /\ unfair' = (Victorious /\ lowered)
      OBVIOUS
    <3> HIDE DEF Victorious, CheckVictory
    <3>4. light' /\ ~unfair' => Victorious /\ ~lowered
      BY <3>3, Zenon
    <3> QED
      BY <2>1, <3>2, <3>4 DEF Streak
  <2>3. UNCHANGED <<flag, points>>
    OBVIOUS
  <2> QED
    BY <2>1, <2>2, <2>3 DEF Quiet
<1> QED
  BY <1>1, <1>2, <1>3, <1>4, <1>5

\* A drain to zero was from few points, and then a zero was notified before only
\* if they were zero already.
LEMMA ReadPointsKeeps == IInv /\ ReadPoints => IInv'
<1> SUFFICES ASSUME IInv, ReadPoints PROVE IInv'
  OBVIOUS
<1> USE Scale DEF IInv, ReadPoints, Goto, Runs, Thread,
                  pointVars, difficultyVars, restVars
<1>1. PlacesOK'
  BY DEF PlacesOK, MainAt, GcoapAt, TypeOK
<1>2. TypeOK'
  BY DEF TypeOK, PlacesOK, MainAt, GcoapAt
<1>3. Streak'
  BY DEF Streak, PlacesOK, TypeOK
<1>4. Notified'
  BY DEF Notified, Changing, SawZero, PlacesOK, TypeOK
<1>5. Quiet'
  BY DEF Quiet, PlacesOK, TypeOK
<1> QED
  BY <1>1, <1>2, <1>3, <1>4, <1>5

\* It is stored, over whatever the button did meanwhile.
LEMMA StoreDecrementKeeps == IInv /\ StoreDecrement => IInv'
<1> SUFFICES ASSUME IInv, StoreDecrement PROVE IInv'
  OBVIOUS
<1> USE Scale DEF IInv, StoreDecrement, Goto, Runs, Thread,
                  pointVars, difficultyVars, restVars
<1>1. PlacesOK'
  BY DEF PlacesOK, MainAt, GcoapAt, TypeOK
<1>2. TypeOK'
  <2>1. BoolsOK'
    <3>1. UNCHANGED <<flag, light, leds, missed, unfair>>
      OBVIOUS
    <3>2. meddled' = FALSE /\ lowered' = FALSE
      BY Zenon
    <3> QED
      BY <3>1, <3>2, TypeParts, Zenon DEF BoolsOK
  <2>2. RangesOK'
    BY TypeParts DEF RangesOK, PlacesOK, MainAt, GcoapAt
  <2> QED
    BY <2>1, <2>2, TypePartsNext
<1>3. Streak'
  BY DEF Streak, PlacesOK, TypeOK
<1>4. Notified'
  BY DEF Notified, Changing, SawZero, PlacesOK, TypeOK
<1>5. Quiet'
  BY DEF Quiet, PlacesOK, TypeOK
<1> QED
  BY <1>1, <1>2, <1>3, <1>4, <1>5

\* A streak is reset unless the points are still at the top.
LEMMA ResetVictoryKeeps == IInv /\ ResetVictory => IInv'
<1> SUFFICES ASSUME IInv, ResetVictory PROVE IInv'
  OBVIOUS
<1> USE Scale DEF IInv, ResetVictory, Goto, Runs, Thread,
                  pointVars, difficultyVars, restVars
<1>1. PlacesOK'
  BY DEF PlacesOK, MainAt, GcoapAt, TypeOK
<1>2. TypeOK'
  BY DEF TypeOK, PlacesOK, MainAt, GcoapAt
<1>3. Streak'
  BY DEF Streak, PlacesOK, TypeOK
<1>4. Notified'
  BY DEF Notified, Changing, SawZero, PlacesOK, TypeOK
<1>5. Quiet'
  BY DEF Quiet, PlacesOK, TypeOK
<1> QED
  BY <1>1, <1>2, <1>3, <1>4, <1>5

-----------------------------------------------------------------------------
(***************************************************************************)
(* Every step keeps it                                                     *)
(***************************************************************************)

LEMMA SharedKeeps ==
  ASSUME IInv, NEW t \in Thread, Shared(t) PROVE IInv'
<1>1. CASE ShowLeds(t)
  BY <1>1, ShowLedsKeeps
<1>2. CASE NotifyPoints(t)
  BY <1>2, NotifyKeeps
<1>3. CASE NotePoints(t)
  BY <1>3, NoteKeeps
<1>4. CASE Unlock(t)
  BY <1>4, UnlockKeeps
<1>5. CASE ReportDifficulty(t)
  BY <1>5, DifficultyKeeps
<1> QED
  BY <1>1, <1>2, <1>3, <1>4, <1>5 DEF Shared

LEMMA StepIInv == IInv /\ [Next]_vars => IInv'
<1> SUFFICES ASSUME IInv, [Next]_vars PROVE IInv'
  OBVIOUS
<1>1. CASE _incr_difficulty
  BY <1>1, ButtonKeeps
<1>2. CASE Main
  <2>1. CASE Shared("main")
    BY <2>1, SharedKeeps DEF Thread
  <2> QED
    BY <1>2, <2>1, MainMoves, CheckVictoryKeeps, ReadPointsKeeps, StoreDecrementKeeps,
       ResetVictoryKeeps DEF Main, MainMove
<1>3. CASE Handler
  <2>1. CASE Shared("gcoap")
    BY <2>1, SharedKeeps DEF Thread
  <2>2. CASE SetDifficulty
    <3>1. 0 \in Nat
      OBVIOUS
    <3> QED
      BY <2>2, <3>1, PostDifficultyKeeps
  <2> QED
    BY <1>3, <2>1, <2>2, AddPointsKeeps, StoreIncrementKeeps DEF Handler
<1>4. CASE Request
  <2>1. ASSUME NEW p \in Posts, ReceivePoints(p) PROVE IInv'
    BY <2>1, ReceivePointsKeeps, DisplayAssumption
  <2>2. ASSUME NEW d \in Difficulties, ReceiveDifficulty(d) PROVE IInv'
    BY <2>2, PostDifficultyKeeps, DisplayAssumption
  <2> QED
    BY <1>4, <2>1, <2>2, ObserveKeeps DEF Request
<1>5. CASE UNCHANGED vars
  BY <1>5 DEF vars, IInv, TypeOK, PlacesOK, Streak, Notified, Changing, SawZero, Quiet
<1> QED
  BY <1>1, <1>2, <1>3, <1>4, <1>5 DEF Next

\* The inductive invariant holds in every state the display can reach.
THEOREM Invariance == Spec => []IInv
<1> QED
  BY InitIInv, StepIInv, PTL DEF Spec

-----------------------------------------------------------------------------
(***************************************************************************)
(* What it implies                                                         *)
(***************************************************************************)

\* Whenever the main thread sleeps on its flag and nothing is under way, the
\* points are zero, and the strip, the light, the note of the last notification
\* and every observer agree, but for a notification that failed and for what a
\* POST of negative points leaves (main.c's loop, _display_points,
\* _notify_points).
THEOREM SleepsOnlySettled == Spec => []AsleepMeansSettled
<1>1. IInv => AsleepMeansSettled
  <2> SUFFICES ASSUME IInv, pc["main"] = "wait", ~flag, pc["gcoap"] = "idle"
               PROVE  Settled
    BY DEF AsleepMeansSettled, IInv
  <2>1. points = 0 /\ last_notified = 0
    BY DEF IInv, Quiet
  <2>2. light => unfair
    BY <2>1 DEF IInv, Quiet
  <2>5. ~leds
    <3>1. leds = (points > 0)
      BY DEF IInv, Quiet
    <3>2. (points > 0) = FALSE
      BY <2>1
    <3> QED
      BY <3>1, <3>2, Zenon
  <2>3. ~Changing
    BY DEF Changing, Thread
  <2>4. SawZero
    BY <2>1, <2>3, Scale DEF IInv, Notified
  <2> QED
    BY <2>1, <2>2, <2>4, <2>5 DEF SawZero, Settled
<1> QED
  BY <1>1, Invariance, PTL

\* A victory the main thread posts is one of a scale that is still full, or of
\* one the button or a POST has lowered just now (main.c's _in_victory_cond).
THEOREM VictoriesComeFromTheTop == Spec => []VictoryFromTheTop
<1>1. IInv => VictoryFromTheTop
  <2> SUFFICES ASSUME IInv, pc["main"] = "victory", Victorious, ~meddled
               PROVE  points >= PointsMax - ResetThreshold
    BY DEF VictoryFromTheTop
  <2>1. in_victory > 0
    BY Scale DEF IInv, TypeOK, Victorious
  <2> QED
    BY <2>1 DEF IInv, Streak
<1> QED
  BY <1>1, Invariance, PTL

-----------------------------------------------------------------------------
(***************************************************************************)
(* The dino: nothing stays on without a timer to stop it, and the LED      *)
(* shows the motor.  The second needs to know what an interrupt leaves     *)
(* behind for a thread that is about to write the motor's pin.             *)
(***************************************************************************)

DinoTypeOK ==
  /\ {led, motor, clear_timer, irq, hit} \subseteq BOOLEAN
  /\ step \in [DinoThread -> {"init", "sleep", "set", "move", "arm", "spin", "off", "idle"}]

\* No handler runs before main has registered the listener.
BootsAlone == step["main"] \in {"init", "sleep"} => step["gcoap"] = "off"

AtMove == \E t \in DinoThread : step[t] = "move"

\* A thread about to write the motor finds the LED on, unless it was hit.
LedOnAtMove == AtMove /\ ~led => hit

DinoInv == DinoTypeOK /\ BootsAlone /\ NeverLeftOn /\ LedOnAtMove /\ LedShowsMotor

USE DEF DinoThread, At, BootsAlone

\* Nothing is on before the boot.
LEMMA InitDino == DinoInit => DinoInv
  BY DEF DinoInit, DinoInv, DinoTypeOK, AtMove, LedOnAtMove,
         NeverLeftOn, LedShowsMotor

\* The interrupts write both, and remember whom they hit.
LEMMA InterruptKeepsDino ==
  ASSUME DinoInv, _toggle_dino \/ _clear_dino \/ _reboot
  PROVE  DinoInv'
<1>1. CASE _toggle_dino
  BY <1>1 DEF _toggle_dino, WriteBoth, DinoInv, DinoTypeOK, AtMove, LedOnAtMove, NeverLeftOn,
              LedShowsMotor
<1>2. CASE _clear_dino
  BY <1>2 DEF _clear_dino, WriteBoth, DinoInv, DinoTypeOK, AtMove, LedOnAtMove, NeverLeftOn,
              LedShowsMotor
<1>3. CASE _reboot
  BY <1>3 DEF _reboot, DinoInv, DinoTypeOK, AtMove, LedOnAtMove,
              NeverLeftOn, LedShowsMotor
<1> QED BY <1>1, <1>2, <1>3

\* Either thread's three writes, from any point of the other.
LEMMA SetDinoKeeps ==
  ASSUME DinoInv, NEW t \in DinoThread, _set_dino(t)
  PROVE  DinoInv'
<1>1. CASE SetLed(t)
  BY <1>1 DEF SetLed, Steps, DinoInv, DinoTypeOK, AtMove, LedOnAtMove, NeverLeftOn,
              LedShowsMotor
<1>2. CASE SetMotor(t)
  BY <1>2 DEF SetMotor, Steps, DinoInv, DinoTypeOK, AtMove, LedOnAtMove, NeverLeftOn,
              LedShowsMotor
<1>3. CASE ArmClearTimer(t)
  BY <1>3 DEF ArmClearTimer, Steps, pins, DinoInv, DinoTypeOK, AtMove, LedOnAtMove, NeverLeftOn,
              LedShowsMotor
<1> QED BY <1>1, <1>2, <1>3 DEF _set_dino

\* The steps that touch neither LED nor motor.
LEMMA RestKeepsDino ==
  ASSUME DinoInv, DinoBoots \/ Requests \/ UNCHANGED dinoVars
  PROVE  DinoInv'
<1>1. CASE DinoBoots
  BY <1>1 DEF DinoBoots, Steps, pins, DinoInv, DinoTypeOK, AtMove, LedOnAtMove, NeverLeftOn,
              LedShowsMotor
<1>2. CASE Requests
  BY <1>2 DEF Requests, _dino_move, luke_reboot, Steps, pins, DinoInv, DinoTypeOK, AtMove,
              LedOnAtMove, NeverLeftOn, LedShowsMotor
<1>3. CASE UNCHANGED dinoVars
  BY <1>3 DEF dinoVars, pins, DinoInv, DinoTypeOK, AtMove, LedOnAtMove,
              NeverLeftOn, LedShowsMotor
<1> QED BY <1>1, <1>2, <1>3

LEMMA StepDino == DinoInv /\ [DinoNext]_dinoVars => DinoInv'
<1> SUFFICES ASSUME DinoInv, [DinoNext]_dinoVars PROVE DinoInv'
  OBVIOUS
<1>1. CASE _toggle_dino \/ _clear_dino \/ _reboot
  BY <1>1, InterruptKeepsDino
<1>2. CASE \E t \in DinoThread : _set_dino(t)
  BY <1>2, SetDinoKeeps
<1>3. CASE DinoBoots \/ Requests \/ UNCHANGED dinoVars
  BY <1>3, RestKeepsDino
<1> QED BY <1>1, <1>2, <1>3 DEF DinoNext, Threads

\* The inductive invariant holds throughout.
THEOREM DinoInvariance == DinoSpec => []DinoInv
  BY InitDino, StepDino, PTL DEF DinoSpec

\* dino/main.c never leaves LED or motor on for good.
THEOREM DinoStops == DinoSpec => []NeverLeftOn
<1>1. DinoInv => NeverLeftOn
  BY DEF DinoInv
<1> QED BY <1>1, DinoInvariance, PTL

\* LED0 shows the motor, but for what an interrupt does between the two writes.
THEOREM LedShows == DinoSpec => []LedShowsMotor
<1>1. DinoInv => LedShowsMotor
  BY DEF DinoInv
<1> QED BY <1>1, DinoInvariance, PTL

=============================================================================
