---------------------------- MODULE Jugend_proofs ----------------------------
(***************************************************************************)
(* Theorems about the button and the dino of jugend-hackt-2018-10, for     *)
(* every set of targets, every path and size of its buffer, every round of *)
(* the clock, every second and every number of presses and copies.         *)
(*                                                                         *)
(* The five parts of the inductive invariant have nothing to do with each  *)
(* other: what the buffer of the path holds of the path given last, what   *)
(* becomes of a press and of a request, how the clock stands to the last request, and what  *)
(* the dino's two toggles have left of each other.                         *)
(***************************************************************************)
EXTENDS Jugend, FiniteSetTheorems, SequenceTheorems, TLAPS

-----------------------------------------------------------------------------
(***************************************************************************)
(* The inductive invariant                                                 *)
(***************************************************************************)

Byte == {End} \cup UNION {ToSet(p) : p \in Paths}
Target == [remote : Remotes, path : [1..PathLen -> Byte], given : Paths \cup {<<>>},
           longest : Nat]

\* The buffer begins with the path given last, as far as it goes, and what no path
\* has reached yet still ends the string; an empty path ends it at once.
HoldsGiven(t) ==
  /\ t \in Target
  /\ Len(t.given) <= t.longest
  /\ \A i \in 1..PathLen : i <= Len(t.given) => t.path[i] = t.given[i]
  /\ \A i \in t.longest + 1..PathLen : t.path[i] = End
  /\ t.given = <<>> => t.path[1] = End

PathInv == HoldsGiven(target)

InHand == IF pc \in Posting THEN 1 ELSE 0
UnderWay == IF moving THEN 1 ELSE 0

PressInv ==
  /\ pc \in {"init", "boot", "recv"} \cup Posting
  /\ pressed \in Nat /\ lost \in Nat /\ refused \in Nat /\ sent \in Nat
  /\ pressed = lost + refused + sent + InHand

\* A request, or a copy of one, is in the air or moves the dino.
MoveInv ==
  /\ moving \in BOOLEAN
  /\ air \in Nat /\ copies \in Nat /\ moves \in Nat /\ sent \in Nat
  /\ moves + air + UnderWay <= sent + copies

\* Until age is at its bound, the clock is as far from the last request as age
\* says, or has come round since.
ClockInv ==
  /\ clock \in 0..ClockMod - 1 /\ last_sent \in 0..ClockMod - 1 /\ age \in 0..ClockMod
  /\ ~Overran /\ age < ClockMod =>
       clock = last_sent + age \/ clock = last_sent + age - ClockMod

\* The first of the two toggles makes them differ, the second agree again.
DinoInv ==
  /\ led \in BOOLEAN /\ motor \in BOOLEAN /\ moving \in BOOLEAN
  /\ moving <=> led # motor

IInv == PathInv /\ PressInv /\ MoveInv /\ ClockInv /\ DinoInv

-----------------------------------------------------------------------------
(***************************************************************************)
(* The string in a buffer                                                  *)
(***************************************************************************)

\* A set of naturals up to n that is not empty has a least element: the one
\* below which the fewest are.
LEMMA Least ==
  ASSUME NEW n \in Nat, NEW S \in SUBSET (1..n), S # {}
  PROVE  Min(S) \in S /\ \A y \in S : Min(S) <= y
<1> DEFINE Below(x) == {y \in S : y < x}
           Belows == {Below(x) : x \in S}
<1>1. IsFiniteSet(S) /\ \A y \in S : y \in Nat
  BY FS_BoundedSetOfNaturals
<1>2. IsWellFoundedOn(StrictSubsetOrdering(S), SUBSET S)
  BY <1>1, FS_StrictSubsetOrderingWellFounded, FS_FiniteSubsetsOfFinite
<1>3. Belows \subseteq SUBSET S /\ Belows # {}
  OBVIOUS
<1>4. PICK B \in Belows : \A C \in Belows : <<C, B>> \notin StrictSubsetOrdering(S)
  <2> DEFINE Subsets == SUBSET S
             R == StrictSubsetOrdering(S)
  <2>1. IsWellFoundedOn(R, Subsets) /\ Belows \subseteq Subsets /\ Belows # {}
    BY <1>2, <1>3
  <2> HIDE DEF Belows, Subsets, R
  <2>2. \E B \in Belows : \A C \in Belows : ~(<<C, B>> \in R)
    BY <2>1, WFMin
  <2> QED
    BY <2>2 DEF R
<1>5. PICK x \in S : B = Below(x)
  OBVIOUS
<1>6. ASSUME NEW y \in S, y < x PROVE FALSE
  <2>1. Below(y) \subseteq Below(x)
    <3>1. \A z \in S : z < y => z < x
      BY <1>1, <1>6
    <3> QED
      BY <3>1
  <2>2. y \in Below(x) /\ y \notin Below(y)
    BY <1>1, <1>6
  <2>3. <<Below(y), B>> \in StrictSubsetOrdering(S)
    BY <1>5, <2>1, <2>2 DEF StrictSubsetOrdering
  <2> QED
    BY <1>4, <2>3
<1>7. \A y \in S : x <= y
  BY <1>1, <1>6
<1> QED
  BY <1>7 DEF Min

\* A path of the table is a sequence of bytes, and holds no End.
LEMMA PathBytes ==
  ASSUME NEW p \in Paths
  PROVE  /\ p \in Seq(Byte) /\ Len(p) \in Nat /\ Len(p) >= 1
         /\ \A i \in 1..Len(p) : p[i] \in Byte /\ p[i] # End
<1>1. p \in Seq(ToSet(p)) /\ p # <<>> /\ End \notin ToSet(p)
  BY JugendAssumption
<1>2. ToSet(p) \subseteq Byte
  BY DEF Byte
<1>3. \A i \in 1..Len(p) : p[i] \in ToSet(p)
  BY <1>1, ElementOfSeq
<1> QED
  BY <1>1, <1>2, <1>3, SeqMonotonic

\* Whatever is read from a buffer begins with the path it holds, and is that path
\* if none was longer and there is an end behind it.
LEMMA GivenBack ==
  ASSUME NEW t, HoldsGiven(t), NEW s \in StringsIn(t.path)
  PROVE  /\ t.given = <<>> => s = <<>>
         /\ Begins(s, t.given)
         /\ t.longest < PathLen /\ Len(t.given) >= t.longest => s = t.given
<1> DEFINE buf == t.path
           g == t.given
           ends == {i \in 1..PathLen : buf[i] = End}
           n == Min(ends) - 1
<1>1. /\ PathLen \in Nat /\ PathLen >= 1 /\ buf \in [1..PathLen -> Byte]
      /\ t.longest \in Nat /\ Len(g) <= t.longest
      /\ \A i \in 1..PathLen : i <= Len(g) => buf[i] = g[i]
      /\ \A i \in t.longest + 1..PathLen : buf[i] = End
      /\ g = <<>> => buf[1] = End
  BY JugendAssumption DEF HoldsGiven, Target
<1>2. g \in Seq(Byte) /\ Len(g) \in Nat /\ \A i \in 1..Len(g) : g[i] # End
  <2>1. CASE g = <<>>
    BY <2>1
  <2>2. CASE g # <<>>
    BY <2>2, PathBytes DEF HoldsGiven, Target
  <2> QED
    BY <2>1, <2>2
<1>3. buf \in Seq(Byte) /\ Len(buf) = PathLen
  BY <1>1
<1>4. CASE ends = {}
  <2>1. PICK b \in Behind : s = buf \o b
    BY <1>4 DEF StringsIn
  <2>2. b \in Seq(ToSet(b))
    BY JugendAssumption
  <2>3. \A i \in 1..PathLen : i <= Len(s) /\ s[i] = buf[i]
    <3> DEFINE All == Byte \cup ToSet(b)
    <3>1. buf \in Seq(All) /\ b \in Seq(All)
      BY <1>3, <2>2, SeqMonotonic
    <3> HIDE DEF All, buf
    <3> QED
      BY <1>1, <1>3, <2>1, <3>1, ConcatProperties, LenProperties
  <2>4. Begins(s, g)
    BY <1>1, <1>2, <2>3 DEF Begins
  <2>5. g # <<>>
    BY <1>1, <1>4
  <2>6. ~(t.longest < PathLen)
    <3>1. t.longest < PathLen => PathLen \in t.longest + 1..PathLen
      BY <1>1
    <3> QED
      BY <1>1, <1>4, <3>1
  <2> QED
    BY <2>4, <2>5, <2>6
<1>5. CASE ends # {}
  <2>1. Min(ends) \in ends /\ \A y \in ends : Min(ends) <= y
    <3>1. ends \in SUBSET (1..PathLen)
      OBVIOUS
    <3> HIDE DEF ends
    <3> QED
      BY <1>1, <1>5, <3>1, Least
  <2>2. s = SubSeq(buf, 1, n)
    BY <1>5 DEF StringsIn
  <2>3. n \in 0..PathLen - 1 /\ \A i \in 1..n : buf[i] # End
    <3>1. Min(ends) \in 1..PathLen
      BY <2>1
    <3>2. \A i \in 1..PathLen : buf[i] = End => Min(ends) <= i
      BY <2>1
    <3> HIDE DEF ends, buf
    <3> QED
      BY <1>1, <3>1, <3>2
  <2>4. s \in Seq(Byte) /\ Len(s) = n /\ \A i \in 1..n : s[i] = buf[i]
    <3> HIDE DEF n
    <3> QED
      BY <1>1, <1>3, <2>2, <2>3, SubSeqProperties
  <2>5. n + 1 \in 1..PathLen /\ buf[n + 1] = End
    <3>1. Min(ends) \in 1..PathLen /\ buf[Min(ends)] = End
      BY <2>1
    <3> HIDE DEF ends, buf
    <3> QED
      BY <3>1
  <2> HIDE DEF n
  <2>6. Len(g) <= n
    <3> SUFFICES ASSUME n + 1 <= Len(g) PROVE FALSE
      BY <1>2, <2>3
    <3>1. buf[n + 1] = g[n + 1] /\ n + 1 \in 1..Len(g)
      BY <1>1, <1>2, <2>3, <2>5
    <3> QED
      BY <1>2, <2>5, <3>1
  <2>7. Begins(s, g)
    BY <1>1, <1>2, <2>3, <2>4, <2>6 DEF Begins
  <2>8. g = <<>> => s = <<>>
    <3>1. ASSUME g = <<>> PROVE n = 0
      <4>1. buf[1] = End /\ (1 \in 1..n => buf[1] # End) /\ n \in Nat
        BY <1>1, <2>3, <3>1
      <4> QED
        BY <4>1
    <3> QED
      BY <2>4, <3>1
  <2>9. t.longest < PathLen /\ Len(g) >= t.longest => s = g
    <3> SUFFICES ASSUME t.longest < PathLen, Len(g) >= t.longest PROVE s = g
      OBVIOUS
    <3>1. Len(g) + 1 \in t.longest + 1..PathLen /\ Len(g) + 1 \in 1..PathLen
      BY <1>1, <1>2
    <3>2. buf[Len(g) + 1] = End
      BY <1>1, <3>1
    <3>3. n = Len(g)
      BY <1>2, <2>3, <2>6, <3>1, <3>2
    <3>4. \A i \in 1..Len(s) : s[i] = g[i]
      BY <1>1, <1>2, <2>3, <2>4, <3>3
    <3> HIDE DEF g
    <3> QED
      BY <1>2, <2>4, <3>3, <3>4, SeqEqual
  <2> QED
    BY <2>7, <2>8, <2>9
<1> QED
  BY <1>4, <1>5

-----------------------------------------------------------------------------
(***************************************************************************)
(* What one key of a payload makes of a target                             *)
(***************************************************************************)

\* A path as long as the longest since boot covers all that those left.
LEMMA CopyHolds ==
  ASSUME NEW t, HoldsGiven(t), NEW p \in Paths \cup {<<>>}, NEW u \in PathGiven(t, p)
  PROVE  HoldsGiven(u)
<1>1. /\ PathLen \in Nat /\ PathLen >= 1
      /\ t.path \in [1..PathLen -> Byte] /\ t.longest \in Nat /\ t.remote \in Remotes
      /\ \A i \in t.longest + 1..PathLen : t.path[i] = End
  BY JugendAssumption DEF HoldsGiven, Target
<1>2. /\ u.remote \in Remotes /\ u.path = CopyPath(t.path, p) /\ u.given = p
      /\ u.longest = IF Len(p) > t.longest THEN Len(p) ELSE t.longest
      /\ u = [remote |-> u.remote, path |-> u.path, given |-> u.given,
              longest |-> u.longest]
  BY <1>1 DEF PathGiven
<1>3. CASE p = <<>>
  <2>1. Len(p) = 0 /\ u.longest = t.longest
    BY <1>1, <1>2, <1>3
  <2>2. u.path = [t.path EXCEPT ![1] = End]
    BY <1>2, <1>3 DEF CopyPath
  <2>3. u.path \in [1..PathLen -> Byte] /\ u.path[1] = End
    BY <1>1, <2>2 DEF Byte
  <2>4. u \in Target
    BY <1>1, <1>2, <2>1, <2>3 DEF Target
  <2>5. \A i \in u.longest + 1..PathLen : u.path[i] = End
    BY <1>1, <2>1, <2>2
  <2> QED
    BY <1>1, <1>2, <2>1, <2>3, <2>4, <2>5 DEF HoldsGiven
<1>4. CASE p # <<>>
  <2>1. p \in Paths /\ Len(p) \in Nat /\ \A i \in 1..Len(p) : p[i] \in Byte
    BY <1>4, PathBytes
  <2>2. u.path = [i \in 1..PathLen |-> IF i <= Len(p) THEN p[i] ELSE t.path[i]]
    BY <1>2, <1>4 DEF CopyPath
  <2>3. u.path \in [1..PathLen -> Byte]
    BY <1>1, <2>1, <2>2
  <2>4. u.longest \in Nat /\ u.longest >= Len(p) /\ u.longest >= t.longest
    BY <1>1, <1>2, <2>1
  <2>5. u \in Target
    BY <1>1, <1>2, <2>1, <2>3, <2>4 DEF Target
  <2>6. \A i \in 1..PathLen : i <= Len(p) => u.path[i] = p[i]
    BY <1>1, <2>1, <2>2
  <2>7. \A i \in u.longest + 1..PathLen : u.path[i] = End
    BY <1>1, <2>1, <2>2, <2>4
  <2> QED
    BY <1>2, <1>4, <2>4, <2>5, <2>6, <2>7 DEF HoldsGiven
<1> QED
  BY <1>3, <1>4

\* Whatever the key, the buffer holds the path given last, and no path is forgotten
\* that was longer.
LEMMA KeyHolds ==
  ASSUME NEW t, HoldsGiven(t), NEW u \in SetKey(t)
  PROVE  HoldsGiven(u) /\ u.longest >= t.longest
<1>0. t \in Target /\ t.longest \in Nat
  BY DEF HoldsGiven, Target
<1>1. CASE \E r \in make_sock_ep(t.remote) : u = [t EXCEPT !.remote = r]
  <2>1. PICK r \in make_sock_ep(t.remote) : u = [t EXCEPT !.remote = r]
    BY <1>1
  <2>2. r \in Remotes
    BY <1>0 DEF make_sock_ep, Remotes, Target
  <2>3. u \in Target /\ u.path = t.path /\ u.given = t.given /\ u.longest = t.longest
    BY <1>0, <2>1, <2>2 DEF Target
  <2> QED
    BY <1>0, <2>3 DEF HoldsGiven
<1>2. CASE \E p \in Paths \cup {<<>>} : u \in PathGiven(t, p)
  <2>1. PICK p \in Paths \cup {<<>>} : u \in PathGiven(t, p)
    BY <1>2
  <2>2. Len(p) \in Nat
    <3>1. CASE p = <<>>
      BY <3>1
    <3>2. CASE p # <<>>
      BY <3>2, PathBytes
    <3> QED
      BY <3>1, <3>2
  <2>3. u.longest = IF Len(p) > t.longest THEN Len(p) ELSE t.longest
    BY <2>1 DEF PathGiven
  <2> QED
    BY <1>0, <2>1, <2>2, <2>3, CopyHolds
<1> QED
  BY <1>1, <1>2 DEF SetKey

\* A request sets up to two keys.
LEMMA TargetHolds ==
  ASSUME HoldsGiven(target), _set_target
  PROVE  HoldsGiven(target') /\ (Overran => Overran')
<1>0. target.longest \in Nat /\ PathLen \in Nat
  BY JugendAssumption DEF HoldsGiven, Target
<1>1. CASE target' \in SetKey(target)
  <2>1. HoldsGiven(target') /\ target'.longest >= target.longest
    BY <1>1, KeyHolds
  <2> QED
    BY <1>0, <2>1 DEF Overran, HoldsGiven, Target
<1>2. CASE \E t \in SetKey(target) : target' \in SetKey(t)
  <2>1. PICK t \in SetKey(target) : target' \in SetKey(t)
    BY <1>2
  <2>2. HoldsGiven(t) /\ t.longest >= target.longest
    BY KeyHolds
  <2>3. HoldsGiven(target') /\ target'.longest >= t.longest
    BY <2>1, <2>2, KeyHolds
  <2> QED
    BY <1>0, <2>2, <2>3 DEF Overran, HoldsGiven, Target
<1> QED
  BY <1>1, <1>2 DEF _set_target

-----------------------------------------------------------------------------
(***************************************************************************)
(* Invariance                                                              *)
(***************************************************************************)

LEMMA InitIInv == Init => IInv
<1> SUFFICES ASSUME Init PROVE IInv
  OBVIOUS
<1> USE JugendAssumption DEF Init
<1>1. PathInv
  <2>1. Len(<<>>) = 0 /\ PathLen \in Nat /\ PathLen >= 1
    OBVIOUS
  <2>2. target.remote \in Remotes
    BY DEF Remotes
  <2>3. target.path \in [1..PathLen -> Byte] /\ \A i \in 1..PathLen : target.path[i] = End
    BY DEF Byte
  <2>4. target \in Target
    BY <2>1, <2>2, <2>3 DEF Target
  <2> QED
    BY <2>1, <2>3, <2>4 DEF PathInv, HoldsGiven
<1>2. PressInv /\ MoveInv /\ ClockInv
  <2>1. PressInv /\ ClockInv
    BY DEF PressInv, InHand, Posting, ClockInv
  <2>2. moving \in BOOLEAN /\ UnderWay = 0
    BY DEF UnderWay
  <2> QED
    BY <2>1, <2>2 DEF MoveInv
<1>3. DinoInv
  <2>1. led \in BOOLEAN /\ motor \in BOOLEAN /\ moving \in BOOLEAN
    OBVIOUS
  <2> QED
    BY <2>1 DEF DinoInv
<1> QED
  BY <1>1, <1>2, <1>3 DEF IInv

\* Only a request sets the target.
LEMMA PathKept == PathInv /\ [Next]_vars => PathInv'
<1> SUFFICES ASSUME PathInv, [Next]_vars PROVE PathInv'
  OBVIOUS
<1>1. CASE _set_target
  BY <1>1, TargetHolds DEF PathInv
<1>2. CASE UNCHANGED target
  BY <1>2 DEF PathInv
<1> QED
  BY <1>1, <1>2 DEF Next, vars, _button_press, _enable_button, Boot, Refuse, Check,
                    InitRequest, SendRequest, Tick, Copy, ToggleByHand, _dino_move

\* A press is in one place.
LEMMA PressesKept == PressInv /\ [Next]_vars => PressInv'
<1> SUFFICES ASSUME PressInv, [Next]_vars PROVE PressInv'
  OBVIOUS
<1> USE DEF PressInv, InHand, Posting, button, post
<1>1. CASE _button_press \/ _enable_button \/ Boot
  BY <1>1 DEF _button_press, _enable_button, Boot
<1>2. CASE Refuse \/ Check \/ InitRequest \/ SendRequest
  BY <1>2 DEF Refuse, Refused, Check, InitRequest, SendRequest
<1>3. CASE UNCHANGED <<pc, pressed, lost, refused, sent>>
  BY <1>3
<1> QED
  BY <1>1, <1>2, <1>3 DEF Next, vars, _set_target, Tick, Copy, ToggleByHand, _dino_move

\* A request is in the air or moves the dino.
LEMMA MovesKept == MoveInv /\ [Next]_vars => MoveInv'
<1> SUFFICES ASSUME MoveInv, [Next]_vars PROVE MoveInv'
  OBVIOUS
<1>1. CASE SendRequest
  <2>1. air' = air \/ air' = air + 1
    BY <1>1 DEF SendRequest
  <2>2. sent' = sent + 1 /\ UNCHANGED <<copies, moves, moving>>
    BY <1>1 DEF SendRequest, dino
  <2> QED
    BY <2>1, <2>2 DEF MoveInv, UnderWay
<1>2. CASE Copy
  BY <1>2 DEF MoveInv, UnderWay, Copy, dino, post
<1>3. CASE _dino_move
  <2>1. UNCHANGED <<sent, copies>>
    BY <1>3 DEF _dino_move, post
  <2>2. CASE ~moving /\ air > 0 /\ air' = air - 1 /\ FirstToggle
    <3>1. moving' = TRUE /\ moves' = moves
      BY <2>2 DEF FirstToggle
    <3>2. UnderWay = 0 /\ UnderWay' = 1
      BY <2>2, <3>1 DEF UnderWay
    <3>3. moving' \in BOOLEAN
      BY <3>1
    <3> QED
      BY <2>1, <2>2, <3>1, <3>2, <3>3 DEF MoveInv
  <2>3. CASE moving /\ SecondToggle /\ UNCHANGED air
    <3>1. moving' = FALSE /\ moves' = moves + 1 /\ air' = air
      BY <2>3 DEF SecondToggle
    <3>2. UnderWay = 1 /\ UnderWay' = 0
      BY <2>3, <3>1 DEF UnderWay
    <3>3. moving' \in BOOLEAN
      BY <3>1
    <3> QED
      BY <2>1, <3>1, <3>2, <3>3 DEF MoveInv
  <2> QED
    BY <1>3, <2>2, <2>3 DEF _dino_move
<1>4. CASE UNCHANGED <<moving, air, copies, moves, sent>>
  BY <1>4 DEF MoveInv, UnderWay
<1> QED
  BY <1>1, <1>2, <1>3, <1>4 DEF Next, vars, net, dino, post, _button_press, _enable_button,
                    _set_target, Boot, Refuse, Check, InitRequest, Tick, ToggleByHand

\* The clock and age count together; a request starts age again.
LEMMA ClockKept == PathInv /\ ClockInv /\ [Next]_vars => ClockInv'
<1> SUFFICES ASSUME PathInv, ClockInv, [Next]_vars PROVE ClockInv'
  OBVIOUS
<1> USE JugendAssumption DEF ClockInv
<1>1. CASE Tick
  <2>1. clock' = IF clock + 1 = ClockMod THEN 0 ELSE clock + 1
    BY <1>1 DEF Tick
  <2>2. Overran' = Overran
    BY <1>1 DEF Tick, Overran
  <2> QED
    BY <1>1, <2>1, <2>2 DEF Tick
<1>2. CASE InitRequest
  <2>1. Overran' = Overran
    BY <1>2 DEF InitRequest, Overran
  <2> QED
    BY <1>2, <2>1 DEF InitRequest
<1>3. CASE _set_target
  <2>1. Overran => Overran'
    BY <1>3, TargetHolds DEF PathInv
  <2>2. UNCHANGED <<clock, age>> /\ last_sent' \in 0..ClockMod - 1
    BY <1>3 DEF _set_target
  <2>3. ~Overran' => last_sent' = last_sent
    BY <1>3 DEF _set_target
  <2> QED
    BY <2>1, <2>2, <2>3
<1>4. CASE UNCHANGED <<clock, last_sent, age, target>>
  BY <1>4 DEF Overran
<1> QED
  BY <1>1, <1>2, <1>3, <1>4 DEF Next, vars, post, _button_press, _enable_button, Boot,
                    Refuse, Check, SendRequest, Copy, ToggleByHand, _dino_move

\* The dino's own button toggles both at once.
LEMMA DinoKept == DinoInv /\ [Next]_vars => DinoInv'
<1> SUFFICES ASSUME DinoInv, [Next]_vars PROVE DinoInv'
  OBVIOUS
<1>1. CASE ToggleByHand
  BY <1>1 DEF DinoInv, ToggleByHand, _toggle_dino
<1>2. CASE _dino_move
  <2>1. CASE ~moving /\ FirstToggle
    BY <2>1 DEF DinoInv, FirstToggle
  <2>2. CASE moving /\ SecondToggle
    BY <2>2 DEF DinoInv, SecondToggle
  <2> QED
    BY <1>2, <2>1, <2>2 DEF _dino_move
<1>3. CASE UNCHANGED dino
  BY <1>3 DEF DinoInv, dino
<1> QED
  BY <1>1, <1>2, <1>3 DEF Next, vars, dino, _button_press, _enable_button, _set_target,
                          Boot, Refuse, Check, InitRequest, SendRequest, Tick, Copy

\* The inductive invariant holds in every state the two nodes can reach.
THEOREM Invariance == Spec => []IInv
<1>1. IInv /\ [Next]_vars => IInv'
  BY PathKept, PressesKept, MovesKept, ClockKept, DinoKept DEF IInv
<1> QED
  BY InitIInv, <1>1, PTL DEF Spec

-----------------------------------------------------------------------------
(***************************************************************************)
(* What it implies                                                         *)
(***************************************************************************)

\* The path the button's main thread copies into a request is the one given last,
\* but for what a longer one left behind it or, when the buffer is full, for what is
\* behind that (button/main.c's strncpy).
THEOREM PathIsAsGiven == Spec => []PathAsGiven
<1>1. PathInv => PathAsGiven
  BY GivenBack DEF PathInv, PathAsGiven
<1> QED
  BY <1>1, Invariance, PTL DEF IInv

\* Every press is lost, refused, sent or in hand, and in one way only, and the dino
\* is moved once at most for each request that was sent and each copy of one
\* (button/main.c's loop, dino/main.c's handler).
THEOREM EachPressIsOne == Spec => []EachPressOnce
<1>1. PressInv /\ MoveInv => EachPressOnce
  <2> SUFFICES ASSUME PressInv, MoveInv PROVE EachPressOnce
    OBVIOUS
  <2> DEFINE hand == {pc} \cap Posting
  <2>1. Cardinality(hand) = InHand
    <3>1. CASE pc \in Posting
      <4>1. hand = {pc}
        BY <3>1
      <4> QED
        BY <3>1, <4>1, FS_Singleton DEF InHand
    <3>2. CASE pc \notin Posting
      <4>1. hand = {}
        BY <3>2
      <4> QED
        BY <3>2, <4>1, FS_EmptySet DEF InHand
    <3> QED
      BY <3>1, <3>2
  <2> DEFINE way == {moving} \cap {TRUE}
  <2>2. Cardinality(way) = UnderWay
    <3>1. CASE moving
      <4>1. way = {TRUE}
        BY <3>1 DEF MoveInv
      <4> QED
        BY <3>1, <4>1, FS_Singleton DEF UnderWay
    <3>2. CASE ~moving
      <4>1. way = {}
        BY <3>2
      <4> QED
        BY <3>2, <4>1, FS_EmptySet DEF UnderWay
    <3> QED
      BY <3>1, <3>2
  <2> QED
    BY <2>1, <2>2 DEF PressInv, MoveInv, EachPressOnce
<1> QED
  BY <1>1, Invariance, PTL DEF IInv

\* LED0 shows what the motor does whenever no request is between the two
\* (dino/main.c).
THEOREM LedShows == Spec => []LedShowsMotor
<1>1. DinoInv => LedShowsMotor
  BY DEF DinoInv, LedShowsMotor
<1> QED
  BY <1>1, Invariance, PTL DEF IInv

\* The throttle is wrong in the first second of a round of the clock, and for a
\* press after a round has ended since the last request, and at no other time, as
\* long as no path was longer than its buffer (button/main.c's comparison of
\* unsigned times).
THEOREM ThrottleErrsOnlyAtWrap == Spec => ThrottleErrsAtWrapOnly
<1> DEFINE A == pc = "throttle" /\ ~Overran =>
                  /\ Check => age >= Second \/ clock < Second
                  /\ Refuse => age < Second \/ last_sent + age >= ClockMod
<1>1. ClockInv => A
  <2> SUFFICES ASSUME ClockInv, pc = "throttle", ~Overran
               PROVE  /\ Check => age >= Second \/ clock < Second
                      /\ Refuse => age < Second \/ last_sent + age >= ClockMod
    OBVIOUS
  <2> USE JugendAssumption DEF ClockInv
  <2>1. Elapsed(Second, clock) = IF clock >= Second THEN clock - Second
                                 ELSE clock + ClockMod - Second
    BY DEF Elapsed
  <2>2. Check => age >= Second \/ clock < Second
    BY <2>1 DEF Check, LastSendTooRecent
  <2>3. Refuse => age < Second \/ last_sent + age >= ClockMod
    BY <2>1 DEF Refuse, Refused, LastSendTooRecent
  <2> QED
    BY <2>2, <2>3
<1>2. ClockInv => [A]_vars
  BY <1>1
<1> QED
  BY <1>2, Invariance, PTL DEF IInv, ThrottleErrsAtWrapOnly

=============================================================================
