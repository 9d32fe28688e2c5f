---------------------------- MODULE TimeRx_proofs ----------------------------
(***************************************************************************)
(* Theorems about the receiving experiment, for every size of a frame and  *)
(* of its headers, every range of payloads, every number of runs and every *)
(* window.                                                                 *)
(*                                                                         *)
(* That the fragments tile the datagram is arithmetic: the loop that       *)
(* copies sums up what each fragment has room for, the headers' offsets    *)
(* are computed apart from it, and both come to the same (RoomBeforeIs),   *)
(* since the headers that are not in the frame make up a multiple of eight *)
(* bytes.  That the lengths the loop starts from are those prepare made is *)
(* what Lengths carries from one datagram to the next.  The rest is the    *)
(* turns of main, the stack and the receiver (Turns, Stamped).             *)
(***************************************************************************)
EXTENDS TimeRx, FiniteSetTheorems, TLAPS

-----------------------------------------------------------------------------
(***************************************************************************)
(* The inductive invariant                                                 *)
(***************************************************************************)

\* What prepare_sixlowpan and reset_frag_buf leave for the loop.
Headers == Fragmented => \A f \in Fragment : frag_buf[f].hdr = FragOffset(f)
Lengths ==
  /\ Fragmented => \A f \in Fragment : frag_buf[f].len = HeaderLen(f)
  /\ frag_buf[0].len = HeaderLen(0)

\* Each fragment main raises the interrupt for has something in it.
EachHasContent == \A f \in 0..fragments - 1 : frag_buf[f].len > HeaderLen(f)

\* What is in the buffers when main is at its several places.
Buffers ==
  /\ pc # "done" => payload_size <= MaxPayload
  /\ pc = "fill" => Headers /\ Lengths
  /\ pc \in {"raise", "wait"} => Headers /\ EachHasContent
  /\ pc = "reset" => Headers

\* The stack is asked for one fragment at a time, and main has waited for it
\* when it asks for the next.
Turns ==
  /\ isr => pc = "wait" /\ sync = 0
  /\ pc # "wait" => sync = 0
  /\ pc \in {"raise", "wait"} => i < fragments
  /\ pc \in {"prepare", "fill", "done"} => _frag = 0
  /\ pc \in {"raise", "reset"} => _frag <= i
  /\ pc = "wait" => _frag <= i + sync

\* At most the datagram that main is at waits for the receiver, and its slot is
\* its own from the first fragment on.
Stamped ==
  /\ DOMAIN timer_window = 0..WindowSize - 1
  /\ udp = <<>> \/ udp = <<Datagram>>
  /\ isr => udp = <<>>
  /\ pc = "done" => udp = <<>>
  /\ _frag > 0 \/ udp # <<>> => timer_window[Slot(Datagram)] = Datagram

IInv == FragmentsTile /\ Buffers /\ Turns /\ Stamped

-----------------------------------------------------------------------------
(***************************************************************************)
(* Sizes                                                                   *)
(***************************************************************************)

\* What the first fragment has room for, what each other has, and what all
\* fragments before a fragment have together.
First == RoundDown(FrameSize - MhrLen - Frag1Len - IphcLen)
Other == RoundDown(FrameSize - MhrLen - FragNLen)
Before(f) == IF f = 0 THEN 0 ELSE First + (f - 1) * Other

\* Both are multiples of eight bytes, and the headers that are not in the frame
\* are one, too.
LEMMA Rooms ==
  /\ First \in Nat /\ First >= 8 /\ First % 8 = 0
  /\ Other \in Nat /\ Other >= 8 /\ Other % 8 = 0
  /\ First <= FrameSize - MhrLen - Frag1Len - IphcLen
  /\ Other <= FrameSize - MhrLen - FragNLen
  /\ RoundDown(FrameSize - MhrLen - Frag1Len - IphcLen + IpUdpLen) = First + IpUdpLen
BY TimeRxAssumption DEF First, Other, RoundDown, Frag1Len, FragNLen, IpUdpLen

\* One more fragment has room for as much more.
LEMMA BeforeStep ==
  ASSUME NEW f \in Nat
  PROVE  /\ Before(f) \in Nat
         /\ Before(f + 1) = Before(f) + (IF f = 0 THEN First ELSE Other)
<1>1. CASE f = 0
  BY <1>1, Rooms DEF Before
<1>2. CASE f # 0
  <2>1. f - 1 \in Nat /\ (f - 1) * Other \in Nat
    BY <1>2, Rooms
  <2>2. f * Other = (f - 1) * Other + Other
    BY <1>2, Rooms
  <2>3. (f + 1) - 1 = f /\ f + 1 # 0
    OBVIOUS
  <2> HIDE DEF First, Other
  <2> QED
    BY <1>2, <2>1, <2>2, <2>3, Rooms DEF Before
<1> QED BY <1>1, <1>2

\* The more fragments, the more room.
LEMMA BeforeGrows ==
  ASSUME NEW f \in Nat, NEW g \in Nat, f < g
  PROVE  Before(f) < Before(g)
<1>1. CASE f = 0
  <2>1. g - 1 \in Nat /\ (g - 1) * Other \in Nat
    BY <1>1, Rooms
  <2> QED
    BY <1>1, <2>1, Rooms DEF Before
<1>2. CASE f # 0
  <2>1. f - 1 \in Nat /\ g - 1 \in Nat /\ f - 1 < g - 1
    BY <1>2
  <2>2. (f - 1) * Other < (g - 1) * Other
    <3> DEFINE a == f - 1
               b == g - 1
    <3>1. a \in Nat /\ b \in Nat /\ a < b /\ Other \in Nat /\ Other > 0
      BY <2>1, Rooms
    <3> HIDE DEF a, b
    <3>2. a * Other < b * Other
      BY <3>1, SMTT(30)
    <3> QED
      BY <3>2 DEF a, b
  <2>3. (f - 1) * Other \in Nat /\ (g - 1) * Other \in Nat
    BY <2>1, Rooms
  <2> QED
    BY <1>2, <2>2, <2>3, Rooms DEF Before
<1> QED BY <1>1, <1>2

\* A set of numbers has a least one: there is no induction over data here.
LEMMA Least ==
  ASSUME NEW n \in Nat, NEW S \in SUBSET (0..n), S # {}
  PROVE  \E x \in S : \A y \in S : x <= y
<1> DEFINE Below(x) == {y \in S : y < x}
           Belows == {Below(x) : x \in S}
<1>1. IsFiniteSet(S) /\ \A y \in S : y \in Nat
  BY FS_BoundedSetOfNaturals
<1>2. IsWellFoundedOn(StrictSubsetOrdering(S), SUBSET S)
  BY <1>1, FS_StrictSubsetOrderingWellFounded, FS_FiniteSubsetsOfFinite
<1>3. Belows \subseteq SUBSET S /\ Belows # {}
  OBVIOUS
<1>4. PICK B \in Belows : \A C \in Belows : <<C, B>> \notin StrictSubsetOrdering(S)
  <2> DEFINE Subsets == SUBSET S
             R == StrictSubsetOrdering(S)
  <2>1. IsWellFoundedOn(R, Subsets) /\ Belows \subseteq Subsets /\ Belows # {}
    BY <1>2, <1>3
  <2> HIDE DEF Belows, Subsets, R
  <2>2. \E B \in Belows : \A C \in Belows : ~(<<C, B>> \in R)
    BY <2>1, WFMin
  <2> QED
    BY <2>2 DEF R
<1>5. PICK x \in S : B = Below(x)
  OBVIOUS
<1>6. ASSUME NEW y \in S, y < x PROVE FALSE
  <2>1. \A z \in S : z < y => z < x
    BY <1>1, <1>6
  <2>2. y \in Below(x) /\ y \notin Below(y)
    BY <1>1, <1>6
  <2>3. <<Below(y), B>> \in StrictSubsetOrdering(S)
    BY <1>5, <2>1, <2>2 DEF StrictSubsetOrdering
  <2> QED
    BY <1>4, <2>3
<1> QED
  BY <1>1, <1>6

\* A fragment's headers leave room in the frame.
LEMMA HeaderLenType ==
  ASSUME NEW f \in Fragment
  PROVE  HeaderLen(f) \in 0..FrameSize
BY TimeRxAssumption DEF HeaderLen, Frag1Len, FragNLen, Fragmented

-----------------------------------------------------------------------------
(***************************************************************************)
(* The copying loop                                                        *)
(***************************************************************************)

\* The room in the buffers prepare_sixlowpan or reset_frag_buf left is that of
\* the headers' offsets.
LEMMA RoomBeforeIs ==
  ASSUME Fragmented, Lengths
  PROVE  \A f \in 0..MaxFragments : RoomBefore[f] = Before(f)
<1> USE TimeRxAssumption
<1>1. \A f \in Fragment : Room(f) = IF f = 0 THEN First ELSE Other
  BY DEF Lengths, Room, HeaderLen, First, Other, Frag1Len, FragNLen, RoundDown
<1>2. \A f \in 0..MaxFragments \ {0} : Before(f) = Before(f - 1) + Room(f - 1)
  <2> SUFFICES ASSUME NEW f \in 0..MaxFragments \ {0}
               PROVE  Before(f) = Before(f - 1) + Room(f - 1)
    OBVIOUS
  <2>1. f - 1 \in Fragment /\ f - 1 \in Nat /\ (f - 1) + 1 = f
    BY DEF Fragment
  <2> QED
    BY <1>1, <2>1, BeforeStep
<1> DEFINE Sums(g) ==
      [f \in 0..MaxFragments |-> IF f = 0 THEN 0 ELSE g[f - 1] + Room(f - 1)]
           b == [f \in 0..MaxFragments |-> Before(f)]
<1>3. b = Sums(b)
  <2>1. ASSUME NEW f \in 0..MaxFragments
        PROVE  b[f] = IF f = 0 THEN 0 ELSE b[f - 1] + Room(f - 1)
    <3>1. CASE f = 0
      BY <3>1 DEF Before
    <3>2. CASE f # 0
      <4>1. f - 1 \in 0..MaxFragments
        BY <3>2
      <4> QED
        BY <1>2, <3>2, <4>1
    <3> QED BY <3>1, <3>2
  <2> QED
    BY <2>1
<1>4. RoomBefore = Sums(RoomBefore)
  <2> HIDE DEF b
  <2> QED
    BY <1>3 DEF RoomBefore
<1>5. ASSUME NEW f \in 0..MaxFragments
      PROVE  RoomBefore[f] = IF f = 0 THEN 0 ELSE RoomBefore[f - 1] + Room(f - 1)
  BY <1>4
<1> DEFINE Wrong == {f \in 0..MaxFragments : RoomBefore[f] # Before(f)}
<1>6. CASE Wrong = {}
  BY <1>6
<1>7. CASE Wrong # {}
  <2>1. PICK f \in Wrong : \A g \in Wrong : f <= g
    <3>1. Wrong \subseteq 0..MaxFragments /\ MaxFragments \in Nat
      OBVIOUS
    <3> HIDE DEF Wrong
    <3> QED
      BY <1>7, <3>1, Least
  <2>2. f \in 0..MaxFragments /\ RoomBefore[f] # Before(f)
    OBVIOUS
  <2>3. f # 0
    BY <1>5, <2>2 DEF Before
  <2>4. f - 1 \in 0..MaxFragments /\ ~(f <= f - 1)
    BY <2>2, <2>3
  <2>5. f - 1 \notin Wrong
    BY <2>1, <2>4
  <2>6. RoomBefore[f - 1] = Before(f - 1)
    BY <2>4, <2>5
  <2> QED
    BY <1>2, <1>5, <2>2, <2>3, <2>6
<1> QED BY <1>6, <1>7

\* What the loop leaves behind: an initial part of the fragments is used, each
\* begins where the room of those before it ends, and all but the last are full.
LEMMA FillFragmentsTile ==
  ASSUME TypeOK, Buffers, pc = "fill", Fragmented, FillFragments
  PROVE  /\ fragments' \in 1..MaxFragments
         /\ frag_buf' \in [Fragment -> [hdr : Nat, from : Nat, len : 0..FrameSize]]
         /\ \A f \in Fragment : frag_buf'[f].hdr = FragOffset(f)
         /\ \A f \in 0..fragments' - 1 :
              /\ frag_buf'[f].from = IpUdpLen + Before(f)
              /\ frag_buf'[f].len > HeaderLen(f)
              /\ f < fragments' - 1 => frag_buf'[f].len - HeaderLen(f)
                                         = Before(f + 1) - Before(f)
         /\ frag_buf'[fragments' - 1].from + frag_buf'[fragments' - 1].len
              - HeaderLen(fragments' - 1) = Total
<1> USE TimeRxAssumption
<1>1. /\ payload_size \in Nat \ {0} /\ payload_size <= MaxPayload
      /\ Total \in Nat /\ Total = IpUdpLen + payload_size /\ IpUdpLen \in Nat
  BY DEF TypeOK, Buffers, Total, IpUdpLen
<1>2. Headers /\ Lengths
  BY DEF Buffers
<1>3. ASSUME NEW f \in 0..MaxFragments
      PROVE  /\ Offset(f) = Smaller(Total, IpUdpLen + Before(f))
             /\ Before(f) \in Nat
  BY <1>2, <1>3, RoomBeforeIs, BeforeStep DEF Offset
<1> DEFINE Enough == {f \in 0..MaxFragments : Total <= IpUdpLen + Before(f)}
<1>4. MaxFragments \in Enough
  <2>1. Before(MaxFragments) >= MaxPayload
    BY DEF Before, First, Other
  <2> QED
    BY <1>1, <1>3, <2>1
<1>5. PICK k \in Enough : \A f \in Enough : k <= f
  <2>1. Enough \subseteq 0..MaxFragments /\ MaxFragments \in Nat /\ Enough # {}
    BY <1>4
  <2> HIDE DEF Enough
  <2> QED
    BY <2>1, Least
<1>6. k \in 1..MaxFragments /\ Total <= IpUdpLen + Before(k)
  <2>1. k \in 0..MaxFragments /\ Total <= IpUdpLen + Before(k)
    BY <1>5
  <2>2. k # 0
    BY <1>1, <2>1 DEF Before
  <2> QED
    BY <2>1, <2>2
<1>7. ASSUME NEW f \in 0..MaxFragments
      PROVE  f < k <=> IpUdpLen + Before(f) < Total
  <2>1. CASE f < k
    <3>1. f \notin Enough
      <4>1. ~(k <= f)
        BY <1>6, <2>1
      <4> QED
        BY <1>5, <4>1
    <3> QED
      BY <1>1, <1>3, <2>1, <3>1
  <2>2. CASE f = k
    BY <1>1, <1>3, <1>6, <2>2
  <2>3. CASE f > k
    <3>1. Before(k) < Before(f)
      BY <1>6, <2>3, BeforeGrows
    <3> QED
      BY <1>1, <1>3, <1>6, <2>3, <3>1
  <2> QED
    BY <1>6, <2>1, <2>2, <2>3
<1>8. ASSUME NEW f \in 0..MaxFragments
      PROVE  Offset(f) = IF f < k THEN IpUdpLen + Before(f) ELSE Total
  BY <1>1, <1>3, <1>7 DEF Smaller
<1> HIDE DEF Enough
<1> DEFINE used == {f \in Fragment : Offset(f) < Total}
<1>9. used = 0..k - 1
  <2>1. ASSUME NEW f \in Fragment PROVE Offset(f) < Total <=> f < k
    <3>1. f \in 0..MaxFragments
      BY DEF Fragment
    <3> QED
      BY <1>1, <1>3, <1>7, <1>8, <3>1
  <2>2. \A f \in 0..k - 1 : f \in Fragment /\ f < k
    BY <1>6 DEF Fragment
  <2>3. \A f \in Fragment : f < k => f \in 0..k - 1
    BY <1>6 DEF Fragment
  <2> QED
    BY <2>1, <2>2, <2>3
<1>10. Cardinality(used) = k
  <2>1. k \in Nat /\ k - 1 \in Int /\ (k - 1) - 0 + 1 = k /\ ~(0 > k - 1)
    BY <1>6
  <2>2. Cardinality(0..k - 1) = k
    BY <2>1, FS_Interval
  <2> HIDE DEF used
  <2> QED
    BY <1>9, <2>2
<1>11. fragments' = k
  BY <1>10 DEF FillFragments
<1>12. ASSUME NEW f \in Fragment
       PROVE  frag_buf'[f] = IF f < k
                THEN [frag_buf[f] EXCEPT !.from = Offset(f),
                                         !.len = @ + Offset(f + 1) - Offset(f)]
                ELSE [frag_buf[f] EXCEPT !.len = 0]
  <2>1. f \in used <=> f < k
    BY <1>6, <1>9 DEF Fragment
  <2> QED
    BY <2>1 DEF FillFragments
<1>13. DOMAIN frag_buf' = Fragment /\ frag_buf' = [f \in Fragment |-> frag_buf'[f]]
  BY DEF FillFragments
<1>14. ASSUME NEW f \in Fragment
       PROVE  /\ frag_buf[f] \in [hdr : Nat, from : Nat, len : 0..FrameSize]
              /\ frag_buf[f].hdr = FragOffset(f) /\ frag_buf[f].len = HeaderLen(f)
              /\ HeaderLen(f) \in 0..FrameSize
  BY <1>2, HeaderLenType DEF TypeOK, Headers, Lengths
<1>15. ASSUME NEW f \in 0..k - 1
       PROVE  /\ f \in Fragment /\ f \in Nat /\ f + 1 \in 0..MaxFragments
              /\ Offset(f) = IpUdpLen + Before(f) /\ Offset(f) \in Nat
              /\ Offset(f + 1) \in Nat /\ Offset(f + 1) > Offset(f)
              /\ Offset(f + 1) - Offset(f) <= Before(f + 1) - Before(f)
              /\ f < k - 1 => Offset(f + 1) - Offset(f) = Before(f + 1) - Before(f)
              /\ f = k - 1 => Offset(f + 1) = Total
  <2>1. f \in Fragment /\ f \in 0..MaxFragments /\ f + 1 \in 0..MaxFragments /\ f < k
    BY <1>6 DEF Fragment
  <2>2. Before(f) < Before(f + 1) /\ Before(f) \in Nat /\ Before(f + 1) \in Nat
    BY <1>3, <2>1, BeforeGrows
  <2>3. Offset(f) = IpUdpLen + Before(f) /\ IpUdpLen + Before(f) < Total
    BY <1>7, <1>8, <2>1
  <2>4. Offset(f + 1) = Smaller(Total, IpUdpLen + Before(f + 1))
    BY <1>3, <2>1
  <2>5. f + 1 < k => Offset(f + 1) = IpUdpLen + Before(f + 1)
    BY <1>8, <2>1
  <2>6. f + 1 = k => Offset(f + 1) = Total
    BY <1>8, <2>1
  <2> QED
    BY <1>1, <1>6, <2>1, <2>2, <2>3, <2>4, <2>5, <2>6 DEF Smaller
<1>16. ASSUME NEW f \in 0..k - 1
       PROVE  HeaderLen(f) + (Before(f + 1) - Before(f)) <= FrameSize
  <2>1. f \in Nat /\ f \in Fragment
    BY <1>15
  <2>2. Before(f + 1) - Before(f) = IF f = 0 THEN First ELSE Other
    BY <2>1, BeforeStep, Rooms
  <2> QED
    BY <2>1, <2>2, Rooms DEF HeaderLen, Frag1Len, FragNLen
<1>17. ASSUME NEW f \in 0..k - 1
       PROVE  /\ frag_buf'[f] \in [hdr : Nat, from : Nat, len : 0..FrameSize]
              /\ frag_buf'[f].from = Offset(f) /\ frag_buf'[f].hdr = FragOffset(f)
              /\ frag_buf'[f].len = HeaderLen(f) + (Offset(f + 1) - Offset(f))
  <2>1. f \in Fragment /\ f < k
    BY <1>6, <1>15
  <2>2. frag_buf'[f] = [frag_buf[f] EXCEPT !.from = Offset(f),
                                           !.len = @ + Offset(f + 1) - Offset(f)]
    BY <1>12, <2>1
  <2>3. Before(f) \in Nat /\ Before(f + 1) \in Nat
    BY <1>15, BeforeStep
  <2> DEFINE d == Offset(f + 1) - Offset(f)
             e == Before(f + 1) - Before(f)
  <2>4. /\ Offset(f) \in Nat /\ d \in Nat /\ e \in Nat /\ d <= e
        /\ Offset(f + 1) = Offset(f) + d
    BY <1>15, <2>3
  <2>5. HeaderLen(f) + e <= FrameSize /\ HeaderLen(f) \in Nat
    BY <1>14, <1>16, <2>1
  <2>6. /\ frag_buf[f] \in [hdr : Nat, from : Nat, len : 0..FrameSize]
        /\ frag_buf[f].hdr = FragOffset(f) /\ frag_buf[f].len = HeaderLen(f)
    BY <1>14, <2>1
  <2> HIDE DEF e
  <2>7. HeaderLen(f) + Offset(f + 1) - Offset(f) = HeaderLen(f) + d
        /\ HeaderLen(f) + d \in 0..FrameSize
    BY <2>4, <2>5
  <2>8. frag_buf'[f] = [frag_buf[f] EXCEPT !.from = Offset(f), !.len = HeaderLen(f) + d]
    BY <2>2, <2>6, <2>7
  <2> HIDE DEF d
  <2>9. /\ frag_buf'[f] \in [hdr : Nat, from : Nat, len : 0..FrameSize]
        /\ frag_buf'[f].from = Offset(f) /\ frag_buf'[f].hdr = FragOffset(f)
        /\ frag_buf'[f].len = HeaderLen(f) + d
    BY <2>4, <2>6, <2>7, <2>8
  <2> QED
    BY <2>9 DEF d
<1>18. ASSUME NEW f \in Fragment
       PROVE  /\ frag_buf'[f] \in [hdr : Nat, from : Nat, len : 0..FrameSize]
              /\ frag_buf'[f].hdr = FragOffset(f)
  <2>1. CASE f < k
    <3>1. f \in 0..k - 1
      BY <1>6, <2>1 DEF Fragment
    <3> QED
      BY <1>17, <3>1
  <2>2. CASE ~(f < k)
    <3>1. frag_buf'[f] = [frag_buf[f] EXCEPT !.len = 0]
      BY <1>12, <2>2
    <3> QED
      BY <1>14, <3>1
  <2> QED BY <2>1, <2>2
<1>19. \A f \in 0..k - 1 :
         /\ frag_buf'[f].from = IpUdpLen + Before(f)
         /\ frag_buf'[f].len > HeaderLen(f)
         /\ f < k - 1 => frag_buf'[f].len - HeaderLen(f) = Before(f + 1) - Before(f)
  <2> SUFFICES ASSUME NEW f \in 0..k - 1
               PROVE  /\ frag_buf'[f].from = IpUdpLen + Before(f)
                      /\ frag_buf'[f].len > HeaderLen(f)
                      /\ f < k - 1 => frag_buf'[f].len - HeaderLen(f)
                                        = Before(f + 1) - Before(f)
    OBVIOUS
  <2>1. HeaderLen(f) \in Nat /\ Before(f) \in Nat /\ Before(f + 1) \in Nat
    BY <1>14, <1>15, BeforeStep
  <2> QED
    BY <1>15, <1>17, <2>1
<1>20. frag_buf'[k - 1].from + frag_buf'[k - 1].len - HeaderLen(k - 1) = Total
  <2>1. k - 1 \in 0..k - 1
    BY <1>6
  <2>2. HeaderLen(k - 1) \in Nat
    BY <1>14, <1>15, <2>1
  <2>3. /\ frag_buf'[k - 1].from = Offset(k - 1)
        /\ frag_buf'[k - 1].len = HeaderLen(k - 1) + (Offset((k - 1) + 1) - Offset(k - 1))
    BY <1>17, <2>1
  <2>4. Offset(k - 1) \in Nat /\ Offset((k - 1) + 1) = Total
    BY <1>15, <2>1
  <2> QED
    BY <1>1, <2>2, <2>3, <2>4
<1> QED
  BY <1>6, <1>11, <1>13, <1>18, <1>19, <1>20

-----------------------------------------------------------------------------
(***************************************************************************)
(* The initial states and the steps of main                                *)
(***************************************************************************)

\* A step that leaves the datagram and its fragments alone.
LEMMA SameFragments ==
  ASSUME IInv, TypeOK', UNCHANGED <<payload_size, fragments, frag_buf>>,
         pc' \in {"raise", "wait"} => pc \in {"raise", "wait"},
         pc' = "reset" => pc \in {"raise", "wait", "reset"},
         pc' = "fill" => pc = "fill", pc = "done" => pc' = "done"
  PROVE  FragmentsTile' /\ Buffers'
<1>1. Headers' = Headers /\ Lengths' = Lengths /\ EachHasContent' = EachHasContent
  BY DEF Headers, Lengths, EachHasContent, Fragmented, HeaderLen
<1>2. Buffers'
  BY <1>1 DEF IInv, Buffers
<1>3. FragmentsTile'
  BY DEF IInv, FragmentsTile, Total, HeaderLen, Fragmented
<1> QED BY <1>2, <1>3

\* Before the first datagram the buffers are empty.
LEMMA InitIInv == Init => IInv
<1> SUFFICES ASSUME Init PROVE IInv
  OBVIOUS
<1> USE TimeRxAssumption DEF Init
<1>1. TypeOK
  <2>1. frag_buf \in [Fragment -> [hdr : Nat, from : Nat, len : 0..FrameSize]]
    OBVIOUS
  <2>2. udp \in Seq((MinPayload..MaxPayload) \X (0..Runs - 1))
    OBVIOUS
  <2>3. isr = FALSE /\ isr \in BOOLEAN /\ dropped \in BOOLEAN
    OBVIOUS
  <2> QED
    BY <2>1, <2>2, <2>3 DEF TypeOK
<1>2. FragmentsTile /\ Buffers /\ Turns
  BY <1>1 DEF FragmentsTile, Buffers, Turns
<1>3. Stamped
  BY DEF Stamped
<1> QED
  BY <1>2, <1>3 DEF IInv

\* prepare_sixlowpan writes the headers and lengths the loop needs.
LEMMA PrepareKeeps == IInv /\ Prepare => IInv'
<1> SUFFICES ASSUME IInv, Prepare PROVE IInv'
  OBVIOUS
<1> USE TimeRxAssumption
<1>1. TypeOK /\ 0 \in Fragment
  BY DEF IInv, FragmentsTile, Fragment
<1>2. ASSUME NEW f \in Fragment PROVE FragOffset(f) \in Nat
  <2>1. CASE f = 0
    BY <2>1 DEF FragOffset
  <2>2. CASE f # 0
    <3>1. f - 1 \in Nat
      BY <2>2 DEF Fragment
    <3>2. (f - 1) * Other \in Nat
      BY <3>1, Rooms
    <3> QED
      BY <2>2, <3>2, Rooms DEF FragOffset, Other, IpUdpLen
  <2> QED BY <2>1, <2>2
<1>3. /\ frag_buf' \in [Fragment -> [hdr : Nat, from : Nat, len : 0..FrameSize]]
      /\ Headers' /\ Lengths'
  <2>1. CASE Fragmented
    <3>1. frag_buf' = [f \in Fragment |-> [hdr |-> FragOffset(f), len |-> HeaderLen(f),
                                           from |-> frag_buf[f].from]]
      BY <2>1 DEF Prepare
    <3>2. \A f \in Fragment :
            /\ HeaderLen(f) \in 0..FrameSize /\ FragOffset(f) \in Nat
            /\ frag_buf[f].from \in Nat
      BY <1>1, <1>2, HeaderLenType DEF TypeOK
    <3>3. frag_buf' \in [Fragment -> [hdr : Nat, from : Nat, len : 0..FrameSize]]
      BY <3>1, <3>2
    <3>4. UNCHANGED payload_size
      BY DEF Prepare
    <3> QED
      BY <1>1, <3>1, <3>3, <3>4 DEF Headers, Lengths, Fragmented, HeaderLen
  <2>2. CASE ~Fragmented
    <3>1. frag_buf' = [frag_buf EXCEPT ![0].len = HeaderLen(0)]
      BY <2>2 DEF Prepare
    <3>2. frag_buf' \in [Fragment -> [hdr : Nat, from : Nat, len : 0..FrameSize]]
      BY <1>1, <3>1, HeaderLenType DEF TypeOK
    <3>3. UNCHANGED payload_size
      BY DEF Prepare
    <3>4. frag_buf'[0].len = HeaderLen(0)
      BY <1>1, <3>1 DEF TypeOK
    <3> QED
      BY <2>2, <3>2, <3>3, <3>4 DEF Headers, Lengths, Fragmented, HeaderLen
  <2> QED BY <2>1, <2>2
<1>4. TypeOK' /\ pc' = "fill"
  BY <1>1, <1>3 DEF Prepare, MainRuns, TypeOK, stackVars
<1>5. FragmentsTile' /\ Buffers'
  BY <1>3, <1>4 DEF IInv, Buffers, Prepare, FragmentsTile
<1>6. Turns' /\ Stamped'
  BY DEF IInv, Turns, Stamped, Prepare, MainRuns, stackVars, Datagram, Slot
<1> QED
  BY <1>5, <1>6 DEF IInv

\* The headers' offsets are where the fragments begin.
LEMMA FragOffsetIs ==
  ASSUME NEW f \in Nat, f # 0
  PROVE  FragOffset(f) = IpUdpLen + Before(f)
BY Rooms DEF FragOffset, Before, Other, IpUdpLen

\* The datagram is cut into fragments, or goes into a frame.
LEMMA FillKeeps == IInv /\ Fill => IInv'
<1> SUFFICES ASSUME IInv, Fill PROVE IInv'
  OBVIOUS
<1>0. /\ MaxFragments \in Nat \ {0} /\ FrameSize \in Nat /\ Runs \in Nat \ {0}
      /\ MhrLen \in Nat /\ IphcLen \in Nat /\ MinPayload \in Nat \ {0} /\ MaxPayload \in Nat
  BY TimeRxAssumption
<1>1. TypeOK /\ Buffers /\ pc = "fill" /\ 0 \in Fragment /\ MainRuns
  BY <1>0 DEF IInv, FragmentsTile, Fragment, Fill
<1>2. UNCHANGED <<payload_size, id, sync, isr, udp, _frag, timer_window, received, dropped>>
      /\ pc' = "raise" /\ i' = 0
  BY DEF Fill, stackVars
<1>3. Fragmented' = Fragmented /\ Total' = Total
  BY <1>2 DEF Fragmented, Total
<1>4. \A f : HeaderLen(f)' = HeaderLen(f)
  BY <1>3 DEF HeaderLen
<1> DEFINE Tiled ==
      /\ fragments \in 1..MaxFragments
      /\ frag_buf \in [Fragment -> [hdr : Nat, from : Nat, len : 0..FrameSize]]
      /\ Headers /\ EachHasContent
      /\ frag_buf[0].from = IpUdpLen
      /\ \A f \in 1..fragments - 1 :
           /\ frag_buf[f].from = frag_buf[f - 1].from + frag_buf[f - 1].len
                                   - HeaderLen(f - 1)
           /\ frag_buf[f].hdr = frag_buf[f].from
           /\ (frag_buf[f - 1].len - HeaderLen(f - 1)) % 8 = 0
      /\ frag_buf[fragments - 1].from + frag_buf[fragments - 1].len
           - HeaderLen(fragments - 1) = Total
<1>5. ASSUME Fragmented PROVE Tiled'
  <2>1. FillFragments
    BY <1>5 DEF Fill
  <2> DEFINE k == fragments'
  <2>2. /\ k \in 1..MaxFragments
        /\ frag_buf' \in [Fragment -> [hdr : Nat, from : Nat, len : 0..FrameSize]]
        /\ \A f \in Fragment : frag_buf'[f].hdr = FragOffset(f)
        /\ \A f \in 0..k - 1 :
             /\ frag_buf'[f].from = IpUdpLen + Before(f)
             /\ frag_buf'[f].len > HeaderLen(f)
             /\ f < k - 1 => frag_buf'[f].len - HeaderLen(f)
                                        = Before(f + 1) - Before(f)
        /\ frag_buf'[k - 1].from + frag_buf'[k - 1].len
             - HeaderLen(k - 1) = Total
    BY <1>1, <1>5, <2>1, FillFragmentsTile
  <2> HIDE DEF k
  <2>3. Headers' /\ EachHasContent'
    BY <1>4, <2>2 DEF Headers, EachHasContent, k
  <2>4. frag_buf'[0].from = IpUdpLen
    <3>1. 0 \in 0..k - 1 /\ IpUdpLen + Before(0) = IpUdpLen
      <4>1. k \in 1..MaxFragments
        BY <2>2
      <4> QED
        BY <1>0, <4>1 DEF Before, IpUdpLen
    <3> QED
      BY <2>2, <3>1
  <2>5. ASSUME NEW f \in 1..k - 1
        PROVE  /\ frag_buf'[f].from = frag_buf'[f - 1].from + frag_buf'[f - 1].len
                                        - HeaderLen(f - 1)
               /\ frag_buf'[f].hdr = frag_buf'[f].from
               /\ (frag_buf'[f - 1].len - HeaderLen(f - 1)) % 8 = 0
    <3>1. /\ f \in 0..k - 1 /\ f - 1 \in 0..k - 1 /\ (f - 1) + 1 = f
          /\ f - 1 < k - 1 /\ f \in Fragment /\ f - 1 \in Fragment
          /\ f \in Nat /\ f # 0 /\ f - 1 \in Nat
      <4>1. k \in 1..MaxFragments
        BY <2>2
      <4> QED
        BY <1>0, <4>1 DEF Fragment
    <3>2. /\ Before(f - 1) \in Nat /\ Before(f) \in Nat
          /\ Before(f) = Before(f - 1) + (IF f - 1 = 0 THEN First ELSE Other)
      BY <3>1, BeforeStep
    <3>3. /\ frag_buf'[f].from = IpUdpLen + Before(f)
          /\ frag_buf'[f - 1].from = IpUdpLen + Before(f - 1)
          /\ frag_buf'[f - 1].len - HeaderLen(f - 1) = Before(f) - Before(f - 1)
      BY <2>2, <3>1
    <3>4. HeaderLen(f - 1) \in Nat /\ frag_buf'[f - 1].len \in Nat
      BY <2>2, <3>1, HeaderLenType
    <3>5. frag_buf'[f].hdr = IpUdpLen + Before(f)
      BY <2>2, <3>1, FragOffsetIs
    <3>6. Before(f) - Before(f - 1) = (IF f - 1 = 0 THEN First ELSE Other)
      BY <3>2, Rooms
    <3>7. (Before(f) - Before(f - 1)) % 8 = 0
      BY <3>6, Rooms
    <3> QED
      BY <3>2, <3>3, <3>4, <3>5, <3>7 DEF IpUdpLen
  <2> QED
    BY <1>3, <1>4, <2>2, <2>3, <2>4, <2>5 DEF k
<1>6. ASSUME ~Fragmented PROVE Tiled'
  <2>1. /\ fragments' = 1
        /\ frag_buf' = [frag_buf EXCEPT ![0].from = IpUdpLen,
                                        ![0].len = @ + payload_size]
    BY <1>6 DEF Fill, FillFrame
  <2>2. frag_buf[0].len = HeaderLen(0) /\ HeaderLen(0) = MhrLen + IphcLen
    BY <1>1, <1>6 DEF Buffers, Lengths, HeaderLen
  <2>3. payload_size \in Nat \ {0} /\ payload_size <= FrameSize - MhrLen - IphcLen
    BY <1>0, <1>1, <1>6 DEF TypeOK, Fragmented
  <2>4. HeaderLen(0) + payload_size \in 0..FrameSize /\ IpUdpLen \in Nat
    BY <1>0, <2>2, <2>3 DEF IpUdpLen
  <2>5. frag_buf' = [frag_buf EXCEPT ![0] =
                       [frag_buf[0] EXCEPT !.from = IpUdpLen,
                                           !.len = HeaderLen(0) + payload_size]]
    BY <1>1, <2>1, <2>2 DEF TypeOK
  <2>6. frag_buf[0] \in [hdr : Nat, from : Nat, len : 0..FrameSize]
    BY <1>1 DEF TypeOK
  <2>7. frag_buf' \in [Fragment -> [hdr : Nat, from : Nat, len : 0..FrameSize]]
    BY <1>1, <2>4, <2>5, <2>6 DEF TypeOK
  <2>8. frag_buf'[0].from = IpUdpLen /\ frag_buf'[0].len = HeaderLen(0) + payload_size
    <3>1. frag_buf'[0] = [frag_buf[0] EXCEPT !.from = IpUdpLen,
                                            !.len = HeaderLen(0) + payload_size]
      BY <1>1, <2>5 DEF TypeOK
    <3> QED
      BY <2>6, <3>1
  <2>9. Headers' /\ EachHasContent'
    <3>1. Headers'
      BY <1>3, <1>6 DEF Headers
    <3>2. \A f \in 0..fragments' - 1 : f = 0
      BY <2>1
    <3>3. frag_buf'[0].len > HeaderLen(0)
      BY <1>0, <2>2, <2>3, <2>8
    <3> QED
      BY <1>4, <3>1, <3>2, <3>3 DEF EachHasContent
  <2> QED
    BY <1>3, <1>4, <2>1, <2>2, <2>3, <2>4, <2>7, <2>8, <2>9, <1>0 DEF Total
<1>7. Tiled'
  BY <1>5, <1>6
<1>8. TypeOK'
  <2>1. /\ fragments' \in 1..MaxFragments
        /\ frag_buf' \in [Fragment -> [hdr : Nat, from : Nat, len : 0..FrameSize]]
    BY <1>7
  <2>2. isr' = FALSE
    BY <1>1, <1>2 DEF MainRuns, TypeOK
  <2> HIDE DEF Tiled
  <2> QED
    BY <1>0, <1>1, <1>2, <2>1, <2>2 DEF TypeOK
<1>9. FragmentsTile'
  <2>1. fragments' > 0
    BY <1>0, <1>7
  <2> QED
    BY <1>4, <1>7, <1>8, <2>1 DEF FragmentsTile
<1>10. Buffers'
  BY <1>1, <1>2, <1>7 DEF Buffers
<1>11. Turns'
  BY <1>0, <1>1, <1>2, <1>7 DEF IInv, Turns, MainRuns
<1>12. Stamped'
  BY <1>1, <1>2 DEF IInv, Stamped, MainRuns, Datagram, Slot
<1> QED
  BY <1>9, <1>10, <1>11, <1>12 DEF IInv

\* The next fragment: main asks, and waits until the stack has read the last.
LEMMA RaiseKeeps == IInv /\ Raise => IInv'
<1> SUFFICES ASSUME IInv, Raise PROVE IInv'
  OBVIOUS
<1>1. /\ TypeOK /\ pc = "raise" /\ pc' = "wait" /\ isr' = TRUE /\ udp = <<>> /\ ~isr
      /\ UNCHANGED <<payload_size, id, i, fragments, frag_buf, sync, udp, _frag,
                     timer_window, received, dropped>>
  BY DEF IInv, FragmentsTile, Raise, MainRuns, stackVars
<1>2. _frag <= i /\ i < fragments /\ sync = 0 /\ EachHasContent
  BY <1>1 DEF IInv, Turns, Buffers
<1>3. /\ fragments \in Nat /\ _frag \in Nat /\ i \in Nat
      /\ frag_buf[_frag].len > HeaderLen(_frag)
  <2>1. fragments \in Nat /\ _frag \in Nat /\ i \in Nat
    BY <1>1, TimeRxAssumption DEF TypeOK
  <2>2. _frag \in 0..fragments - 1
    BY <1>2, <2>1
  <2> QED
    BY <1>2, <2>1, <2>2 DEF EachHasContent
<1>4. HeaderLen(_frag)' = HeaderLen(_frag)
  BY <1>1 DEF HeaderLen, Fragmented
<1>5. TypeOK'
  BY <1>1, <1>2, <1>3, <1>4 DEF TypeOK
<1>6. FragmentsTile' /\ Buffers'
  BY <1>1, <1>5, SameFragments
<1>7. Turns' /\ Stamped'
  BY <1>1, <1>2, <1>3 DEF IInv, Turns, Stamped, Datagram, Slot
<1> QED
  BY <1>6, <1>7 DEF IInv

\* What was read is counted.
LEMMA WaitKeeps == IInv /\ Wait => IInv'
<1> SUFFICES ASSUME IInv, Wait PROVE IInv'
  OBVIOUS
<1>1. /\ TypeOK /\ pc = "wait" /\ udp = <<>> /\ ~isr /\ sync > 0 /\ sync' = sync - 1
      /\ i' = i + 1 /\ pc' = (IF i + 1 < fragments THEN "raise" ELSE "reset")
      /\ UNCHANGED <<payload_size, id, fragments, frag_buf, isr, udp, _frag,
                     timer_window, received, dropped>>
  BY DEF IInv, FragmentsTile, Wait, MainRuns, stackVars
<1>2. fragments \in Nat /\ _frag \in Nat /\ i \in Nat /\ sync \in 0..1
  BY <1>1, TimeRxAssumption DEF TypeOK
<1>3. i < fragments /\ _frag <= i + sync
  BY <1>1 DEF IInv, Turns
<1>4. i' \in 0..fragments /\ sync' = 0 /\ _frag <= i'
  BY <1>1, <1>2, <1>3
<1>5. TypeOK'
  BY <1>1, <1>4 DEF TypeOK
<1>6. FragmentsTile' /\ Buffers'
  BY <1>1, <1>5, SameFragments
<1>7. Turns' /\ Stamped'
  BY <1>1, <1>2, <1>4 DEF IInv, Turns, Stamped, Datagram, Slot
<1> QED
  BY <1>6, <1>7 DEF IInv

\* The buffers have their lengths again before the loop runs again.
LEMMA ResetKeeps == IInv /\ Reset => IInv'
<1> SUFFICES ASSUME IInv, Reset PROVE IInv'
  OBVIOUS
<1>0. /\ MaxFragments \in Nat \ {0} /\ Runs \in Nat \ {0} /\ MinPayload \in Nat \ {0}
      /\ MaxPayload \in Nat /\ PayloadStep \in Nat \ {0}
  BY TimeRxAssumption
<1>1. /\ TypeOK /\ Headers /\ pc = "reset" /\ udp = <<>> /\ ~isr /\ sync = 0
      /\ payload_size <= MaxPayload /\ 0 \in Fragment
      /\ _frag' = 0 /\ received' = 0
      /\ UNCHANGED <<i, fragments, sync, isr, udp, timer_window, dropped>>
  BY <1>0 DEF IInv, FragmentsTile, Buffers, Turns, Reset, MainRuns, Fragment
<1>2. /\ frag_buf' \in [Fragment -> [hdr : Nat, from : Nat, len : 0..FrameSize]]
      /\ \A f \in Fragment : frag_buf'[f].hdr = frag_buf[f].hdr
      /\ Fragmented => \A f \in Fragment : frag_buf'[f].len = HeaderLen(f)
      /\ frag_buf'[0].len = HeaderLen(0)
  <2>1. frag_buf' = [f \in Fragment |->
          IF Fragmented \/ f = 0 THEN [frag_buf[f] EXCEPT !.len = HeaderLen(f)]
                                 ELSE frag_buf[f]]
    BY DEF Reset, reset_frag_buf
  <2>2. \A f \in Fragment :
          /\ frag_buf[f] \in [hdr : Nat, from : Nat, len : 0..FrameSize]
          /\ HeaderLen(f) \in 0..FrameSize
    BY <1>1, HeaderLenType DEF TypeOK
  <2>3. ASSUME NEW f \in Fragment
        PROVE  /\ frag_buf'[f] \in [hdr : Nat, from : Nat, len : 0..FrameSize]
               /\ frag_buf'[f].hdr = frag_buf[f].hdr
               /\ Fragmented \/ f = 0 => frag_buf'[f].len = HeaderLen(f)
    <3>1. CASE Fragmented \/ f = 0
      <4>1. frag_buf'[f] = [frag_buf[f] EXCEPT !.len = HeaderLen(f)]
        BY <2>1, <3>1
      <4> QED
        BY <2>2, <4>1
    <3>2. CASE ~(Fragmented \/ f = 0)
      <4>1. frag_buf'[f] = frag_buf[f]
        BY <2>1, <3>2
      <4> QED
        BY <2>2, <3>2, <4>1
    <3> QED BY <3>1, <3>2
  <2>4. frag_buf' = [f \in Fragment |-> frag_buf'[f]]
    BY <2>1
  <2> QED
    BY <1>1, <2>3, <2>4
<1>3. /\ payload_size' \in MinPayload..MaxPayload + PayloadStep /\ id' \in 0..Runs - 1
      /\ pc' \in {"fill", "prepare", "done"}
      /\ pc' = "fill" => payload_size' = payload_size
      /\ pc' # "done" => payload_size' <= MaxPayload
  <2>1. CASE id + 1 < Runs /\ id' = id + 1 /\ pc' = "fill" /\ UNCHANGED payload_size
    BY <1>0, <1>1, <2>1 DEF TypeOK
  <2>2. CASE /\ id + 1 = Runs /\ id' = 0 /\ payload_size' = payload_size + PayloadStep
             /\ pc' = IF payload_size' <= MaxPayload THEN "prepare" ELSE "done"
    BY <1>0, <1>1, <2>2 DEF TypeOK
  <2> QED
    BY <2>1, <2>2 DEF Reset
<1>4. TypeOK'
  BY <1>0, <1>1, <1>2, <1>3 DEF TypeOK
<1>5. FragmentsTile' /\ Turns' /\ Stamped'
  BY <1>1, <1>3, <1>4 DEF IInv, FragmentsTile, Turns, Stamped
<1>6. Buffers'
  <2>1. pc' = "fill" => Headers' /\ Lengths'
    <3> SUFFICES ASSUME pc' = "fill" PROVE Headers' /\ Lengths'
      OBVIOUS
    <3>1. Fragmented' = Fragmented /\ \A f : HeaderLen(f)' = HeaderLen(f)
      BY <1>3 DEF Fragmented, HeaderLen
    <3> QED
      BY <1>1, <1>2, <3>1 DEF Headers, Lengths
  <2> QED
    BY <1>3, <2>1 DEF Buffers
<1> QED
  BY <1>5, <1>6 DEF IInv

-----------------------------------------------------------------------------
(***************************************************************************)
(* The steps of the stack and of the receiver                              *)
(***************************************************************************)

\* Wherever the stack is with a frame, main waits for it.
LEMMA StackKeeps == IInv /\ Stack => IInv'
<1> SUFFICES ASSUME IInv, Stack PROVE IInv'
  OBVIOUS
<1>1. /\ isr /\ isr' = FALSE
      /\ UNCHANGED <<pc, payload_size, id, i, fragments, frag_buf>>
  BY DEF Stack, StackReads, StackRefused, StackDrops, mainVars
<1>2. /\ TypeOK /\ pc = "wait" /\ sync = 0 /\ udp = <<>> /\ i < fragments /\ _frag <= i
      /\ payload_size <= MaxPayload
      /\ _frag > 0 => timer_window[Slot(Datagram)] = Datagram
      /\ DOMAIN timer_window = 0..WindowSize - 1
  BY <1>1 DEF IInv, FragmentsTile, Buffers, Turns, Stamped, TypeOK
<1>3. /\ fragments \in 0..MaxFragments /\ _frag \in Nat /\ i \in Nat
      /\ MaxFragments \in Nat /\ id \in Nat /\ IdMod \in Nat \ {0}
      /\ WindowSize \in Nat \ {0}
  BY <1>2, TimeRxAssumption DEF TypeOK
<1>4. Datagram' = Datagram /\ Slot(Datagram)' = Slot(Datagram)
  BY <1>1 DEF Datagram, Slot
<1>5. Datagram \in (MinPayload..MaxPayload) \X (0..Runs - 1)
  BY <1>2, TimeRxAssumption DEF TypeOK, Datagram
<1>6. Slot(Datagram) \in DOMAIN timer_window
  <2>1. id % IdMod \in Nat
    BY <1>3
  <2>2. (id % IdMod) % WindowSize \in 0..WindowSize - 1
    BY <1>3, <2>1
  <2> QED
    BY <1>2, <2>2 DEF Slot, Datagram
<1>7. ASSUME /\ sync' \in 0..1 /\ _frag' \in 0..MaxFragments /\ dropped' \in BOOLEAN
             /\ udp' = <<>> \/ udp' = <<Datagram>>
             /\ _frag' <= i + sync'
             /\ DOMAIN timer_window' = 0..WindowSize - 1
             /\ _frag' > 0 \/ udp' # <<>> => timer_window'[Slot(Datagram)] = Datagram
      PROVE  IInv'
  <2>1. udp' \in Seq((MinPayload..MaxPayload) \X (0..Runs - 1))
    <3> DEFINE D == (MinPayload..MaxPayload) \X (0..Runs - 1)
    <3>1. Datagram \in D
      BY <1>5
    <3> HIDE DEF D
    <3>2. <<>> \in Seq(D) /\ <<Datagram>> \in Seq(D)
      BY <3>1
    <3>3. udp' \in Seq(D)
      BY <1>7, <3>2
    <3> QED
      BY <3>3 DEF D
  <2>2. TypeOK'
    BY <1>1, <1>2, <1>7, <2>1 DEF TypeOK
  <2>3. FragmentsTile' /\ Buffers'
    BY <1>1, <2>2, SameFragments
  <2>4. Turns'
    BY <1>1, <1>2, <1>7 DEF Turns
  <2>5. Stamped'
    BY <1>1, <1>2, <1>4, <1>7 DEF Stamped
  <2> QED
    BY <2>3, <2>4, <2>5 DEF IInv
<1>8. CASE StackReads
  <2>1. /\ sync' = 1 /\ _frag' = _frag + 1 /\ UNCHANGED dropped
        /\ timer_window' = IF _frag = 0
                           THEN [timer_window EXCEPT ![Slot(Datagram)] = Datagram]
                           ELSE timer_window
    BY <1>2, <1>8 DEF StackReads, Post
  <2>2. udp' = <<>> \/ udp' = <<Datagram>>
    BY <1>2, <1>8 DEF StackReads
  <2>3. /\ DOMAIN timer_window' = 0..WindowSize - 1
        /\ timer_window'[Slot(Datagram)] = Datagram
    BY <1>2, <1>3, <1>6, <2>1
  <2>4. sync' \in 0..1 /\ _frag' \in 0..MaxFragments /\ _frag' <= i + sync'
    BY <1>2, <1>3, <2>1
  <2>5. dropped' \in BOOLEAN
    BY <1>2, <2>1 DEF TypeOK
  <2> QED
    BY <1>7, <2>2, <2>3, <2>4, <2>5
<1>9. CASE StackRefused
  <2>1. sync' = 1 /\ UNCHANGED <<udp, _frag, timer_window, received, dropped>>
    BY <1>2, <1>9 DEF StackRefused, Post, stackVars
  <2>2. dropped' \in BOOLEAN
    BY <1>2, <2>1 DEF TypeOK
  <2> QED
    BY <1>2, <1>3, <1>7, <2>1, <2>2 DEF TypeOK
<1>10. CASE StackDrops
  <2>1. dropped' = TRUE /\ UNCHANGED <<sync, udp, _frag, timer_window, received>>
    BY <1>10 DEF StackDrops
  <2>2. dropped' \in BOOLEAN
    BY <2>1
  <2> QED
    BY <1>2, <1>3, <1>7, <2>1, <2>2 DEF TypeOK
<1> QED
  BY <1>8, <1>9, <1>10 DEF Stack

\* The receiver takes the one datagram that waits.
LEMMA ReceiveKeeps == IInv /\ Receive => IInv'
<1> SUFFICES ASSUME IInv, Receive PROVE IInv'
  OBVIOUS
<1>1. /\ TypeOK /\ ~isr /\ udp = <<Datagram>> /\ udp' = Tail(udp)
      /\ UNCHANGED <<pc, payload_size, id, i, fragments, frag_buf, sync, isr, _frag,
                     timer_window, received, dropped>>
  BY DEF IInv, FragmentsTile, Stamped, Receive, mainVars, stackVars
<1>2. udp' = <<>>
  BY <1>1
<1>3. TypeOK'
  BY <1>1, <1>2 DEF TypeOK
<1>4. FragmentsTile' /\ Buffers'
  BY <1>1, <1>3, SameFragments
<1>5. Turns' /\ Stamped'
  BY <1>1, <1>2 DEF IInv, Turns, Stamped, Datagram, Slot
<1> QED
  BY <1>4, <1>5 DEF IInv

-----------------------------------------------------------------------------
(***************************************************************************)
(* Theorems                                                                *)
(***************************************************************************)

LEMMA StepIInv == IInv /\ [Next]_vars => IInv'
<1> SUFFICES ASSUME IInv, [Next]_vars PROVE IInv'
  OBVIOUS
<1>1. CASE Main
  BY <1>1, PrepareKeeps, FillKeeps, RaiseKeeps, WaitKeeps, ResetKeeps DEF Main
<1>2. CASE Stack \/ Receive
  BY <1>2, StackKeeps, ReceiveKeeps
<1>3. CASE UNCHANGED vars
  <2>1. UNCHANGED <<pc, payload_size, id, i, fragments, frag_buf, sync, isr, udp, _frag,
                    timer_window, received, dropped>>
    BY <1>3 DEF vars, mainVars, stackVars
  <2>2. TypeOK'
    BY <2>1 DEF IInv, FragmentsTile, TypeOK, HeaderLen, Fragmented
  <2>3. FragmentsTile' /\ Buffers'
    BY <2>1, <2>2, SameFragments
  <2> QED
    BY <2>1, <2>3 DEF IInv, Turns, Stamped, Datagram, Slot
<1> QED
  BY <1>1, <1>2, <1>3 DEF Next

\* The inductive invariant holds throughout.
THEOREM Invariance == Spec => []IInv
  BY InitIInv, StepIInv, PTL DEF Spec

\* Whatever their sizes, the fragments the stack is asked to read are the
\* datagram cut into pieces, at the offsets their headers give.
THEOREM TilesAlways == Spec => []FragmentsTile
<1>1. IInv => FragmentsTile
  BY DEF IInv
<1> QED BY <1>1, Invariance, PTL

\* No datagram is measured against the time of another, however small the
\* window: main waits for the receiver before it sends the next.
THEOREM StampsFit == Spec => []StampFits
<1>1. IInv => StampFits
  BY DEF IInv, Stamped, StampFits
<1> QED BY <1>1, Invariance, PTL

=============================================================================
