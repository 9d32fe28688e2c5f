-------------------------- MODULE Websniffer_proofs --------------------------
(***************************************************************************)
(* Theorems about the sniffer's file and the tasks that read it, for any   *)
(* number of web sockets, packets, lines of a dump and faults, and below   *)
(* about the reassembly that such a task drives.                           *)
(*                                                                         *)
(* What a task has not come to yet is told in positions of the file that   *)
(* only ever grow: those it holds ahead of the line it works at, then what *)
(* is in the file, a file that may have been emptied and now begin with a  *)
(* hole (At).  In these positions headers only get newer (InOrder), and a  *)
(* packet that nothing went wrong with stands there in one piece, with the *)
(* end of a line before it, until the task has come past it (Intact).      *)
(***************************************************************************)
EXTENDS Websniffer, Reassembly, FiniteSetTheorems, TLAPS

-----------------------------------------------------------------------------
(***************************************************************************)
(* The inductive invariant                                                 *)
(***************************************************************************)

Kind == {"header", "data", "end", "zero"}
Items == [is : Kind, pkt : Nat]
Told == [pkt : Nat, whole : BOOLEAN]

Typed ==
  /\ TypeOK
  /\ content \in Seq(Items) /\ buffer \in Seq(Items)
  /\ ahead \in [Sockets -> Seq(Items)] /\ line \in [Sockets -> Seq(Items)]
  /\ handled \in [Sockets -> Seq(Told)]
  /\ end \in [Packets -> Nat] /\ (LineNo > 0 => Pkt \in Packets)
  /\ torn \in [Sockets -> SUBSET Nat] /\ emptied \in [Sockets -> SUBSET Nat]

\* The positions a task has not come to, and what is there.
Base(s) == pos[s] - Len(ahead[s])
Top(s) == IF Len(content) > pos[s] THEN Len(content) ELSE pos[s]
At(s, q) == IF q <= pos[s] THEN ahead[s][q - Base(s)] ELSE content[q]
Ahead(s) == Base(s) + 1..Top(s)

Headers(s) == {q \in Ahead(s) : At(s, q).is = "header"}

Live(s) == ws[s] # "closed"

\* What a socket has before it is opened, after it was closed, and between lines.
SocketOK(s) ==
  /\ Len(ahead[s]) <= pos[s]
  /\ ws[s] = "new" => pos[s] = 0 /\ handled[s] = <<>> /\ task[s] = "none"
  /\ ws[s] = "closed" => handled[s] = <<>>
  /\ task[s] # "line" => line[s] = <<>>

\* The thread writes at the end of the file, unless it was emptied.
FileOK == content = <<>> \/ Len(content) = offset

\* The node has printed a line of the packet.
Begun(p) == p < Pkt \/ (p = Pkt /\ LineNo > 0)

\* Headers that wait for a line of their dump; a SerialException left them behind,
\* or the line comes next.
BufferOK ==
  /\ \A i \in DOMAIN buffer : buffer[i].is = "header" /\ Begun(buffer[i].pkt)
  /\ \A i, j \in DOMAIN buffer : i < j => buffer[i].pkt < buffer[j].pkt
  /\ buffer # <<>> /\ ~dangling =>
       /\ thread = "up" /\ LineNo = 1 /\ length = NLines
       /\ Pkt \notin cut => buffer = <<Item("header", Pkt)>>

\* The lines the thread waits for are those that come; the packet that is being
\* printed, when nothing has gone wrong with it, and those that were.
PacketsOK ==
  /\ thread = "up" /\ length > 0 => LineNo > 0 /\ length = NLines - LineNo + 1
  /\ LineNo > 0 /\ Pkt \notin cut =>
       /\ thread = "up" /\ ~dangling /\ length > 0
       /\ buffer # <<>> => LineNo = 1
  /\ \A p \in Packets : end[p] <= offset /\ (p < Pkt \/ end[p] = 0)

\* All that the task has not come to is newer than packet p.
Older(s, p) ==
  /\ Begun(p)
  /\ \A q \in Headers(s) : p < At(s, q).pkt
  /\ \A i \in DOMAIN buffer : p < buffer[i].pkt

\* The file's headers, the one in the task's line and those it handed on are in
\* the order in which they were printed.
InOrder(s) ==
  /\ \A q \in Headers(s) :
       /\ Begun(At(s, q).pkt)
       /\ \A r \in Headers(s) : q < r => At(s, q).pkt < At(s, r).pkt
       /\ \A i \in DOMAIN buffer : At(s, q).pkt < buffer[i].pkt
  /\ line[s] # <<>> /\ line[s][1].is = "header" =>
       /\ Older(s, line[s][1].pkt)
       /\ \A i \in DOMAIN handled[s] : handled[s][i].pkt < line[s][1].pkt
  /\ \A i \in DOMAIN handled[s] :
       /\ Older(s, handled[s][i].pkt)
       /\ \A j \in DOMAIN handled[s] : i < j => handled[s][i].pkt < handled[s][j].pkt

\* What the thread writes next begins a line for the task, or a hole comes first.
Clean(s) ==
  \/ Base(s) = offset
  \/ content = <<>> /\ pos[s] < offset
  \/ offset \in Ahead(s) /\ At(s, offset) = End

Between == ~dangling /\ ~(thread = "up" /\ length > 0)

\* The items of a packet, where they begin, and how many of them are written.
Piece(p, k) == IF k = 0 THEN Item("header", p)
               ELSE IF k = NLines + 1 THEN End ELSE Item("data", p)
Start(p) == IF p < Pkt THEN end[p] - NLines - 1
            ELSE IF buffer = <<>> THEN offset - LineNo + 1 ELSE offset + 1
Written(p) == IF p < Pkt THEN NLines + 2 ELSE IF buffer = <<>> THEN LineNo ELSE 0

\* The packet is before the task in one piece, at the begin of a line.
ToCome(s, p) ==
  /\ Base(s) < Start(p)
  /\ \A k \in 0..Written(p) - 1 :
       Start(p) + k \in Ahead(s) /\ At(s, Start(p) + k) = Piece(p, k)
  /\ \/ Base(s) = Start(p) - 1
     \/ Start(p) - 1 \in Ahead(s) /\ At(s, Start(p) - 1) = End
     \/ Written(p) = 0 /\ content = <<>> /\ pos[s] < offset
  /\ p < Pkt => pos[s] # end[p] - 1

\* The task has come past it, and has it as its line or handed it on.
Taken(s, p) ==
  /\ p < Pkt /\ end[p] <= Base(s)
  /\ \/ task[s] = "line" /\ line[s] = [k \in 1..NLines + 2 |-> Piece(p, k - 1)]
     \/ [pkt |-> p, whole |-> TRUE] \in ToSet(handled[s])

Intact(s) ==
  \A p \in Packets \ (cut \cup torn[s] \cup emptied[s]) :
    Begun(p) => ToCome(s, p) \/ Taken(s, p)

SocketInv(s) ==
  /\ SocketOK(s)
  /\ Live(s) => InOrder(s) /\ (Between => Clean(s)) /\ Intact(s)

SnifferInv == Typed /\ FileOK /\ BufferOK /\ PacketsOK /\ \A s \in Sockets : SocketInv(s)

-----------------------------------------------------------------------------
(***************************************************************************)
(* The lines of the node                                                   *)
(***************************************************************************)

\* The next number has the next remainder, or the next quotient.
LEMMA DivMod ==
  ASSUME NEW n \in Nat, NEW m \in Nat, m > 1
  PROVE  /\ (n \div m) \in Nat /\ (n % m) \in 0..m - 1
         /\ \/ /\ (n % m) < m - 1
               /\ (n + 1) \div m = n \div m /\ (n + 1) % m = (n % m) + 1
            \/ /\ n % m = m - 1
               /\ (n + 1) \div m = (n \div m) + 1 /\ (n + 1) % m = 0
  <1> DEFINE q == n \div m
             r == n % m
             u == (n + 1) \div m
             v == (n + 1) % m
  <1>1. q \in Int /\ r \in Int /\ n = m * q + r /\ 0 <= r /\ r < m
    OBVIOUS
  <1>2. u \in Int /\ v \in Int /\ n + 1 = m * u + v /\ 0 <= v /\ v < m
    OBVIOUS
  <1> HIDE DEF q, r, u, v
  <1>3. q >= 0
    BY <1>1
  <1>4. m * u + v = m * q + r + 1
    BY <1>1, <1>2
  <1>5. u = q \/ u = q + 1
    <2>1. ~(u <= q - 1)
      <3>1. u <= q - 1 => m * u <= m * (q - 1)
        BY <1>1, <1>2
      <3>2. m * (q - 1) = m * q - m
        BY <1>1
      <3>. QED
        BY <3>1, <3>2, <1>1, <1>2, <1>4
    <2>2. ~(u >= q + 2)
      <3>1. u >= q + 2 => m * u >= m * (q + 2)
        BY <1>1, <1>2
      <3>2. m * (q + 2) = m * q + 2 * m
        BY <1>1
      <3>. QED
        BY <3>1, <3>2, <1>1, <1>2, <1>4
    <2>. QED
      BY <2>1, <2>2, <1>1, <1>2
  <1>6. CASE u = q
    BY <1>6, <1>1, <1>2, <1>3, <1>4 DEF q, r, u, v
  <1>7. CASE u = q + 1
    <2>1. m * u = m * q + m
      BY <1>7, <1>1
    <2>2. v = 0 /\ r = m - 1
      BY <2>1, <1>1, <1>2, <1>4
    <2>. QED
      BY <2>2, <1>7, <1>1, <1>3 DEF q, r, u, v
  <1>. QED
    BY <1>5, <1>6, <1>7

\* A set of numbers has a least one: there is no induction over data here.
LEMMA Least ==
  ASSUME NEW n \in Nat, NEW S \in SUBSET (0..n), S # {}
  PROVE  \E x \in S : \A y \in S : x <= y
<1> DEFINE Below(x) == {y \in S : y < x}
           Belows == {Below(x) : x \in S}
<1>1. IsFiniteSet(S) /\ \A y \in S : y \in Nat
  BY FS_BoundedSetOfNaturals
<1>2. IsWellFoundedOn(StrictSubsetOrdering(S), SUBSET S)
  BY <1>1, FS_StrictSubsetOrderingWellFounded, FS_FiniteSubsetsOfFinite
<1>3. Belows \subseteq SUBSET S /\ Belows # {}
  OBVIOUS
<1>4. PICK B \in Belows : \A C \in Belows : <<C, B>> \notin StrictSubsetOrdering(S)
  <2> DEFINE Subsets == SUBSET S
             R == StrictSubsetOrdering(S)
  <2>1. IsWellFoundedOn(R, Subsets) /\ Belows \subseteq Subsets /\ Belows # {}
    BY <1>2, <1>3
  <2> HIDE DEF Belows, Subsets, R
  <2>2. \E B \in Belows : \A C \in Belows : ~(<<C, B>> \in R)
    BY <2>1, WFMin
  <2> QED
    BY <2>2 DEF R
<1>5. PICK x \in S : B = Below(x)
  OBVIOUS
<1>6. ASSUME NEW y \in S, y < x PROVE FALSE
  <2>1. \A z \in S : z < y => z < x
    BY <1>1, <1>6
  <2>2. y \in Below(x) /\ y \notin Below(y)
    BY <1>1, <1>6
  <2>3. <<Below(y), B>> \in StrictSubsetOrdering(S)
    BY <1>5, <2>1, <2>2 DEF StrictSubsetOrdering
  <2> QED
    BY <1>4, <2>3
<1> QED
  BY <1>1, <1>6

\* A line that is read ends where the first end of a line is.
LEMMA FirstEnd ==
  ASSUME NEW items \in Seq(Items)
  PROVE  \/ ToEnd(items) = 0 /\ \A i \in 1..Len(items) : items[i].is # "end"
         \/ /\ ToEnd(items) \in 1..Len(items) /\ items[ToEnd(items)].is = "end"
            /\ \A i \in 1..Len(items) : i < ToEnd(items) => items[i].is # "end"
<1> DEFINE I == {i \in 1..Len(items) : items[i].is = "end"}
<1>1. ToEnd(items) = IF I # {} THEN Min(I) ELSE 0
  BY DEF ToEnd, SelectInSeq
<1>2. CASE I = {}
  BY <1>1, <1>2
<1>3. CASE I # {}
  <2>1. I \in SUBSET (0..Len(items)) /\ Len(items) \in Nat
    OBVIOUS
  <2>2. \E x \in I : \A y \in I : x <= y
    <3> HIDE DEF I
    <3> QED
      BY <2>1, <1>3, Least
  <2>3. Min(I) \in I /\ \A y \in I : Min(I) <= y
    <3> HIDE DEF I
    <3> QED
      BY <2>2 DEF Min
  <2>4. ToEnd(items) \in I /\ \A y \in I : ToEnd(items) <= y
    BY <1>1, <1>3, <2>3
  <2>5. ToEnd(items) \in 1..Len(items) /\ items[ToEnd(items)].is = "end"
    BY <2>4
  <2>6. ASSUME NEW i \in 1..Len(items), i < ToEnd(items) PROVE items[i].is # "end"
    <3>1. ToEnd(items) \in Int
      BY <2>5
    <3> QED
      BY <3>1, <2>4, <2>6
  <2> QED
    BY <2>5, <2>6
<1> QED
  BY <1>2, <1>3

-----------------------------------------------------------------------------
(***************************************************************************)
(* What a step does to the positions of the file                           *)
(***************************************************************************)

\* Packets are counted from 1, a packet's lines from 0.
LEMMA Counts ==
  ASSUME printed \in Nat
  PROVE  Pkt \in Nat \ {0} /\ LineNo \in 0..NLines
<1>1. NLines + 1 \in Nat /\ NLines + 1 > 1
  BY WebsnifferAssumption
<1>2. printed \div (NLines + 1) \in Nat /\ printed % (NLines + 1) \in 0..(NLines + 1) - 1
  BY <1>1, DivMod
<1> QED
  BY <1>2, WebsnifferAssumption DEF Pkt, LineNo

\* The next line of the node is the next of its packet or the next packet's header.
LEMMA NextLine ==
  ASSUME printed \in Nat, NodePrints
  PROVE  /\ printed' \in Nat /\ Pkt \in Packets
         /\ \/ LineNo < NLines /\ Pkt' = Pkt /\ LineNo' = LineNo + 1
            \/ LineNo = NLines /\ Pkt' = Pkt + 1 /\ LineNo' = 0
<1>1. NLines + 1 \in Nat /\ NLines + 1 > 1 /\ NLines \in Nat
  BY WebsnifferAssumption
<1> DEFINE m == NLines + 1
<1>2. \/ /\ printed % m < m - 1
         /\ (printed + 1) \div m = printed \div m /\ (printed + 1) % m = (printed % m) + 1
      \/ /\ printed % m = m - 1
         /\ (printed + 1) \div m = (printed \div m) + 1 /\ (printed + 1) % m = 0
  BY <1>1, DivMod
<1>3. printed' = printed + 1 /\ Pkt \in Packets
  BY DEF NodePrints
<1>4. Pkt' = ((printed + 1) \div m) + 1 /\ LineNo' = (printed + 1) % m
  BY <1>3 DEF Pkt, LineNo
<1>5. Pkt = (printed \div m) + 1 /\ LineNo = printed % m
  BY DEF Pkt, LineNo
<1>6. printed \div m \in Nat /\ printed % m \in Nat
  BY <1>1, DivMod
<1> HIDE DEF m
<1>7. m - 1 = NLines
  BY <1>1 DEF m
<1>8. CASE /\ printed % m < m - 1
           /\ (printed + 1) \div m = printed \div m /\ (printed + 1) % m = (printed % m) + 1
  <2>1. LineNo < NLines /\ Pkt' = Pkt /\ LineNo' = LineNo + 1
    BY <1>4, <1>5, <1>7, <1>8
  <2> QED
    BY <2>1, <1>3
<1>9. CASE /\ printed % m = m - 1
           /\ (printed + 1) \div m = (printed \div m) + 1 /\ (printed + 1) % m = 0
  <2>1. LineNo = NLines /\ Pkt' = Pkt + 1 /\ LineNo' = 0
    BY <1>4, <1>5, <1>6, <1>7, <1>9
  <2> QED
    BY <2>1, <1>3
<1> QED
  BY <1>2, <1>8, <1>9

\* A packet that was begun stays begun.
LEMMA BegunStays ==
  ASSUME printed \in Nat, NodePrints \/ UNCHANGED printed, NEW p \in Nat, Begun(p)
  PROVE  Begun(p)'
<1>1. CASE UNCHANGED printed
  BY <1>1 DEF Begun, Pkt, LineNo
<1>2. CASE NodePrints
  <2>1. Pkt \in Nat /\ LineNo \in Nat
    BY Counts
  <2> QED
    BY <1>2, <2>1, NextLine DEF Begun
<1> QED
  BY <1>1, <1>2

\* The items at the positions a task has not come to.
LEMMA AtItems ==
  ASSUME Typed, NEW s \in Sockets, SocketOK(s)
  PROVE  /\ Base(s) \in Nat /\ Top(s) \in Nat /\ Base(s) <= pos[s] /\ pos[s] <= Top(s)
         /\ Top(s) <= offset /\ pos[s] \in Nat /\ offset \in Nat
         /\ Len(content) <= Top(s) /\ Len(content) \in Nat
         /\ \A q \in Ahead(s) : q \in Nat /\ At(s, q) \in Items
<1>1. /\ pos[s] \in Nat /\ pos[s] <= offset /\ offset \in Nat
      /\ ahead[s] \in Seq(Items) /\ content \in Seq(Items)
      /\ Len(content) <= offset /\ Len(ahead[s]) <= pos[s]
  BY DEF Typed, TypeOK, SocketOK
<1>2. /\ Base(s) \in Nat /\ Top(s) \in Nat /\ Base(s) <= pos[s] /\ pos[s] <= Top(s)
      /\ Top(s) <= offset /\ Len(content) <= Top(s) /\ Len(content) \in Nat
  BY <1>1 DEF Base, Top
<1>3. ASSUME NEW q \in Ahead(s) PROVE q \in Nat /\ At(s, q) \in Items
  <2>1. q \in Nat /\ Base(s) < q /\ q <= Top(s)
    BY <1>2 DEF Ahead
  <2>2. CASE q <= pos[s]
    <3>1. q - Base(s) \in 1..Len(ahead[s])
      BY <1>1, <2>1, <2>2 DEF Base
    <3>2. ahead[s][q - Base(s)] \in Items
      BY <1>1, <3>1
    <3> QED
      BY <2>1, <2>2, <3>2 DEF At
  <2>3. CASE q > pos[s]
    <3>1. q \in 1..Len(content)
      BY <1>1, <2>1, <2>3 DEF Top
    <3>2. content[q] \in Items
      BY <1>1, <3>1
    <3> QED
      BY <1>1, <2>1, <2>3, <3>2 DEF At
  <2> QED
    BY <1>1, <2>1, <2>2, <2>3
<1> QED
  BY <1>1, <1>2, <1>3

\* What is flushed comes behind what was in the file, and behind zeros.
LEMMA FlushFile ==
  ASSUME Typed, NEW items \in Seq(Items), items # <<>>, Flush(items)
  PROVE  /\ content' \in Seq(Items) /\ Len(content') = offset' /\ offset' = offset + Len(items)
         /\ \A q \in 1..Len(content) : content'[q] = content[q]
         /\ \A q \in 1..offset : q > Len(content) => content'[q] = Zero
         /\ \A i \in 1..Len(items) : content'[offset + i] = items[i]
<1>1. /\ offset \in Nat /\ content \in Seq(Items) /\ Len(content) <= offset
      /\ Len(content) \in Nat /\ Len(items) \in Nat \ {0}
  BY DEF Typed, TypeOK
<1>2. content' = content \o Hole \o items /\ offset' = offset + Len(items)
  BY DEF Flush
<1>3. Hole \in Seq(Items) /\ Len(Hole) = offset - Len(content)
      /\ \A i \in 1..Len(Hole) : Hole[i] = Zero
  <2>1. Zero \in Items
    BY DEF Zero, Item, Items, Kind
  <2>2. offset - Len(content) \in Nat
    BY <1>1
  <2> QED
    BY <2>1, <2>2 DEF Hole
<1> DEFINE front == content \o Hole
<1>4. /\ front \in Seq(Items) /\ Len(front) = offset
      /\ \A q \in 1..Len(content) : front[q] = content[q]
      /\ \A q \in 1..offset : q > Len(content) => front[q] = Zero
  <2>0. front \in Seq(Items) /\ Len(front) = offset
    BY <1>1, <1>3
  <2>1. \A q \in 1..Len(content) : front[q] = content[q]
    BY <1>1, <1>3
  <2>2. ASSUME NEW q \in 1..offset, q > Len(content) PROVE front[q] = Zero
    <3>1. q - Len(content) \in 1..Len(Hole)
      BY <1>1, <1>3, <2>2
    <3>2. front[q] = Hole[q - Len(content)]
      BY <1>1, <1>3, <2>2, <3>1
    <3> QED
      BY <3>1, <3>2, <1>3
  <2> QED
    BY <2>0, <2>1, <2>2
<1>5. content' = front \o items
  BY <1>2
<1> HIDE DEF front
<1>6. content' \in Seq(Items) /\ Len(content') = offset'
  <2>1. Len(front \o items) = Len(front) + Len(items) /\ front \o items \in Seq(Items)
    BY <1>4
  <2> QED
    BY <1>4, <1>5, <2>1, <1>2
<1>7. \A q \in 1..offset : content'[q] = front[q]
  BY <1>4, <1>5, <1>1
<1>8. \A i \in 1..Len(items) : content'[offset + i] = items[i]
  BY <1>4, <1>5, <1>1
<1>9. 1..Len(content) \subseteq 1..offset
  BY <1>1
<1> QED
  BY <1>4, <1>6, <1>7, <1>8, <1>9, <1>2

\* What the thread writes comes behind all that was in the file, or behind zeros.
LEMMA FlushView ==
  ASSUME Typed, NEW s \in Sockets, SocketOK(s), NEW items \in Seq(Items), items # <<>>,
         Flush(items), pos' = pos, ahead' = ahead
  PROVE  /\ content' \in Seq(Items) /\ Len(content') = offset'
         /\ offset' = offset + Len(items)
         /\ Base(s)' = Base(s) /\ Top(s)' = offset'
         /\ \A q \in Ahead(s) : q \in Ahead(s)' /\ At(s, q)' = At(s, q)
         /\ \A q \in offset + 1..offset' :
              /\ q - offset \in 1..Len(items)
              /\ q \in Ahead(s)' /\ At(s, q)' = items[q - offset]
         /\ \A q \in Ahead(s)' : \/ q \in Ahead(s)
                                 \/ q \in offset + 1..offset'
                                 \/ At(s, q)' = Zero
<1>1. /\ pos[s] \in Nat /\ pos[s] <= offset /\ offset \in Nat
      /\ ahead[s] \in Seq(Items) /\ content \in Seq(Items)
      /\ Len(content) <= offset /\ Len(ahead[s]) <= pos[s]
      /\ Len(content) \in Nat /\ Len(items) \in Nat \ {0}
  BY DEF Typed, TypeOK, SocketOK
<1>2. offset' = offset + Len(items)
  BY FlushFile
<1>4. /\ content' \in Seq(Items) /\ Len(content') = offset'
      /\ \A q \in 1..Len(content) : content'[q] = content[q]
      /\ \A q \in 1..offset : q > Len(content) => content'[q] = Zero
      /\ \A i \in 1..Len(items) : content'[offset + i] = items[i]
  BY FlushFile
<1>5. Base(s)' = Base(s) /\ Top(s)' = offset' /\ Base(s) \in Nat /\ Base(s) <= offset
  BY <1>1, <1>2, <1>4 DEF Base, Top
<1>10. /\ pos[s] \in Nat /\ pos[s] <= offset /\ offset \in Nat /\ offset' = offset + Len(items)
      /\ Len(items) \in Nat \ {0} /\ Len(content) \in Nat
      /\ Base(s) \in Nat /\ Base(s) <= offset
  BY <1>1, <1>2, <1>5
<1>6. Ahead(s)' = Base(s) + 1..offset' /\ offset' \in Nat
  BY <1>1, <1>2, <1>5 DEF Ahead
<1>7. ASSUME NEW q \in Ahead(s) PROVE q \in Ahead(s)' /\ At(s, q)' = At(s, q)
  <2>1. q \in Int /\ Base(s) < q /\ q <= Top(s) /\ Top(s) <= offset /\ Top(s) \in Nat
    BY AtItems DEF Ahead
  <2>2. q \in Ahead(s)'
    BY <1>10, <1>6, <2>1
  <2>3. CASE q <= pos[s]
    BY <2>1, <2>2, <2>3 DEF At, Base
  <2>4. CASE ~(q <= pos[s])
    <3>1. q \in 1..Len(content)
      BY <2>1, <2>4, <1>1 DEF Top
    <3> QED
      BY <2>1, <2>2, <2>4, <3>1, <1>4 DEF At, Base
  <2> QED
    BY <2>2, <2>3, <2>4
<1>8. ASSUME NEW q \in offset + 1..offset'
      PROVE  /\ q - offset \in 1..Len(items)
             /\ q \in Ahead(s)' /\ At(s, q)' = items[q - offset]
  <2>1. q \in Int /\ q > pos[s] /\ q - offset \in 1..Len(items) /\ offset + (q - offset) = q
    BY <1>10
  <2>2. q \in Ahead(s)'
    BY <1>10, <1>6, <2>1
  <2>3. content'[q] = items[q - offset]
    BY <2>1, <1>4
  <2>4. ~(q <= pos'[s])
    BY <2>1, <1>10
  <2> QED
    BY <2>1, <2>2, <2>3, <2>4 DEF At
<1>9. ASSUME NEW q \in Ahead(s)', q \notin Ahead(s),
             q \notin offset + 1..offset'
      PROVE  At(s, q)' = Zero
  <2>1. q \in Int /\ Base(s) < q /\ q <= offset + Len(items)
    BY <1>6, <1>10
  <2>2. q <= offset
    BY <2>1, <1>10, <1>9
  <2>3. q > Top(s) /\ Top(s) \in Nat
    BY <2>1, <1>9, <1>5, AtItems DEF Ahead
  <2>4. q > pos[s] /\ q > Len(content)
    BY <2>3, <1>1, <2>1 DEF Top
  <2>5. content'[q] = Zero
    BY <2>1, <2>2, <2>4, <1>1, <1>4, <1>5
  <2> QED
    BY <2>1, <2>4, <2>5, <1>1 DEF At
<1> QED
  BY <1>2, <1>4, <1>5, <1>7, <1>8, <1>9

\* A task finds the items it has not come to, up to an end of a line or all.
LEMMA UnreadIs ==
  ASSUME Typed, NEW s \in Sockets, SocketOK(s)
  PROVE  /\ Unread(s) \in Seq(Items) /\ Len(ahead[s]) <= Len(Unread(s))
         /\ \A i \in 1..Len(Unread(s)) : /\ Base(s) + i \in Ahead(s)
                                         /\ Unread(s)[i] = At(s, Base(s) + i)
         /\ \/ Len(Unread(s)) = Len(ahead[s]) /\ ToEnd(ahead[s]) # 0
               /\ Unread(s) = ahead[s]
            \/ Len(Unread(s)) = Top(s) - Base(s)
<1>1. /\ pos[s] \in Nat /\ ahead[s] \in Seq(Items) /\ content \in Seq(Items)
      /\ Len(content) \in Nat /\ Len(ahead[s]) \in Nat /\ Len(ahead[s]) <= pos[s]
  BY DEF Typed, TypeOK, SocketOK
<1>2. /\ Base(s) \in Nat /\ Base(s) + Len(ahead[s]) = pos[s] /\ Top(s) \in Nat
      /\ pos[s] <= Top(s)
  BY <1>1, AtItems DEF Base
<1>3. CASE ToEnd(ahead[s]) # 0
  <2>1. Unread(s) = ahead[s] \o <<>>
    BY <1>3 DEF Unread
  <2>2. Unread(s) = ahead[s]
    BY <2>1, <1>1
  <2>3. ASSUME NEW i \in 1..Len(ahead[s])
        PROVE  Base(s) + i \in Ahead(s) /\ ahead[s][i] = At(s, Base(s) + i)
    <3>1. Base(s) + i \in Ahead(s) /\ Base(s) + i <= pos[s] /\ (Base(s) + i) - Base(s) = i
      BY <1>1, <1>2 DEF Ahead
    <3> QED
      BY <3>1 DEF At
  <2> QED
    BY <2>2, <2>3, <1>1, <1>3
<1>4. CASE ToEnd(ahead[s]) = 0
  <2> DEFINE rest == SubSeq(content, pos[s] + 1, Len(content))
  <2>1. Unread(s) = ahead[s] \o rest
    BY <1>4 DEF Unread
  <2>2. /\ rest \in Seq(Items) /\ Len(rest) = Top(s) - pos[s]
        /\ \A i \in 1..Len(rest) : rest[i] = content[pos[s] + i] /\ pos[s] + i \in 1..Len(content)
    <3>1. CASE pos[s] + 1 <= Len(content)
      <4> DEFINE m == pos[s] + 1
                 n == Len(content)
      <4>1. m \in 1..n /\ n \in 0..Len(content) /\ n - m + 1 = Top(s) - pos[s]
        BY <3>1, <1>1 DEF Top
      <4>2. m \in Nat /\ n \in Nat /\ m - 1 = pos[s]
        BY <1>1
      <4> HIDE DEF m, n
      <4>3. /\ SubSeq(content, m, n) \in Seq(Items)
            /\ Len(SubSeq(content, m, n)) = n - m + 1
            /\ \A i \in 1..n - m + 1 : SubSeq(content, m, n)[i] = content[m + i - 1]
        BY <4>1, <4>2, <1>1
      <4>4. \A i \in 1..n - m + 1 : m + i - 1 = pos[s] + i /\ pos[s] + i \in 1..Len(content)
        BY <4>1, <4>2, <1>1
      <4>5. rest = SubSeq(content, m, n)
        BY DEF m, n
      <4> QED
        BY <4>1, <4>3, <4>4, <4>5
    <3>2. CASE ~(pos[s] + 1 <= Len(content))
      BY <3>2, <1>1 DEF Top
    <3> QED
      BY <3>1, <3>2
  <2> HIDE DEF rest
  <2>3. Unread(s) \in Seq(Items) /\ Len(Unread(s)) = Top(s) - Base(s)
    <3>0. ahead[s] \in Seq(Items) /\ rest \in Seq(Items)
      BY <1>1, <2>2
    <3>1. ahead[s] \o rest \in Seq(Items) /\ Len(ahead[s] \o rest) = Len(ahead[s]) + Len(rest)
      BY <3>0
    <3> QED
      BY <3>1, <2>1, <2>2, <1>1, <1>2
  <2>4. ASSUME NEW i \in 1..Len(Unread(s))
        PROVE  Base(s) + i \in Ahead(s) /\ Unread(s)[i] = At(s, Base(s) + i)
    <3>1. Base(s) + i \in Ahead(s) /\ (Base(s) + i) - Base(s) = i /\ i \in Nat
      BY <1>1, <1>2, <2>3 DEF Ahead
    <3>2. CASE i <= Len(ahead[s])
      <4>1. Unread(s)[i] = ahead[s][i]
        BY <2>1, <2>2, <1>1, <3>1, <3>2
      <4>2. Base(s) + i <= pos[s]
        BY <1>1, <1>2, <3>1, <3>2
      <4> QED
        BY <3>1, <4>1, <4>2 DEF At
    <3>3. CASE i > Len(ahead[s])
      <4>1. i - Len(ahead[s]) \in 1..Len(rest) /\ i = Len(ahead[s]) + (i - Len(ahead[s]))
        <5>1. /\ Len(Unread(s)) = Len(ahead[s]) + Len(rest) /\ Len(ahead[s]) \in Nat
              /\ Len(rest) \in Nat /\ i \in Nat /\ i <= Len(Unread(s))
          <6>1. /\ Base(s) \in Nat /\ Top(s) \in Nat /\ Len(ahead[s]) \in Nat
                /\ Base(s) + Len(ahead[s]) = pos[s] /\ pos[s] \in Nat
            BY <1>1, <1>2
          <6>2. Len(rest) = Top(s) - pos[s] /\ Len(rest) \in Nat
            BY <2>2
          <6>3. Len(Unread(s)) = Top(s) - Base(s)
            BY <2>3
          <6>4. i \in Nat /\ i <= Len(Unread(s))
            BY <6>1, <6>3
          <6> QED
            BY <6>1, <6>2, <6>3, <6>4
        <5> QED
          BY <5>1, <3>3
      <4>2. Unread(s)[i] = rest[i - Len(ahead[s])]
        BY <2>1, <2>2, <1>1, <3>1, <3>3, <4>1
      <4>3. pos[s] + (i - Len(ahead[s])) = Base(s) + i /\ ~(Base(s) + i <= pos[s])
        BY <1>1, <1>2, <3>1, <3>3
      <4> QED
        BY <3>1, <4>1, <4>2, <4>3, <2>2 DEF At
    <3> QED
      BY <3>1, <3>2, <3>3, <1>1
  <2>5. Len(ahead[s]) <= Len(Unread(s))
    BY <2>3, <1>1, <1>2
  <2> QED
    BY <2>3, <2>4, <2>5
<1> QED
  BY <1>3, <1>4

\* A task that reads moves on by the line it gets, and nothing else moves.
LEMMA ReadView ==
  ASSUME Typed, NEW s \in Sockets, SocketOK(s), ReadLine(s)
  PROVE  /\ line'[s] \in Seq(Items) /\ ahead'[s] \in Seq(Items)
         /\ Len(ahead'[s]) <= pos'[s] /\ pos'[s] \in {pos[s], Top(s)}
         /\ Base(s)' = Base(s) + Len(line'[s]) /\ Top(s)' = Top(s)
         /\ \A q \in Ahead(s)' : q \in Ahead(s) /\ At(s, q)' = At(s, q)
         /\ \A i \in 1..Len(line'[s]) : /\ Base(s) + i \in Ahead(s)
                                        /\ line'[s][i] = At(s, Base(s) + i)
         /\ \/ /\ Len(line'[s]) > 0 /\ line'[s][Len(line'[s])].is = "end"
               /\ \A i \in 1..Len(line'[s]) - 1 : line'[s][i].is # "end"
               /\ torn' = torn
            \/ /\ Len(line'[s]) = Top(s) - Base(s)
               /\ \A i \in 1..Len(line'[s]) : line'[s][i].is # "end"
               /\ torn' = [torn EXCEPT ![s] = @ \cup {i.pkt : i \in ToSet(line'[s])}]
<1> DEFINE items == Unread(s)
           e == ToEnd(items)
           n == IF e = 0 THEN Len(items) ELSE e
<1>1. /\ pos[s] \in Nat /\ ahead[s] \in Seq(Items) /\ content \in Seq(Items)
      /\ Len(content) \in Nat /\ Len(ahead[s]) \in Nat /\ Len(ahead[s]) <= pos[s]
      /\ DOMAIN pos = Sockets /\ DOMAIN ahead = Sockets /\ DOMAIN line = Sockets
  BY DEF Typed, TypeOK, SocketOK
<1>2. /\ Base(s) \in Nat /\ Base(s) + Len(ahead[s]) = pos[s] /\ Top(s) \in Nat
      /\ pos[s] <= Top(s)
  BY <1>1, AtItems DEF Base
<1>3. /\ items \in Seq(Items) /\ Len(ahead[s]) <= Len(items) /\ Len(items) \in Nat
      /\ \A i \in 1..Len(items) : Base(s) + i \in Ahead(s) /\ items[i] = At(s, Base(s) + i)
      /\ \/ Len(items) = Len(ahead[s]) /\ e # 0
         \/ Len(items) = Top(s) - Base(s)
  BY UnreadIs
<1>4. \/ e = 0 /\ \A i \in 1..Len(items) : items[i].is # "end"
      \/ /\ e \in 1..Len(items) /\ items[e].is = "end"
         /\ \A i \in 1..Len(items) : i < e => items[i].is # "end"
  BY <1>3, FirstEnd
<1>5. /\ line'[s] = SubSeq(items, 1, n) /\ ahead'[s] = SubSeq(items, n + 1, Len(items))
      /\ pos'[s] = pos[s] + Len(items) - Len(ahead[s])
      /\ content' = content
      /\ torn' = IF e > 0 THEN torn
                 ELSE [torn EXCEPT ![s] = @ \cup {i.pkt : i \in ToSet(items)}]
  BY <1>1 DEF ReadLine, Rest, fileVars
<1> HIDE DEF items
<1>6. n \in 0..Len(items)
  BY <1>3, <1>4
<1>7. /\ line'[s] \in Seq(Items) /\ Len(line'[s]) = n
      /\ \A i \in 1..n : line'[s][i] = items[i]
  <2> HIDE DEF n
  <2> QED
    BY <1>3, <1>5, <1>6
<1>8. /\ ahead'[s] \in Seq(Items) /\ Len(ahead'[s]) = Len(items) - n
      /\ \A i \in 1..Len(items) - n : ahead'[s][i] = items[n + i]
  <2> HIDE DEF n
  <2>1. CASE n = Len(items)
    <3>1. ahead'[s] = <<>>
      BY <2>1, <1>3, <1>5
    <3> QED
      BY <3>1, <2>1, <1>3
  <2>2. CASE n < Len(items)
    <3> DEFINE m == n + 1
    <3>1. m \in 1..Len(items) /\ Len(items) - m + 1 = Len(items) - n /\ m - 1 = n /\ m \in Nat
      BY <2>2, <1>3, <1>6
    <3>2. ahead'[s] = SubSeq(items, m, Len(items))
      BY <1>5
    <3> HIDE DEF m
    <3>3. /\ SubSeq(items, m, Len(items)) \in Seq(Items)
          /\ Len(SubSeq(items, m, Len(items))) = Len(items) - m + 1
          /\ \A i \in 1..Len(items) - m + 1 :
               SubSeq(items, m, Len(items))[i] = items[m + i - 1]
      BY <3>1, <1>3
    <3>4. \A i \in 1..Len(items) - n : m + i - 1 = n + i
      BY <3>1, <1>3, <1>6
    <3> QED
      BY <3>1, <3>2, <3>3, <3>4
  <2>3. n = Len(items) \/ n < Len(items)
    BY <1>3, <1>6
  <2> QED
    BY <2>1, <2>2, <2>3
<1>9. /\ Base(s)' = Base(s) + n /\ Len(ahead'[s]) <= pos'[s] /\ pos'[s] \in {pos[s], Top(s)}
      /\ Top(s)' = Top(s) /\ pos'[s] \in Nat /\ pos[s] <= pos'[s]
  <2> HIDE DEF n, e
  <2>1. pos'[s] = Base(s) + Len(items) /\ pos'[s] \in {pos[s], Top(s)} /\ pos[s] <= pos'[s]
    <3>1. /\ pos[s] \in Nat /\ Len(ahead[s]) \in Nat /\ Len(items) \in Nat
          /\ Base(s) \in Nat /\ Base(s) + Len(ahead[s]) = pos[s] /\ Top(s) \in Nat
          /\ Len(ahead[s]) <= Len(items)
          /\ Len(items) = Len(ahead[s]) \/ Len(items) = Top(s) - Base(s)
          /\ pos'[s] = pos[s] + Len(items) - Len(ahead[s])
      BY <1>1, <1>2, <1>3, <1>5
    <3> QED
      BY <3>1
  <2>2. Base(s)' = Base(s) + n /\ Len(ahead'[s]) <= pos'[s]
    <3>1. Base(s)' = pos'[s] - Len(ahead'[s])
      BY DEF Base
    <3> QED
      BY <3>1, <2>1, <1>2, <1>3, <1>6, <1>8
  <2>3. Top(s)' = Top(s)
    BY <2>1, <1>1, <1>2, <1>5 DEF Top
  <2> QED
    BY <2>1, <2>2, <2>3, <1>2, <1>3
<1>10. ASSUME NEW q \in Ahead(s)' PROVE q \in Ahead(s) /\ At(s, q)' = At(s, q)
  <2> HIDE DEF n, e
  <2>1. q \in Int /\ Base(s) + n < q /\ q <= Top(s)
    BY <1>2, <1>6, <1>9 DEF Ahead
  <2>2. q \in Ahead(s)
    BY <2>1, <1>2, <1>3, <1>6 DEF Ahead
  <2>3. CASE q <= pos'[s]
    <3>1. /\ q - (Base(s) + n) \in 1..Len(items) - n /\ q - Base(s) \in 1..Len(items)
          /\ n + (q - (Base(s) + n)) = q - Base(s) /\ Base(s) + (q - Base(s)) = q
      <4>1. /\ pos[s] \in Nat /\ Len(ahead[s]) \in Nat /\ Len(items) \in Nat /\ n \in Nat
            /\ Base(s) \in Nat /\ Base(s) + Len(ahead[s]) = pos[s] /\ n <= Len(items)
            /\ pos'[s] = pos[s] + Len(items) - Len(ahead[s])
        BY <1>1, <1>2, <1>3, <1>5, <1>6
      <4> DEFINE b == Base(s)
                 l == Len(items)
                 c == pos'[s]
      <4>2. b \in Nat /\ l \in Nat /\ n \in Nat /\ n <= l /\ c = b + l
        BY <4>1
      <4>3. q \in Int /\ b + n < q /\ q <= c
        BY <2>1, <2>3
      <4> HIDE DEF b, l, c, items
      <4>4. q - (b + n) \in 1..l - n /\ q - b \in 1..l
        BY <4>2, <4>3
      <4>5. n + (q - (b + n)) = q - b /\ b + (q - b) = q
        BY <4>2, <4>3
      <4> QED
        BY <4>4, <4>5 DEF b, l
    <3>2. ahead'[s][q - (Base(s) + n)] = items[q - Base(s)]
      BY <3>1, <1>8
    <3>3. At(s, q)' = ahead'[s][q - Base(s)']
      BY <2>3 DEF At
    <3> QED
      BY <3>1, <3>2, <3>3, <2>2, <1>3, <1>9
  <2>4. CASE ~(q <= pos'[s])
    <3>1. ~(q <= pos[s])
      BY <2>1, <2>4, <1>1, <1>9
    <3> QED
      BY <2>2, <2>4, <3>1, <1>5 DEF At
  <2> QED
    BY <2>3, <2>4
<1>11. \A i \in 1..Len(line'[s]) : /\ Base(s) + i \in Ahead(s)
                                   /\ line'[s][i] = At(s, Base(s) + i)
  BY <1>3, <1>6, <1>7
<1>12. CASE e = 0
  <2>1. n = Len(items) /\ line'[s] = items
    BY <1>3, <1>5, <1>12
  <2>2. Len(items) = Top(s) - Base(s)
    BY <1>3, <1>12
  <2>3. torn' = [torn EXCEPT ![s] = @ \cup {i.pkt : i \in ToSet(line'[s])}]
    <3>1. torn' = [torn EXCEPT ![s] = @ \cup {i.pkt : i \in ToSet(items)}]
      <4>1. ~(e > 0)
        BY <1>12
      <4> QED
        BY <4>1, <1>5
    <3> QED
      BY <2>1, <3>1
  <2>4. \A i \in 1..Len(line'[s]) : line'[s][i].is # "end"
    BY <2>1, <1>4, <1>12
  <2> QED
    BY <2>1, <2>2, <2>3, <2>4, <1>7, <1>8, <1>9, <1>10, <1>11
<1>13. CASE e # 0
  <2>1. n = e /\ n > 0 /\ torn' = torn /\ line'[s][n].is = "end"
    BY <1>4, <1>5, <1>7, <1>13
  <2>2. \A i \in 1..n - 1 : line'[s][i].is # "end"
    BY <1>3, <1>4, <1>6, <1>7, <1>13
  <2> QED
    BY <2>1, <2>2, <1>7, <1>8, <1>9, <1>10, <1>11
<1> QED
  BY <1>12, <1>13

-----------------------------------------------------------------------------
(***************************************************************************)
(* The order of the packets                                                *)
(***************************************************************************)

\* What the thread does to the file and its buffer keeps the order for every task.
LEMMA InOrderGrows ==
  ASSUME Typed, BufferOK, NEW s \in Sockets, SocketOK(s), InOrder(s),
         line'[s] = line[s], handled'[s] = handled[s],
         \A p \in Nat : Begun(p) => Begun(p)',
         \A q \in Headers(s)' :
           \/ q \in Headers(s) /\ At(s, q)' = At(s, q)
           \/ /\ q \in Int /\ q > offset /\ q - offset \in DOMAIN buffer
              /\ At(s, q)' = buffer[q - offset] /\ buffer' = <<>>,
         \A i \in DOMAIN buffer' :
           \/ i \in DOMAIN buffer /\ buffer'[i] = buffer[i]
           \/ \A p \in Nat : Begun(p) => p < buffer'[i].pkt
  PROVE  InOrder(s)'
<1>1. /\ offset \in Nat /\ buffer \in Seq(Items)
      /\ \A q \in Headers(s) : q \in Nat /\ q <= offset /\ At(s, q).pkt \in Nat
      /\ \A i \in DOMAIN buffer : i \in Nat /\ buffer[i].pkt \in Nat
  <2>1. offset \in Nat /\ buffer \in Seq(Items) /\ Top(s) \in Nat /\ Top(s) <= offset
        /\ Base(s) \in Nat
    BY AtItems DEF Typed
  <2>2. ASSUME NEW q \in Headers(s) PROVE q \in Nat /\ q <= offset /\ At(s, q).pkt \in Nat
    <3>1. q \in Nat /\ q <= Top(s) /\ At(s, q) \in Items
      BY <2>1, AtItems DEF Headers, Ahead
    <3> QED
      BY <3>1, <2>1 DEF Items
  <2>3. ASSUME NEW i \in DOMAIN buffer PROVE i \in Nat /\ buffer[i].pkt \in Nat
    <3>1. i \in Nat /\ buffer[i] \in Items
      BY <2>1
    <3> QED
      BY <3>1 DEF Items
  <2> QED
    BY <2>1, <2>2, <2>3
<1>2. ASSUME NEW p \in Nat, Older(s, p) PROVE Older(s, p)'
  <2>1. Begun(p) /\ Begun(p)'
    BY <1>2 DEF Older
  <2>2. ASSUME NEW q \in Headers(s)' PROVE p < At(s, q)'.pkt
    BY <1>2 DEF Older
  <2>3. ASSUME NEW i \in DOMAIN buffer' PROVE p < buffer'[i].pkt
    BY <1>2, <2>1 DEF Older
  <2> QED
    BY <2>1, <2>2, <2>3 DEF Older
<1>3. ASSUME NEW q \in Headers(s)'
      PROVE  /\ Begun(At(s, q).pkt)'
             /\ \A r \in Headers(s)' : q < r => At(s, q)'.pkt < At(s, r)'.pkt
             /\ \A i \in DOMAIN buffer' : At(s, q)'.pkt < buffer'[i].pkt
  <2>1. CASE q \in Headers(s) /\ At(s, q)' = At(s, q)
    <3>1. /\ Begun(At(s, q).pkt) /\ At(s, q).pkt \in Nat
          /\ \A r \in Headers(s) : q < r => At(s, q).pkt < At(s, r).pkt
          /\ \A i \in DOMAIN buffer : At(s, q).pkt < buffer[i].pkt
      BY <1>1, <2>1 DEF InOrder
    <3> DEFINE p == At(s, q).pkt
    <3>2. Begun(At(s, q).pkt)'
      <4> SUFFICES ASSUME NEW x \in Nat, x = At(s, q)'.pkt PROVE Begun(x)'
        BY <2>1, <3>1
      <4>1. Begun(x)
        BY <2>1, <3>1
      <4> QED
        BY <4>1
    <3>3. ASSUME NEW r \in Headers(s)', q < r PROVE At(s, q)'.pkt < At(s, r)'.pkt
      BY <2>1, <3>1, <3>3
    <3>4. ASSUME NEW i \in DOMAIN buffer' PROVE At(s, q)'.pkt < buffer'[i].pkt
      BY <2>1, <3>1
    <3> QED
      BY <3>2, <3>3, <3>4
  <2>2. CASE /\ q \in Int /\ q > offset /\ q - offset \in DOMAIN buffer
             /\ At(s, q)' = buffer[q - offset] /\ buffer' = <<>>
    <3>1. Begun(buffer[q - offset].pkt) /\ buffer[q - offset].pkt \in Nat
      BY <1>1, <2>2 DEF BufferOK
    <3>2. Begun(At(s, q).pkt)'
      <4> SUFFICES ASSUME NEW x \in Nat, x = At(s, q)'.pkt PROVE Begun(x)'
        BY <2>2, <3>1
      <4>1. Begun(x)
        BY <2>2, <3>1
      <4> QED
        BY <4>1
    <3>3. ASSUME NEW r \in Headers(s)', q < r PROVE At(s, q)'.pkt < At(s, r)'.pkt
      <4>1. r \notin Headers(s)
        BY <1>1, <2>2, <3>3
      <4>2. /\ r \in Int /\ r - offset \in DOMAIN buffer /\ At(s, r)' = buffer[r - offset]
            /\ q - offset < r - offset
        BY <4>1, <1>1, <2>2, <3>3
      <4> QED
        BY <4>2, <2>2 DEF BufferOK
    <3> QED
      BY <2>2, <3>2, <3>3
  <2> QED
    BY <2>1, <2>2
<1>4. ASSUME line'[s] # <<>>, line'[s][1].is = "header"
      PROVE  /\ Older(s, line[s][1].pkt)'
             /\ \A i \in DOMAIN handled'[s] : handled'[s][i].pkt < line'[s][1].pkt
  <2>1. line[s] # <<>> /\ line[s][1].is = "header"
    BY <1>4
  <2>2. line[s][1].pkt \in Nat
    <3>1. line[s] \in Seq(Items)
      BY DEF Typed
    <3>2. line[s][1] \in Items
      BY <3>1, <2>1
    <3> QED
      BY <3>2 DEF Items
  <2>3. /\ Older(s, line[s][1].pkt)
        /\ \A i \in DOMAIN handled[s] : handled[s][i].pkt < line[s][1].pkt
    BY <2>1 DEF InOrder
  <2>4. Older(s, line[s][1].pkt)'
    <3> SUFFICES ASSUME NEW x \in Nat, x = line'[s][1].pkt PROVE Older(s, x)'
      BY <2>2
    <3>1. Older(s, x)
      BY <2>3
    <3> QED
      BY <3>1, <1>2
  <2> QED
    BY <2>3, <2>4
<1>5. ASSUME NEW i \in DOMAIN handled'[s]
      PROVE  /\ Older(s, handled[s][i].pkt)'
             /\ \A j \in DOMAIN handled'[s] : i < j => handled'[s][i].pkt < handled'[s][j].pkt
  <2>1. handled[s][i].pkt \in Nat
    <3>1. handled[s] \in Seq(Told)
      BY DEF Typed
    <3>2. handled[s][i] \in Told
      BY <3>1
    <3> QED
      BY <3>2 DEF Told
  <2>2. Older(s, handled[s][i].pkt)'
    <3> SUFFICES ASSUME NEW x \in Nat, x = handled'[s][i].pkt PROVE Older(s, x)'
      BY <2>1
    <3>1. Older(s, x)
      BY DEF InOrder
    <3> QED
      BY <3>1, <1>2
  <2> QED
    BY <2>2 DEF InOrder
<1> QED
  BY <1>3, <1>4, <1>5 DEF InOrder

\* Neither the file nor what the task read of it changes.
LEMMA SameView ==
  ASSUME NEW s \in Sockets, pos'[s] = pos[s], ahead'[s] = ahead[s], content' = content
  PROVE  /\ Base(s)' = Base(s) /\ Top(s)' = Top(s) /\ Ahead(s)' = Ahead(s)
         /\ \A q : At(s, q)' = At(s, q)
         /\ Headers(s)' = Headers(s)
<1>1. Base(s)' = Base(s) /\ Top(s)' = Top(s)
  BY DEF Base, Top
<1>2. Ahead(s)' = Ahead(s)
  BY <1>1 DEF Ahead
<1>3. \A q : At(s, q)' = At(s, q)
  BY <1>1 DEF At
<1>4. Headers(s)' = Headers(s)
  BY <1>2, <1>3 DEF Headers
<1> QED
  BY <1>1, <1>2, <1>3, <1>4

\* A line that is read begins with the oldest header the task has not come to.
LEMMA ReadKeepsOrder ==
  ASSUME Typed, NEW s \in Sockets, SocketOK(s), InOrder(s), ReadLine(s)
  PROVE  InOrder(s)'
<1>1. /\ Base(s)' = Base(s) + Len(line'[s])
      /\ \A q \in Ahead(s)' : q \in Ahead(s) /\ At(s, q)' = At(s, q)
      /\ \A i \in 1..Len(line'[s]) : /\ Base(s) + i \in Ahead(s)
                                     /\ line'[s][i] = At(s, Base(s) + i)
      /\ line'[s] \in Seq(Items)
  BY ReadView
<1>2. printed' = printed /\ buffer' = buffer /\ handled' = handled
  BY DEF ReadLine, threadVars
<1>3. \A q \in Headers(s)' : q \in Headers(s) /\ At(s, q)' = At(s, q)
  BY <1>1 DEF Headers
<1>4. \A q \in Headers(s) : At(s, q).pkt \in Nat /\ q \in Nat
  <2> SUFFICES ASSUME NEW q \in Headers(s) PROVE At(s, q).pkt \in Nat /\ q \in Nat
    OBVIOUS
  <2>1. At(s, q) \in Items /\ q \in Nat
    BY AtItems DEF Headers
  <2> QED
    BY <2>1 DEF Items
<1>5. \A p : Begun(p) => Begun(p)'
  BY <1>2 DEF Begun, Pkt, LineNo
<1>6. ASSUME NEW p \in Nat, Older(s, p) PROVE Older(s, p)'
  <2>1. Begun(p)'
    BY <1>5, <1>6 DEF Older
  <2>2. \A q \in Headers(s)' : p < At(s, q)'.pkt
    BY <1>3, <1>6 DEF Older
  <2>3. \A i \in DOMAIN buffer' : p < buffer'[i].pkt
    BY <1>2, <1>6 DEF Older
  <2> QED
    BY <2>1, <2>2, <2>3 DEF Older
<1>7. ASSUME NEW q \in Headers(s)'
      PROVE  /\ Begun(At(s, q).pkt)'
             /\ \A r \in Headers(s)' : q < r => At(s, q)'.pkt < At(s, r)'.pkt
             /\ \A i \in DOMAIN buffer' : At(s, q)'.pkt < buffer'[i].pkt
  <2>1. Begun(At(s, q).pkt)'
    <3> SUFFICES ASSUME NEW x \in Nat, x = At(s, q)'.pkt PROVE Begun(x)'
      BY <1>3, <1>4
    <3>1. Begun(x)
      BY <1>3 DEF InOrder
    <3> QED
      BY <3>1, <1>5
  <2> QED
    BY <2>1, <1>2, <1>3 DEF InOrder
<1>8. ASSUME line'[s] # <<>>, line'[s][1].is = "header"
      PROVE  /\ Older(s, line[s][1].pkt)'
             /\ \A i \in DOMAIN handled'[s] : handled'[s][i].pkt < line'[s][1].pkt
  <2> DEFINE q == Base(s) + 1
             p == At(s, q).pkt
  <2>1. 1 \in 1..Len(line'[s]) /\ Len(line'[s]) \in Nat
    BY <1>1, <1>8
  <2>2. q \in Headers(s) /\ line'[s][1] = At(s, q)
    BY <2>1, <1>1, <1>8 DEF Headers
  <2>3. p \in Nat /\ p = line'[s][1].pkt
    BY <2>2, <1>4
  <2>4. Base(s) \in Nat
    BY AtItems
  <2>5. \A r \in Headers(s)' : q < r
    <3> SUFFICES ASSUME NEW r \in Headers(s)' PROVE q < r
      OBVIOUS
    <3>1. r \in Base(s)' + 1..Top(s)'
      BY DEF Headers, Ahead
    <3> QED
      BY <3>1, <2>1, <2>4, <1>1
  <2> HIDE DEF q
  <2>6. /\ Begun(p)
        /\ \A r \in Headers(s)' : p < At(s, r)'.pkt
        /\ \A i \in DOMAIN buffer : p < buffer[i].pkt
    BY <2>2, <2>5, <1>3 DEF InOrder
  <2>7. Older(s, line[s][1].pkt)'
    <3> SUFFICES ASSUME NEW x \in Nat, x = line'[s][1].pkt PROVE Older(s, x)'
      BY <2>3
    <3> QED
      BY <2>3, <2>6, <1>2, <1>5 DEF Older
  <2>8. ASSUME NEW i \in DOMAIN handled[s] PROVE handled[s][i].pkt < p
    BY <2>2 DEF InOrder, Older
  <2> QED
    BY <2>3, <2>7, <2>8, <1>2
<1>9. ASSUME NEW i \in DOMAIN handled'[s]
      PROVE  /\ Older(s, handled[s][i].pkt)'
             /\ \A j \in DOMAIN handled'[s] : i < j => handled'[s][i].pkt < handled'[s][j].pkt
  <2>1. handled[s][i].pkt \in Nat
    <3>1. handled[s] \in Seq(Told)
      BY DEF Typed
    <3>2. handled[s][i] \in Told
      BY <3>1, <1>2
    <3> QED
      BY <3>2 DEF Told
  <2>2. Older(s, handled[s][i].pkt)'
    <3> SUFFICES ASSUME NEW x \in Nat, x = handled'[s][i].pkt PROVE Older(s, x)'
      BY <2>1, <1>2
    <3>1. Older(s, x)
      BY <1>2 DEF InOrder
    <3> QED
      BY <3>1, <1>6
  <2> QED
    BY <2>2, <1>2 DEF InOrder
<1> QED
  BY <1>7, <1>8, <1>9 DEF InOrder

\* What a task does with its line keeps the order.
LEMMA HandleKeepsOrder ==
  ASSUME Typed, NEW s \in Sockets, SocketOK(s), InOrder(s), HandleLine(s)
  PROVE  InOrder(s)'
<1>1. /\ printed' = printed /\ buffer' = buffer /\ content' = content
      /\ pos' = pos /\ ahead' = ahead /\ line'[s] = <<>>
      /\ handled[s] \in Seq(Told) /\ line[s] \in Seq(Items)
  BY DEF HandleLine, threadVars, fileVars, Typed
<1>2. /\ Headers(s)' = Headers(s) /\ \A q : At(s, q)' = At(s, q)
  BY <1>1, SameView
<1>3. \A p : Begun(p) => Begun(p)'
  BY <1>1 DEF Begun, Pkt, LineNo
<1>4. \A q \in Headers(s) : At(s, q).pkt \in Nat
  <2> SUFFICES ASSUME NEW q \in Headers(s) PROVE At(s, q).pkt \in Nat
    OBVIOUS
  <2>1. At(s, q) \in Items
    BY AtItems DEF Headers
  <2> QED
    BY <2>1 DEF Items
<1>5. ASSUME NEW q \in Headers(s)'
      PROVE  /\ Begun(At(s, q).pkt)'
             /\ \A r \in Headers(s)' : q < r => At(s, q)'.pkt < At(s, r)'.pkt
             /\ \A i \in DOMAIN buffer' : At(s, q)'.pkt < buffer'[i].pkt
  <2>1. Begun(At(s, q).pkt)'
    <3> SUFFICES ASSUME NEW x \in Nat, x = At(s, q)'.pkt PROVE Begun(x)'
      BY <1>2, <1>4
    <3>1. Begun(x)
      BY <1>2 DEF InOrder
    <3> QED
      BY <3>1, <1>3
  <2> QED
    BY <2>1, <1>1, <1>2 DEF InOrder
<1>6. ASSUME NEW p \in Nat, Older(s, p) PROVE Older(s, p)'
  BY <1>1, <1>2, <1>3, <1>6 DEF Older
<1>7. \/ handled' = handled
      \/ /\ line[s] # <<>> /\ line[s][1].is = "header"
         /\ \E w \in BOOLEAN :
              handled'[s] = Append(handled[s], [pkt |-> line[s][1].pkt, whole |-> w])
  <2>1. DOMAIN handled = Sockets
    BY DEF Typed
  <2>2. CASE IsPacket(line[s]) /\ Handles(s, line[s][1].pkt)
    <3>1. Whole(line[s][1].pkt, line[s]) \in BOOLEAN
      BY DEF Whole
    <3>2. handled'[s] = Append(handled[s], [pkt |-> line[s][1].pkt,
                                            whole |-> Whole(line[s][1].pkt, line[s])])
      BY <2>1, <2>2 DEF Handles
    <3>3. line[s] # <<>> /\ line[s][1].is = "header"
      BY <2>2 DEF IsPacket
    <3> QED
      BY <3>1, <3>2, <3>3
  <2>3. CASE TooLate(s, line[s][1].pkt)
    BY <2>3 DEF TooLate
  <2>4. CASE Ignores(s)
    BY <2>4 DEF Ignores
  <2> QED
    BY <2>2, <2>3, <2>4 DEF HandleLine
<1>8. ASSUME NEW i \in DOMAIN handled[s]
      PROVE  /\ handled[s][i].pkt \in Nat /\ Older(s, handled[s][i].pkt)
             /\ \A j \in DOMAIN handled[s] : i < j => handled[s][i].pkt < handled[s][j].pkt
             /\ line[s] # <<>> /\ line[s][1].is = "header" => handled[s][i].pkt < line[s][1].pkt
  <2>1. handled[s][i] \in Told
    BY <1>1
  <2> QED
    BY <2>1 DEF InOrder, Told
<1>9. ASSUME NEW i \in DOMAIN handled'[s]
      PROVE  /\ Older(s, handled[s][i].pkt)'
             /\ \A j \in DOMAIN handled'[s] : i < j => handled'[s][i].pkt < handled'[s][j].pkt
  <2> SUFFICES ASSUME NEW x, x = handled'[s][i].pkt
               PROVE  /\ x \in Nat /\ Older(s, x)
                      /\ \A j \in DOMAIN handled'[s] : i < j => x < handled'[s][j].pkt
    BY <1>6
  <2>1. CASE handled' = handled
    BY <2>1, <1>8
  <2>2. ASSUME NEW w \in BOOLEAN, line[s] # <<>>, line[s][1].is = "header",
               handled'[s] = Append(handled[s], [pkt |-> line[s][1].pkt, whole |-> w])
        PROVE  /\ x \in Nat /\ Older(s, x)
               /\ \A j \in DOMAIN handled'[s] : i < j => x < handled'[s][j].pkt
    <3> DEFINE n == Len(handled[s])
               t == [pkt |-> line[s][1].pkt, whole |-> w]
    <3>1. line[s][1] \in Items
      BY <1>1, <2>2
    <3>2. t \in Told /\ t.pkt = line[s][1].pkt
      BY <3>1 DEF Items, Told
    <3>3. n \in Nat /\ DOMAIN handled[s] = 1..n
      BY <1>1
    <3> HIDE DEF t
    <3>4. /\ DOMAIN handled'[s] = 1..n + 1 /\ handled'[s][n + 1] = t
          /\ \A j \in 1..n : handled'[s][j] = handled[s][j]
      BY <2>2, <3>2, <1>1 DEF t
    <3>5. Older(s, t.pkt) /\ t.pkt \in Nat
      BY <2>2, <3>2 DEF InOrder, Told
    <3> HIDE DEF n
    <3>6. CASE i = n + 1
      BY <3>3, <3>4, <3>5, <3>6
    <3>7. CASE i \in 1..n
      <4>1. x = handled[s][i].pkt /\ x \in Nat /\ Older(s, x) /\ x < t.pkt
        BY <2>2, <3>2, <3>3, <3>4, <3>7, <1>8
      <4>2. ASSUME NEW j \in 1..n + 1, i < j PROVE x < handled'[s][j].pkt
        <5>1. CASE j = n + 1
          BY <5>1, <4>1, <3>4
        <5>2. CASE j \in 1..n
          BY <5>2, <4>1, <4>2, <3>3, <3>4, <3>7, <1>8
        <5> QED
          BY <5>1, <5>2, <3>3
      <4> QED
        BY <4>1, <4>2, <3>4
    <3> QED
      BY <3>3, <3>4, <3>6, <3>7
  <2> QED
    BY <2>1, <2>2, <1>7
<1> QED
  BY <1>1, <1>5, <1>9 DEF InOrder

-----------------------------------------------------------------------------
(***************************************************************************)
(* The packets a task has not come to                                      *)
(***************************************************************************)

\* What ToCome says of the state after a step.
LEMMA Comes ==
  ASSUME NEW s \in Sockets, NEW p \in Nat, NEW b, NEW n, Start(p)' = b, Written(p)' = n,
         Base(s)' < b,
         \A k \in 0..n - 1 : b + k \in Ahead(s)' /\ At(s, b + k)' = Piece(p, k),
         \/ Base(s)' = b - 1
         \/ b - 1 \in Ahead(s)' /\ At(s, b - 1)' = End
         \/ n = 0 /\ content' = <<>> /\ pos'[s] < offset',
         p < Pkt' => pos'[s] # end'[p] - 1
  PROVE  ToCome(s, p)'
<1>1. End' = End /\ \A k : Piece(p, k)' = Piece(p, k)
  BY DEF Piece, End, Item
<1>2. \A k \in 0..Written(p)' - 1 :
        Start(p)' + k \in Ahead(s)' /\ At(s, Start(p) + k)' = Piece(p, k)'
  BY <1>1
<1> QED
  BY <1>1, <1>2 DEF ToCome

\* A packet that was printed stays where it is when the file grows.
LEMMA OldComes ==
  ASSUME NEW s \in Sockets, NEW p \in Nat, p < Pkt, p < Pkt', end'[p] = end[p],
         ToCome(s, p), Base(s)' = Base(s), pos'[s] = pos[s],
         NLines \in Nat, \A q \in Ahead(s) : q \in Ahead(s)' /\ At(s, q)' = At(s, q)
  PROVE  ToCome(s, p)'
<1>1. /\ Start(p) = end[p] - NLines - 1 /\ Start(p)' = end[p] - NLines - 1
      /\ Written(p) = NLines + 2 /\ Written(p)' = NLines + 2
  BY DEF Start, Written
<1> SUFFICES ASSUME NEW b, NEW n, b = Start(p), n = Written(p) PROVE ToCome(s, p)'
  OBVIOUS
<1>2. n # 0 /\ Start(p)' = b /\ Written(p)' = n
  BY <1>1
<1>3. \A k \in 0..n - 1 : b + k \in Ahead(s)' /\ At(s, b + k)' = Piece(p, k)
  BY DEF ToCome
<1>4. \/ Base(s)' = b - 1
      \/ b - 1 \in Ahead(s)' /\ At(s, b - 1)' = End
  BY <1>2 DEF ToCome
<1>5. Base(s)' < b /\ pos'[s] # end'[p] - 1
  BY DEF ToCome
<1> QED
  BY <1>2, <1>3, <1>4, <1>5, Comes

\* What was written of a packet goes on where it ended, unless the file was emptied
\* before anything of it was in the file.
LEMMA PieceComes ==
  ASSUME Typed, NEW s \in Sockets, SocketOK(s), NEW p \in Nat, ToCome(s, p),
         NEW w \in Nat, Written(p) = w, Start(p) = offset - w + 1,
         NEW items \in Seq(Items), items # <<>>, Flush(items), pos' = pos, ahead' = ahead,
         \A i \in 1..Len(items) : items[i] = Piece(p, w + i - 1),
         Start(p)' = offset - w + 1, Written(p)' = w + Len(items),
         p \notin emptied'[s], p < Pkt' => pos[s] # end'[p] - 1
  PROVE  ToCome(s, p)'
<1> SUFFICES ASSUME NEW b, NEW n, b = offset - w + 1, n = w + Len(items)
             PROVE  ToCome(s, p)'
  OBVIOUS
<1>1. /\ Base(s)' = Base(s) /\ offset' = offset + Len(items)
      /\ \A q \in Ahead(s) : q \in Ahead(s)' /\ At(s, q)' = At(s, q)
      /\ \A q \in offset + 1..offset' : /\ q - offset \in 1..Len(items)
                                        /\ q \in Ahead(s)' /\ At(s, q)' = items[q - offset]
  BY FlushView
<1>2. /\ offset \in Nat /\ Len(items) \in Nat /\ Len(items) > 0 /\ Base(s) \in Nat
      /\ Base(s) <= offset /\ DOMAIN emptied = Sockets
  <2>1. Len(items) \in Nat /\ Len(items) > 0
    OBVIOUS
  <2>2. offset \in Nat /\ Base(s) \in Nat /\ Base(s) <= offset
    BY AtItems
  <2> QED
    BY <2>1, <2>2 DEF Typed
<1>3. ASSUME NEW k \in 0..n - 1 PROVE b + k \in Ahead(s)' /\ At(s, b + k)' = Piece(p, k)
  <2> SUFFICES ASSUME NEW q, q = b + k PROVE q \in Ahead(s)' /\ At(s, q)' = Piece(p, k)
    BY <1>2
  <2>1. CASE k \in 0..w - 1
    BY <2>1, <1>1 DEF ToCome
  <2>2. CASE k \notin 0..w - 1
    <3>1. q \in offset + 1..offset' /\ q - offset = k - w + 1 /\ w + (k - w + 1) - 1 = k
      BY <2>2, <1>1, <1>2
    <3> QED
      BY <3>1, <1>1
  <2> QED
    BY <2>1, <2>2
<1>4. \/ Base(s) = b - 1
      \/ b - 1 \in Ahead(s) /\ At(s, b - 1) = End
  <2>0. \/ Base(s) = b - 1
        \/ b - 1 \in Ahead(s) /\ At(s, b - 1) = End
        \/ w = 0 /\ content = <<>> /\ pos[s] < offset
    BY DEF ToCome
  <2> SUFFICES ASSUME w = 0, content = <<>>, pos[s] < offset PROVE FALSE
    BY <2>0
  <2>1. Hole # <<>>
    <3>1. 1 \in 1..offset - Len(content)
      BY <1>2, AtItems
    <3>2. 1 \in DOMAIN Hole
      BY <3>1 DEF Hole
    <3> QED
      BY <3>2
  <2>2. items[1].pkt = p
    <3>1. items[1] = Piece(p, 0)
      BY <1>2
    <3> QED
      BY <3>1 DEF Piece, Item
  <2>3. p \in emptied'[s]
    BY <2>1, <2>2, <1>2 DEF Flush
  <2> QED
    BY <2>3
<1>5. Base(s) < b
  BY DEF ToCome
<1>6. \/ Base(s)' = b - 1
      \/ b - 1 \in Ahead(s)' /\ At(s, b - 1)' = End
  BY <1>1, <1>4
<1>7. p < Pkt' => pos'[s] # end'[p] - 1
  OBVIOUS
<1> QED
  BY <1>1, <1>3, <1>5, <1>6, <1>7, Comes

\* The thread's steps keep what it says of a task, but for the packet being printed.
LEMMA GrowsIntact ==
  ASSUME Typed, NEW s \in Sockets, Intact(s),
         NodePrints \/ UNCHANGED printed,
         Base(s)' = Base(s), pos'[s] = pos[s],
         \A q \in Ahead(s) : q \in Ahead(s)' /\ At(s, q)' = At(s, q),
         task' = task, line' = line, handled' = handled, torn' = torn,
         cut \subseteq cut', emptied[s] \subseteq emptied'[s],
         \A p \in Packets : p # Pkt => end'[p] = end[p],
         \A p \in Packets : p = Pkt /\ p \notin cut' /\ p \notin emptied'[s] /\ Begun(p)'
                              /\ (Begun(p) => ToCome(s, p)) => ToCome(s, p)'
  PROVE  Intact(s)'
<1> SUFFICES ASSUME NEW p \in Packets, p \notin cut', p \notin torn'[s], p \notin emptied'[s],
                    Begun(p)'
             PROVE  ToCome(s, p)' \/ Taken(s, p)'
  BY DEF Intact, Packets
<1>0. NLines \in Nat /\ p \in Nat /\ printed \in Nat
  BY WebsnifferAssumption DEF Packets, Typed, TypeOK
<1>1. Pkt \in Nat /\ LineNo \in Nat /\ Pkt' \in Nat /\ Pkt <= Pkt'
      /\ (p < Pkt \/ p = Pkt)
  <2>1. Pkt \in Nat /\ LineNo \in Nat
    BY <1>0, Counts
  <2>2. CASE UNCHANGED printed
    <3>1. Pkt' = Pkt /\ LineNo' = LineNo
      BY <2>2 DEF Pkt, LineNo
    <3> QED
      BY <2>1, <3>1, <1>0 DEF Begun
  <2>3. CASE NodePrints
    <3>1. \/ Pkt' = Pkt
          \/ Pkt' = Pkt + 1 /\ LineNo' = 0
      BY <2>3, <1>0, NextLine
    <3> QED
      BY <2>1, <3>1, <1>0 DEF Begun
  <2> QED
    BY <2>2, <2>3
<1>2. Begun(p) => ToCome(s, p) \/ Taken(s, p)
  BY DEF Intact
<1>3. CASE p < Pkt
  <2>1. p # Pkt /\ p < Pkt' /\ end'[p] = end[p] /\ Begun(p)
    BY <1>0, <1>1, <1>3 DEF Begun
  <2>2. CASE ToCome(s, p)
    BY <2>1, <2>2, <1>0, <1>3, OldComes
  <2>3. CASE Taken(s, p)
    <3>1. /\ \/ task[s] = "line" /\ line[s] = [k \in 1..NLines + 2 |-> Piece(p, k - 1)]
             \/ [pkt |-> p, whole |-> TRUE] \in ToSet(handled[s])
          /\ end[p] <= Base(s)
      BY <2>3 DEF Taken
    <3>2. \/ task'[s] = "line" /\ line'[s] = [k \in 1..NLines + 2 |-> Piece(p, k - 1)]
          \/ [pkt |-> p, whole |-> TRUE] \in ToSet(handled'[s])
      BY <3>1
    <3> QED
      BY <2>1, <3>1, <3>2 DEF Taken, Piece
  <2> QED
    BY <2>1, <2>2, <2>3, <1>2
<1>4. CASE p = Pkt
  <2>1. ~Taken(s, p)
    BY <1>1, <1>4 DEF Taken
  <2> QED
    BY <2>1, <1>2, <1>4
<1> QED
  BY <1>1, <1>3, <1>4

\* A header begins a packet at the begin of a line, if no line was left without end.
LEMMA HeaderIntact ==
  ASSUME Typed, BufferOK, PacketsOK, NEW s \in Sockets, SocketOK(s), Intact(s),
         Between => Clean(s), HeaderLine
  PROVE  Intact(s)'
<1>1. /\ NodePrints /\ LineNo = 0 /\ thread = "up" /\ content' = content /\ offset' = offset
      /\ pos' = pos /\ ahead' = ahead /\ task' = task /\ line' = line /\ handled' = handled
      /\ torn' = torn /\ emptied' = emptied /\ end' = end
      /\ buffer' = Append(buffer, Item("header", Pkt))
      /\ cut' = IF dangling THEN cut \cup {Pkt} ELSE cut
  BY DEF HeaderLine, fileVars, socketVars
<1>2. /\ Base(s)' = Base(s) /\ Ahead(s)' = Ahead(s)
      /\ \A q : At(s, q)' = At(s, q)
  BY <1>1, SameView
<1>3. /\ printed \in Nat /\ NLines \in Nat /\ NLines > 0 /\ Pkt \in Nat /\ Pkt \in Packets
      /\ Pkt' = Pkt /\ LineNo' = 1 /\ offset \in Nat /\ Base(s) \in Nat
      /\ Base(s) <= offset
  <2>1. printed \in Nat /\ NLines \in Nat /\ NLines > 0
    BY WebsnifferAssumption DEF Typed, TypeOK
  <2>2. offset \in Nat /\ Base(s) \in Nat /\ Base(s) <= offset
    BY AtItems
  <2>3. Pkt \in Nat
    BY <2>1, Counts
  <2> QED
    BY <2>1, <2>2, <2>3, <1>1, NextLine
<1>4. ASSUME NEW p \in Packets, p = Pkt, p \notin cut' PROVE ToCome(s, p)'
  <2>1. ~dangling
    BY <1>1, <1>4
  <2>2. buffer = <<>> /\ ~(length > 0)
    BY <2>1, <1>1 DEF BufferOK, PacketsOK
  <2>3. Clean(s)
    BY <2>1, <2>2 DEF Between
  <2>4. Written(p)' = 0 /\ Start(p)' = offset + 1
    <3>1. buffer' # <<>>
      BY <2>2, <1>1
    <3>2. ~(p < Pkt')
      BY <1>3, <1>4
    <3> QED
      BY <3>1, <3>2, <1>1 DEF Written, Start
  <2> SUFFICES ASSUME NEW b, b = offset + 1 PROVE ToCome(s, p)'
    OBVIOUS
  <2>5. b - 1 = offset /\ Base(s)' < b /\ p \in Nat
    BY <1>2, <1>3, <1>4
  <2> SUFFICES ASSUME NEW c, c = b - 1 PROVE ToCome(s, p)'
    OBVIOUS
  <2>6. \/ Base(s)' = c
        \/ c \in Ahead(s)' /\ At(s, c)' = End
        \/ content' = <<>> /\ pos'[s] < offset'
    BY <2>3, <2>5, <1>1, <1>2 DEF Clean
  <2>7. \A k \in 0..0 - 1 : FALSE
    OBVIOUS
  <2>8. ~(p < Pkt')
    BY <1>3, <1>4
  <2> QED
    BY <2>4, <2>5, <2>6, <2>7, <2>8, Comes
<1> QED
  BY <1>1, <1>2, <1>3, <1>4, GrowsIntact

\* Where the packet that is printed begins, and what of it is in the buffer.
LEMMA Printing ==
  ASSUME Typed, BufferOK, PacketsOK, LineNo > 0, Pkt \notin cut
  PROVE  /\ Pkt \in Nat /\ LineNo \in 1..NLines /\ NLines \in Nat /\ offset \in Nat
         /\ thread = "up" /\ ~dangling /\ length = NLines - LineNo + 1 /\ Begun(Pkt)
         /\ Written(Pkt) \in Nat /\ Start(Pkt) = offset - Written(Pkt) + 1
         /\ \/ buffer = <<>> /\ Written(Pkt) = LineNo
            \/ buffer = <<Piece(Pkt, 0)>> /\ Written(Pkt) = 0 /\ LineNo = 1
<1>1. Pkt \in Nat /\ LineNo \in 1..NLines /\ NLines \in Nat /\ offset \in Nat
  <2>1. printed \in Nat /\ NLines \in Nat /\ offset \in Nat
    BY WebsnifferAssumption DEF Typed, TypeOK
  <2> QED
    BY <2>1, Counts
<1>2. /\ thread = "up" /\ ~dangling /\ length = NLines - LineNo + 1
      /\ buffer # <<>> => LineNo = 1
  BY DEF PacketsOK
<1>3. buffer # <<>> => buffer = <<Item("header", Pkt)>>
  BY <1>2 DEF BufferOK
<1>4. Begun(Pkt)
  BY DEF Begun
<1>5. ~(Pkt < Pkt)
  BY <1>1
<1>6. CASE buffer = <<>>
  BY <1>1, <1>2, <1>4, <1>5, <1>6 DEF Written, Start
<1>7. CASE buffer # <<>>
  <2>1. Piece(Pkt, 0) = Item("header", Pkt)
    BY DEF Piece
  <2>2. Written(Pkt) = 0 /\ Start(Pkt) = offset + 1
    BY <1>5, <1>7 DEF Written, Start
  <2> QED
    BY <2>1, <2>2, <1>1, <1>2, <1>3, <1>4, <1>7
<1> QED
  BY <1>6, <1>7

\* A header that is flushed by another line is the first piece of its packet.
LEMMA OtherIntact ==
  ASSUME Typed, BufferOK, PacketsOK, NEW s \in Sockets, SocketOK(s), Intact(s), OtherLine
  PROVE  Intact(s)'
<1>1. /\ buffer # <<>> /\ Flush(buffer) /\ printed' = printed /\ end' = end /\ cut' = cut
      /\ pos' = pos /\ ahead' = ahead /\ task' = task /\ line' = line /\ handled' = handled
      /\ torn' = torn /\ buffer \in Seq(Items)
  BY DEF OtherLine, socketVars, Typed
<1>2. /\ Base(s)' = Base(s) /\ offset' = offset + Len(buffer)
      /\ \A q \in Ahead(s) : q \in Ahead(s)' /\ At(s, q)' = At(s, q)
  BY <1>1, FlushView
<1>3. emptied[s] \subseteq emptied'[s] /\ buffer' = <<>>
  BY <1>1 DEF Flush, Typed
<1>4. Pkt' = Pkt /\ LineNo' = LineNo
  BY <1>1 DEF Pkt, LineNo
<1>5. ASSUME NEW p \in Packets, p = Pkt, p \notin cut', p \notin emptied'[s], Begun(p)',
             Begun(p) => ToCome(s, p)
      PROVE  ToCome(s, p)'
  <2>0. printed \in Nat
    BY DEF Typed, TypeOK
  <2>1. Pkt \in Nat /\ LineNo \in Nat /\ LineNo > 0 /\ Pkt \notin cut
    BY <2>0, <1>1, <1>4, <1>5, Counts DEF Begun
  <2>2. /\ Begun(p) /\ offset \in Nat
        /\ buffer = <<Piece(p, 0)>> /\ Written(p) = 0 /\ LineNo = 1
        /\ Start(p) = offset - Written(p) + 1
    BY <2>1, <1>1, <1>5, Printing
  <2>3. Written(p)' = 1 /\ Start(p)' = offset + 1
    <3>1. ~(p < Pkt') /\ Len(buffer) = 1
      BY <2>1, <2>2, <1>4, <1>5
    <3> QED
      BY <3>1, <2>2, <1>2, <1>3, <1>4 DEF Written, Start
  <2>4. Start(p) = offset - 0 + 1 /\ Start(p)' = offset - 0 + 1 /\ Written(p)' = 0 + Len(buffer)
    BY <2>2, <2>3
  <2>5. \A i \in 1..Len(buffer) : buffer[i] = Piece(p, 0 + i - 1)
    <3> SUFFICES ASSUME NEW i \in 1..Len(buffer) PROVE buffer[i] = Piece(p, 0 + i - 1)
      OBVIOUS
    <3>1. i = 1 /\ 0 + i - 1 = 0
      BY <2>2
    <3> QED
      BY <3>1, <2>2
  <2>6. ~(p < Pkt') /\ p \in Nat
    BY <2>1, <1>4, <1>5
  <2>7. ToCome(s, p) /\ Written(p) = 0 /\ 0 \in Nat
    BY <1>5, <2>2
  <2> QED
    BY <2>4, <2>5, <2>6, <2>7, <1>1, <1>5, PieceComes
<1> QED
  BY <1>1, <1>2, <1>3, <1>5, GrowsIntact

\* A line of a dump is written behind the ones before it; the last one ends the line.
LEMMA DataIntact ==
  ASSUME Typed, BufferOK, PacketsOK, NEW s \in Sockets, SocketOK(s), Intact(s), DataLine
  PROVE  Intact(s)'
<1> DEFINE last == IF length <= 1 THEN <<End>> ELSE <<>>
           items == Append(buffer, Item("data", Pkt)) \o last
<1>0. printed \in Nat /\ NLines \in Nat /\ length \in Nat /\ offset \in Nat /\ pos[s] \in Nat
      /\ pos[s] <= offset /\ buffer \in Seq(Items)
  BY WebsnifferAssumption DEF Typed, TypeOK
<1>1. /\ LineNo > 0 /\ NodePrints /\ Flush(items) /\ cut' = cut
      /\ pos' = pos /\ ahead' = ahead /\ task' = task /\ line' = line /\ handled' = handled
      /\ torn' = torn
      /\ end' = IF LineNo = NLines THEN [end EXCEPT ![Pkt] = offset'] ELSE end
  <2>1. EndOfLine(length - 1) = last
    BY <1>0 DEF EndOfLine
  <2> QED
    BY <2>1 DEF DataLine, socketVars
<1>2. Pkt \in Nat /\ Pkt \in Packets /\ LineNo \in 1..NLines
  BY <1>0, <1>1, Counts, NextLine
<1>3. items \in Seq(Items) /\ items # <<>> /\ Len(items) = Len(buffer) + 1 + Len(last)
  <2>1. Item("data", Pkt) \in Items /\ last \in Seq(Items)
    <3>1. Item("data", Pkt) \in Items /\ End \in Items
      BY <1>2 DEF Item, End, Items, Kind
    <3> QED
      BY <3>1
  <2> HIDE DEF last
  <2>2. /\ Append(buffer, Item("data", Pkt)) \in Seq(Items)
        /\ Len(Append(buffer, Item("data", Pkt))) = Len(buffer) + 1
    BY <2>1, <1>0
  <2>3. items \in Seq(Items) /\ Len(items) = Len(buffer) + 1 + Len(last)
    <3> DEFINE front == Append(buffer, Item("data", Pkt))
    <3> HIDE DEF front
    <3>1. front \o last \in Seq(Items) /\ Len(front \o last) = Len(front) + Len(last)
      BY <2>1, <2>2 DEF front
    <3> QED
      BY <3>1, <2>2 DEF front
  <2>4. Len(items) > 0
    <3>1. Len(buffer) \in Nat /\ Len(last) \in Nat
      BY <2>1, <1>0
    <3> QED
      BY <3>1, <2>3
  <2> QED
    BY <2>3, <2>4
<1> HIDE DEF items
<1>4. /\ Base(s)' = Base(s) /\ offset' = offset + Len(items)
      /\ \A q \in Ahead(s) : q \in Ahead(s)' /\ At(s, q)' = At(s, q)
  BY <1>1, <1>3, FlushView
<1>5. emptied[s] \subseteq emptied'[s] /\ buffer' = <<>>
  BY <1>1 DEF Flush, Typed
<1>6. \A p \in Packets : p # Pkt => end'[p] = end[p]
  BY <1>1 DEF Typed
<1>7. ASSUME NEW p \in Packets, p = Pkt, p \notin cut', p \notin emptied'[s], Begun(p)',
             Begun(p) => ToCome(s, p)
      PROVE  ToCome(s, p)'
  <2>1. /\ Begun(p) /\ p \in Nat
        /\ Written(p) \in Nat /\ Start(p) = offset - Written(p) + 1
        /\ length = NLines - LineNo + 1
        /\ \/ buffer = <<>> /\ Written(p) = LineNo
           \/ buffer = <<Piece(p, 0)>> /\ Written(p) = 0 /\ LineNo = 1
    BY <1>1, <1>2, <1>7, Printing
  <2> SUFFICES ASSUME NEW w \in Nat, w = Written(p) PROVE ToCome(s, p)'
    BY <2>1
  <2>2. Len(buffer) \in {0, 1} /\ w + Len(buffer) = LineNo
    <3>1. CASE buffer = <<>> /\ w = LineNo
      BY <3>1, <1>2
    <3>2. CASE buffer = <<Piece(p, 0)>> /\ w = 0 /\ LineNo = 1
      BY <3>2
    <3> QED
      BY <3>1, <3>2, <2>1
  <2>3. /\ (LineNo = NLines) <=> (length <= 1)
        /\ Len(items) = IF LineNo = NLines THEN Len(buffer) + 2 ELSE Len(buffer) + 1
    <3>1. (LineNo = NLines) <=> (length <= 1)
      BY <2>1, <1>0, <1>2
    <3>2. Len(last) = IF LineNo = NLines THEN 1 ELSE 0
      BY <3>1
    <3> HIDE DEF last
    <3> QED
      BY <3>1, <3>2, <2>2, <1>3
  <2>4. \A i \in 1..Len(items) : items[i] = Piece(p, w + i - 1)
    <3> SUFFICES ASSUME NEW i \in 1..Len(items) PROVE items[i] = Piece(p, w + i - 1)
      OBVIOUS
    <3>1. CASE i = Len(buffer) + 1
      <4>1. items[i] = Item("data", p)
        BY <3>1, <2>2, <1>0, <1>7 DEF items
      <4>2. w + i - 1 = LineNo
        BY <3>1, <2>2, <1>2
      <4> QED
        BY <4>1, <4>2, <1>0, <1>2 DEF Piece
    <3>2. CASE i = Len(buffer) + 2
      <4>1. LineNo = NLines /\ length <= 1
        BY <3>2, <2>2, <2>3
      <4>2. last = <<End>>
        BY <4>1
      <4>3. items[i] = End
        BY <3>2, <4>2, <2>2, <1>0 DEF items
      <4>4. w + i - 1 = NLines + 1
        BY <3>2, <4>1, <2>2, <1>0
      <4> QED
        BY <4>3, <4>4, <1>0 DEF Piece
    <3>3. CASE i < Len(buffer) + 1
      <4>1. i = 1 /\ buffer = <<Piece(p, 0)>> /\ w = 0
        BY <3>3, <2>1, <2>2
      <4>2. items[i] = buffer[1]
        <5>1. last = <<End>> \/ last = <<>>
          OBVIOUS
        <5> HIDE DEF last
        <5> QED
          BY <4>1, <5>1 DEF items
      <4>3. w + i - 1 = 0 /\ buffer[1] = Piece(p, 0)
        BY <4>1
      <4> QED
        BY <4>2, <4>3
    <3> QED
      BY <3>1, <3>2, <3>3, <2>2, <2>3
  <2>5. /\ Start(p)' = offset - w + 1 /\ Written(p)' = w + Len(items)
        /\ p < Pkt' => pos[s] # end'[p] - 1
    <3>1. CASE LineNo = NLines
      <4>1. Pkt' = Pkt + 1 /\ p < Pkt'
        BY <3>1, <1>0, <1>1, <1>2, <1>7, NextLine
      <4>2. end'[p] = offset'
        BY <3>1, <1>1, <1>7 DEF Typed
      <4>3. Written(p)' = NLines + 2 /\ Start(p)' = offset' - NLines - 1
        BY <4>1, <4>2 DEF Written, Start
      <4>4. Len(items) = NLines - w + 2 /\ offset' = offset + NLines - w + 2
        BY <3>1, <2>2, <2>3, <1>0, <1>4
      <4>5. pos[s] # offset' - 1
        BY <2>2, <2>3, <3>1, <1>0, <1>4
      <4>6. Written(p)' = w + Len(items)
        BY <4>3, <4>4, <1>0
      <4>7. Start(p)' = offset - w + 1
        <5>1. offset' - NLines - 1 = (offset + NLines - w + 2) - NLines - 1
          BY <4>4
        <5>2. (offset + NLines - w + 2) - NLines - 1 = offset - w + 1
          BY <1>0
        <5> QED
          BY <5>1, <5>2, <4>3
      <4> QED
        BY <4>2, <4>5, <4>6, <4>7
    <3>2. CASE LineNo # NLines
      <4>1. Pkt' = Pkt /\ LineNo' = LineNo + 1 /\ ~(p < Pkt')
        BY <3>2, <1>0, <1>1, <1>2, <1>7, NextLine
      <4>2. Written(p)' = LineNo + 1 /\ Start(p)' = offset' - (LineNo + 1) + 1
        BY <4>1, <1>5 DEF Written, Start
      <4>3. Len(items) = LineNo - w + 1 /\ offset' = offset + LineNo - w + 1
        <5>1. Len(items) = Len(buffer) + 1 /\ offset' = offset + Len(items)
          BY <3>2, <2>3, <1>4
        <5>2. Len(buffer) \in Nat /\ w + Len(buffer) = LineNo /\ LineNo \in Nat
          BY <2>2, <1>0, <1>2
        <5>3. offset \in Nat
          BY <1>0
        <5> QED
          BY <5>1, <5>2, <5>3
      <4>4. Written(p)' = w + Len(items)
        BY <4>2, <4>3, <1>2
      <4>5. Start(p)' = offset - w + 1
        <5>1. offset' - (LineNo + 1) + 1 = (offset + LineNo - w + 1) - (LineNo + 1) + 1
          BY <4>3
        <5>2. (offset + LineNo - w + 1) - (LineNo + 1) + 1 = offset - w + 1
          <6>1. LineNo \in Int /\ offset \in Int /\ w \in Int
            BY <1>0, <1>2
          <6> QED
            BY <6>1
        <5> QED
          BY <5>1, <5>2, <4>2
      <4> QED
        BY <4>1, <4>4, <4>5
    <3> QED
      BY <3>1, <3>2
  <2>6. ToCome(s, p) /\ Start(p) = offset - w + 1 /\ Written(p) = w
    BY <2>1, <1>7
  <2> QED
    BY <2>1, <2>4, <2>5, <2>6, <1>1, <1>3, <1>7, PieceComes
<1> QED
  BY <1>1, <1>4, <1>5, <1>6, <1>7, GrowsIntact

\* Whatever else happens to the thread costs the packet that is being printed.
LEMMA QuietIntact ==
  ASSUME Typed, PacketsOK, NEW s \in Sockets, Intact(s),
         SerialException \/ MissLine \/ Connect
  PROVE  Intact(s)'
<1>1. /\ NodePrints \/ UNCHANGED printed
      /\ pos' = pos /\ ahead' = ahead /\ task' = task /\ line' = line /\ handled' = handled
      /\ torn' = torn /\ emptied' = emptied /\ end' = end /\ content' = content
      /\ cut \subseteq cut' /\ buffer' = buffer /\ offset' = offset
  BY DEF SerialException, MissLine, Connect, fileVars, socketVars, history
<1>2. /\ Base(s)' = Base(s) /\ Ahead(s)' = Ahead(s)
      /\ \A q : At(s, q)' = At(s, q)
  BY <1>1, SameView
<1>3. printed \in Nat /\ Pkt \in Nat /\ LineNo \in Nat
  BY Counts DEF Typed, TypeOK
<1>4. ASSUME NEW p \in Packets, p = Pkt, p \notin cut', Begun(p)' PROVE FALSE
  <2>1. ~MissLine
    BY <1>4 DEF MissLine
  <2>2. printed' = printed
    BY <2>1 DEF SerialException, Connect
  <2>3. LineNo > 0
    BY <2>2, <1>3, <1>4 DEF Begun, Pkt, LineNo
  <2>4. ~SerialException
    BY <2>3, <1>4 DEF SerialException
  <2>5. thread = "down" /\ Pkt \notin cut
    BY <2>1, <2>4, <1>1, <1>4 DEF Connect
  <2> QED
    BY <2>3, <2>5 DEF PacketsOK
<1> QED
  BY <1>1, <1>2, <1>4, GrowsIntact

\* Emptying costs the packets of which something but an end of a line is lost.
LEMMA EmptyIntact ==
  ASSUME Typed, PacketsOK, NEW s \in Sockets, SocketOK(s), Intact(s), EmptyFile
  PROVE  Intact(s)'
<1>1. /\ printed' = printed /\ content' = <<>> /\ offset' = offset /\ end' = end
      /\ pos' = pos /\ ahead' = ahead /\ task' = task /\ line' = line /\ handled' = handled
      /\ torn' = torn /\ cut' = cut /\ buffer' = buffer
      /\ emptied'[s] = emptied[s] \cup
           {content[i].pkt : i \in {j \in DOMAIN content : j > pos[s]}}
  BY DEF EmptyFile, threadVars, socketVars
<1>2. /\ printed \in Nat /\ NLines \in Nat /\ NLines > 0 /\ Pkt \in Nat /\ LineNo \in 0..NLines
      /\ Pkt' = Pkt /\ LineNo' = LineNo /\ offset \in Nat /\ pos[s] \in Nat
      /\ Base(s) \in Nat /\ Base(s) <= pos[s] /\ pos[s] <= Top(s) /\ Top(s) \in Nat
      /\ pos[s] <= offset
  <2>1. printed \in Nat /\ NLines \in Nat /\ NLines > 0
    BY WebsnifferAssumption DEF Typed, TypeOK
  <2>2. Pkt \in Nat /\ LineNo \in 0..NLines
    BY <2>1, Counts
  <2>3. Pkt' = Pkt /\ LineNo' = LineNo
    BY <1>1 DEF Pkt, LineNo
  <2>4. /\ offset \in Nat /\ pos[s] \in Nat
        /\ Base(s) \in Nat /\ Base(s) <= pos[s] /\ pos[s] <= Top(s) /\ Top(s) \in Nat
        /\ Top(s) <= offset
    BY AtItems
  <2> QED
    BY <2>1, <2>2, <2>3, <2>4
<1>3. Base(s)' = Base(s) /\ Top(s)' = pos[s]
  BY <1>1, <1>2 DEF Base, Top
<1>4. \A q \in Ahead(s) : q <= pos[s] => q \in Ahead(s)' /\ At(s, q)' = At(s, q)
  <2> SUFFICES ASSUME NEW q \in Ahead(s), q <= pos[s]
               PROVE  q \in Ahead(s)' /\ At(s, q)' = At(s, q)
    OBVIOUS
  <2>1. q \in Ahead(s)'
    BY <1>2, <1>3 DEF Ahead
  <2>2. At(s, q)' = At(s, q)
    BY <1>1, <1>3 DEF At
  <2> QED
    BY <2>1, <2>2
<1>5. \A q \in Ahead(s) : ~(q <= pos[s]) => At(s, q).pkt \in emptied'[s]
  <2> SUFFICES ASSUME NEW q \in Ahead(s), ~(q <= pos[s]) PROVE At(s, q).pkt \in emptied'[s]
    OBVIOUS
  <2>1. q \in Nat /\ q <= Top(s) /\ content \in Seq(Items)
    BY AtItems, <1>2 DEF Ahead, Typed
  <2>2. q \in DOMAIN content /\ q > pos[s] /\ At(s, q) = content[q]
    BY <2>1, <1>2 DEF Top, At
  <2> QED
    BY <2>2, <1>1
<1> SUFFICES ASSUME NEW p \in Packets, p \notin cut, p \notin torn[s], p \notin emptied'[s],
                    Begun(p)
             PROVE  ToCome(s, p)' \/ Taken(s, p)'
  <2>1. \A p : Begun(p)' <=> Begun(p)
    BY <1>2 DEF Begun
  <2> QED
    BY <2>1, <1>1 DEF Intact
<1>6. p \in Nat /\ p \notin emptied[s] /\ p <= Pkt
  BY <1>1, <1>2 DEF Packets, Begun
<1>7. CASE Taken(s, p)
  <2>1. /\ p < Pkt' /\ end'[p] <= Base(s)'
        /\ \/ task'[s] = "line" /\ line'[s] = [k \in 1..NLines + 2 |-> Piece(p, k - 1)]
           \/ [pkt |-> p, whole |-> TRUE] \in ToSet(handled'[s])
    BY <1>1, <1>2, <1>3, <1>7 DEF Taken
  <2> QED
    BY <2>1 DEF Taken, Piece
<1>8. CASE ToCome(s, p)
  <2> SUFFICES ASSUME NEW b, NEW n, b = Start(p), n = Written(p) PROVE ToCome(s, p)'
    OBVIOUS
  <2>1. Start(p)' = b /\ Written(p)' = n
    BY <1>1, <1>2 DEF Start, Written
  <2>2. /\ Base(s) < b
        /\ \A k \in 0..n - 1 : b + k \in Ahead(s) /\ At(s, b + k) = Piece(p, k)
        /\ \/ Base(s) = b - 1
           \/ b - 1 \in Ahead(s) /\ At(s, b - 1) = End
           \/ n = 0 /\ content = <<>> /\ pos[s] < offset
        /\ p < Pkt => pos[s] # end[p] - 1
    BY <1>8 DEF ToCome
  <2>3. /\ b \in Int /\ n \in 0..NLines + 2
        /\ p < Pkt => n = NLines + 2 /\ b = end[p] - NLines - 1 /\ end[p] \in Nat
        /\ ~(p < Pkt) => n <= NLines /\ (n = 0 => b = offset + 1)
    <3>1. CASE p < Pkt
      <4>1. end[p] \in Nat
        BY DEF Typed
      <4> QED
        BY <3>1, <4>1, <1>2 DEF Start, Written
    <3>2. CASE ~(p < Pkt)
      <4>1. LineNo > 0
        BY <3>2, <1>2, <1>6 DEF Begun
      <4> QED
        BY <3>2, <4>1, <1>2 DEF Start, Written
    <3> QED
      BY <3>1, <3>2
  \* An item of the packet but for the end of its line was read, or it is lost.
  <2>4. \A k \in 0..n - 1 : k <= NLines => b + k <= pos[s]
    <3> SUFFICES ASSUME NEW k \in 0..n - 1, k <= NLines, ~(b + k <= pos[s]) PROVE FALSE
      OBVIOUS
    <3>1. At(s, b + k).pkt \in emptied'[s] /\ At(s, b + k) = Piece(p, k)
      BY <2>2, <1>5
    <3>2. k # NLines + 1
      BY <2>3, <1>2
    <3>3. Piece(p, k).pkt = p
      BY <3>2 DEF Piece, Item
    <3> QED
      BY <3>1, <3>3
  <2>5. \A k \in 0..n - 1 : b + k <= pos[s]
    <3>1. CASE p < Pkt
      <4>1. NLines \in 0..n - 1 /\ b + NLines = end[p] - 1
        BY <3>1, <2>3, <1>2
      <4>2. end[p] - 1 <= pos[s] /\ end[p] \in Nat /\ n = NLines + 2 /\ b = end[p] - NLines - 1
        BY <3>1, <4>1, <2>3, <2>4, <1>2
      <4>3. end[p] <= pos[s]
        <5>1. pos[s] # end[p] - 1
          BY <3>1, <2>2
        <5> QED
          BY <5>1, <4>2, <1>2
      <4> QED
        BY <4>2, <4>3, <1>2
    <3>2. CASE ~(p < Pkt)
      BY <3>2, <2>3, <2>4, <1>2
    <3> QED
      BY <3>1, <3>2
  <2>6. \A k \in 0..n - 1 : b + k \in Ahead(s)' /\ At(s, b + k)' = Piece(p, k)
    BY <2>2, <2>5, <1>4
  <2> SUFFICES ASSUME NEW c, c = b - 1 PROVE ToCome(s, p)'
    OBVIOUS
  <2>7. \/ Base(s)' = c
        \/ c \in Ahead(s)' /\ At(s, c)' = End
        \/ n = 0 /\ content' = <<>> /\ pos'[s] < offset'
    <3>1. CASE Base(s) = c
      BY <3>1, <1>3
    <3>2. CASE c \in Ahead(s) /\ At(s, c) = End /\ c <= pos[s]
      BY <3>2, <1>4
    <3>3. CASE c \in Ahead(s) /\ ~(c <= pos[s])
      <4>1. n = 0
        <5> SUFFICES ASSUME n # 0 PROVE FALSE
          OBVIOUS
        <5>1. 0 \in 0..n - 1 /\ 0 <= NLines
          BY <2>3, <1>2
        <5>2. b + 0 <= pos[s]
          BY <5>1, <2>4
        <5> QED
          BY <5>2, <3>3, <2>3, <1>2
      <4>2. c = offset
        BY <4>1, <2>3, <1>2
      <4> QED
        BY <4>1, <4>2, <3>3, <1>1, <1>2
    <3>4. CASE n = 0 /\ content = <<>> /\ pos[s] < offset
      BY <3>4, <1>1
    <3> QED
      BY <3>1, <3>2, <3>3, <3>4, <2>2
  <2>8. p < Pkt' => pos'[s] # end'[p] - 1
    BY <2>2, <1>1, <1>2
  <2>9. Base(s)' < b
    BY <2>2, <1>3
  <2> QED
    BY <2>1, <2>6, <2>7, <2>8, <2>9, <1>6, Comes
<1> QED
  BY <1>6, <1>7, <1>8 DEF Intact

\* A task that reads comes to the end of a line before the packet, or gets the packet
\* as its line, or all there was is torn.
LEMMA ReadIntact ==
  ASSUME Typed, FileOK, PacketsOK, NEW s \in Sockets, SocketOK(s), Intact(s), ReadLine(s)
  PROVE  Intact(s)'
<1> DEFINE l == Len(line'[s])
<1>1. /\ task[s] = "read" /\ task'[s] = "line" /\ printed' = printed /\ buffer' = buffer
      /\ content' = content /\ offset' = offset /\ handled' = handled /\ end' = end
      /\ cut' = cut /\ emptied' = emptied
  BY DEF ReadLine, threadVars, fileVars, Typed, TypeOK
<1>2. /\ printed \in Nat /\ NLines \in Nat /\ NLines > 0 /\ Pkt \in Nat /\ LineNo \in 0..NLines
      /\ Pkt' = Pkt /\ LineNo' = LineNo
  <2>1. printed \in Nat /\ NLines \in Nat /\ NLines > 0
    BY WebsnifferAssumption DEF Typed, TypeOK
  <2> QED
    BY <2>1, <1>1, Counts DEF Pkt, LineNo
<1>3. /\ offset \in Nat /\ pos[s] \in Nat /\ Base(s) \in Nat /\ Base(s) <= pos[s]
      /\ pos[s] <= Top(s) /\ Top(s) \in Nat /\ Top(s) <= offset
  BY AtItems
<1>4. /\ line'[s] \in Seq(Items) /\ l \in Nat
      /\ pos'[s] \in {pos[s], Top(s)} /\ Base(s)' = Base(s) + l /\ Top(s)' = Top(s)
      /\ \A q \in Ahead(s)' : q \in Ahead(s) /\ At(s, q)' = At(s, q)
      /\ \A i \in 1..l : /\ Base(s) + i \in Ahead(s)
                         /\ line'[s][i] = At(s, Base(s) + i)
      /\ \/ /\ l > 0 /\ line'[s][l].is = "end"
            /\ \A i \in 1..l - 1 : line'[s][i].is # "end"
            /\ torn' = torn
         \/ /\ l = Top(s) - Base(s)
            /\ \A i \in 1..l : line'[s][i].is # "end"
            /\ torn' = [torn EXCEPT ![s] = @ \cup {i.pkt : i \in ToSet(line'[s])}]
  BY ReadView
<1> HIDE DEF l
<1>5. \A q : q > Base(s) + l /\ q \in Ahead(s) => q \in Ahead(s)' /\ At(s, q)' = At(s, q)
  <2> SUFFICES ASSUME NEW q \in Ahead(s), q > Base(s) + l
               PROVE  q \in Ahead(s)' /\ At(s, q)' = At(s, q)
    OBVIOUS
  <2>1. q \in Ahead(s)'
    BY <1>3, <1>4 DEF Ahead
  <2> QED
    BY <2>1, <1>4
<1>6. \A q \in Ahead(s) :
        q <= Base(s) + l => q - Base(s) \in 1..l /\ line'[s][q - Base(s)] = At(s, q)
  <2> SUFFICES ASSUME NEW q \in Ahead(s), q <= Base(s) + l
               PROVE  q - Base(s) \in 1..l /\ line'[s][q - Base(s)] = At(s, q)
    OBVIOUS
  <2>1. q - Base(s) \in 1..l /\ Base(s) + (q - Base(s)) = q
    BY <1>3, <1>4 DEF Ahead
  <2> QED
    BY <2>1, <1>4
<1> SUFFICES ASSUME NEW p \in Packets, p \notin cut, p \notin torn'[s], p \notin emptied[s],
                    Begun(p)
             PROVE  ToCome(s, p)' \/ Taken(s, p)'
  <2>1. \A p : Begun(p)' <=> Begun(p)
    BY <1>2 DEF Begun
  <2> QED
    BY <2>1, <1>1 DEF Intact
<1>7. p \in Nat /\ p \notin torn[s] /\ p <= Pkt
  <2>1. torn[s] \subseteq torn'[s]
    BY <1>4 DEF Typed
  <2> QED
    BY <2>1, <1>2 DEF Packets, Begun
<1>8. CASE Taken(s, p)
  <2>1. /\ p < Pkt' /\ end'[p] <= Base(s)
        /\ [pkt |-> p, whole |-> TRUE] \in ToSet(handled'[s])
    BY <1>1, <1>2, <1>8 DEF Taken
  <2>2. end[p] \in Nat
    BY DEF Typed
  <2>3. end'[p] <= Base(s)'
    BY <2>1, <2>2, <1>1, <1>3, <1>4
  <2> QED
    BY <2>1, <2>3 DEF Taken
<1>9. CASE ToCome(s, p)
  <2> SUFFICES ASSUME NEW b, NEW n, b = Start(p), n = Written(p)
               PROVE  ToCome(s, p)' \/ Taken(s, p)'
    OBVIOUS
  <2>1. Start(p)' = b /\ Written(p)' = n
    BY <1>1, <1>2 DEF Start, Written
  <2>2. /\ Base(s) < b
        /\ \A k \in 0..n - 1 : b + k \in Ahead(s) /\ At(s, b + k) = Piece(p, k)
        /\ \/ Base(s) = b - 1
           \/ b - 1 \in Ahead(s) /\ At(s, b - 1) = End
           \/ n = 0 /\ content = <<>> /\ pos[s] < offset
        /\ p < Pkt => pos[s] # end[p] - 1
    BY <1>9 DEF ToCome
  <2>3. /\ b \in Int /\ n \in 0..NLines + 2
        /\ p < Pkt => n = NLines + 2 /\ b = end[p] - NLines - 1 /\ end[p] \in Nat
                      /\ end[p] <= offset
        /\ ~(p < Pkt) => n <= NLines /\ b = offset - n + 1
    <3>1. CASE p < Pkt
      <4>1. end[p] \in Nat /\ end[p] <= offset
        BY DEF Typed, PacketsOK
      <4> QED
        BY <3>1, <4>1, <1>2 DEF Start, Written
    <3>2. CASE ~(p < Pkt)
      <4>1. LineNo > 0
        BY <3>2, <1>2, <1>7 DEF Begun
      <4> QED
        BY <3>2, <4>1, <1>2, <1>3 DEF Start, Written
    <3> QED
      BY <3>1, <3>2
  <2>4. p < Pkt' => pos'[s] # end'[p] - 1
    <3> SUFFICES ASSUME p < Pkt, pos'[s] = Top(s), Top(s) # pos[s]
                 PROVE  pos'[s] # end[p] - 1
      BY <2>2, <1>1, <1>2, <1>4
    <3>1. Top(s) = Len(content) /\ content # <<>>
      <4>1. Top(s) = Len(content) /\ Len(content) > pos[s]
        BY DEF Top
      <4>2. Len(<<>>) = 0
        OBVIOUS
      <4> QED
        BY <4>1, <4>2, <1>3
    <3>2. Top(s) = offset
      BY <3>1 DEF FileOK
    <3> QED
      BY <3>2, <2>3, <1>3
  <2>9. /\ b \in Int /\ n \in Int /\ l \in Int /\ l >= 0 /\ Base(s) \in Int /\ Top(s) \in Int
        /\ offset \in Int /\ NLines \in Int /\ Base(s)' = Base(s) + l /\ Base(s)' \in Int
    BY <2>3, <1>2, <1>3, <1>4
  \* The task stops before the packet.
  <2>5. ASSUME Base(s)' < b,
               \/ Base(s)' = b - 1
               \/ b - 1 \in Ahead(s)' /\ At(s, b - 1)' = End
               \/ n = 0 /\ content' = <<>> /\ pos'[s] < offset'
        PROVE  ToCome(s, p)'
    <3>1. \A k \in 0..n - 1 : b + k \in Ahead(s)' /\ At(s, b + k)' = Piece(p, k)
      <4> SUFFICES ASSUME NEW k \in 0..n - 1
                   PROVE  b + k \in Ahead(s)' /\ At(s, b + k)' = Piece(p, k)
        OBVIOUS
      <4>1. b + k > Base(s) + l
        BY <2>3, <2>5, <1>3, <1>4
      <4> QED
        BY <4>1, <2>2, <1>5
    <3> QED
      BY <3>1, <2>1, <2>4, <2>5, <1>7, Comes
  <2>6. CASE n = 0 /\ content = <<>> /\ pos[s] < offset
    <3>1. Top(s) = pos[s]
      BY <2>6, <1>3 DEF Top
    <3>2. Base(s)' <= Top(s)
      <4>1. l = 0 \/ l \in 1..l
        BY <1>4
      <4> QED
        BY <4>1, <1>3, <1>4 DEF Ahead
    <3>3. Base(s)' < b
      <4>1. b = offset + 1
        BY <2>3, <2>6, <1>2, <1>3
      <4> QED
        BY <4>1, <3>2, <1>3, <1>4
    <3> QED
      BY <3>1, <3>3, <2>5, <2>6, <1>1, <1>4
  <2>7. CASE b - 1 \in Ahead(s) /\ At(s, b - 1) = End
    <3>1. ~(b - 1 < Base(s) + l) \/ l = 0
      <4> SUFFICES ASSUME b - 1 < Base(s) + l PROVE FALSE
        BY <2>3, <1>3, <1>4
      <4>1. (b - 1) - Base(s) \in 1..l - 1 /\ line'[s][(b - 1) - Base(s)].is = "end"
        <5>1. (b - 1) - Base(s) \in 1..l /\ line'[s][(b - 1) - Base(s)] = End
          <6>1. b - 1 <= Base(s) + l
            BY <2>9
          <6> QED
            BY <6>1, <2>7, <1>6
        <5> QED
          BY <5>1, <2>3, <1>3, <1>4 DEF End, Item
      <4> QED
        BY <4>1, <1>4
    <3>2. Base(s)' <= b - 1
      BY <3>1, <2>2, <2>3, <1>3, <1>4
    <3>3. CASE Base(s)' = b - 1
      BY <3>3, <2>3, <2>5
    <3>4. CASE Base(s)' # b - 1
      <4>1. b - 1 > Base(s) + l /\ Base(s)' < b
        BY <3>2, <3>4, <2>9
      <4>2. b - 1 \in Ahead(s)' /\ At(s, b - 1)' = End
        BY <4>1, <2>7, <1>5
      <4> QED
        BY <4>1, <4>2, <2>5
    <3> QED
      BY <3>3, <3>4
  <2>8. CASE Base(s) = b - 1
    <3>1. \A k \in 0..n - 1 : k + 1 <= l => line'[s][k + 1] = Piece(p, k)
      <4> SUFFICES ASSUME NEW k \in 0..n - 1, k + 1 <= l PROVE line'[s][k + 1] = Piece(p, k)
        OBVIOUS
      <4>1. k + 1 \in 1..l /\ Base(s) + (k + 1) = b + k
        <5>1. k \in Int /\ 0 <= k
          BY <2>9
        <5> QED
          BY <5>1, <2>8, <2>9
      <4> QED
        BY <4>1, <2>2, <1>4
    <3>2. l <= Top(s) - Base(s)
      <4>1. l = 0 \/ l \in 1..l
        BY <1>4
      <4> QED
        BY <4>1, <1>3, <1>4 DEF Ahead
    <3>3. CASE /\ l > 0 /\ line'[s][l].is = "end"
               /\ \A i \in 1..l - 1 : line'[s][i].is # "end"
      <4>1. \A k \in 0..n - 1 : k <= NLines => line'[s][k + 1].is # "end" \/ k + 1 > l
        <5> SUFFICES ASSUME NEW k \in 0..n - 1, k <= NLines, k + 1 <= l
                     PROVE  line'[s][k + 1].is # "end"
          BY <2>3, <1>4
        <5>1. k # NLines + 1
          BY <2>3, <1>2
        <5>2. Piece(p, k).is # "end"
          BY <5>1 DEF Piece, Item
        <5> QED
          BY <5>2, <3>1
      <4>2. CASE p < Pkt
        <5>1. n = NLines + 2 /\ b = end[p] - NLines - 1
          BY <4>2, <2>3
        <5>2. ~(l <= NLines + 1)
          <6> SUFFICES ASSUME l <= NLines + 1 PROVE FALSE
            OBVIOUS
          <6>1. l - 1 \in 0..n - 1 /\ l - 1 <= NLines /\ (l - 1) + 1 = l
            BY <5>1, <3>3, <1>2, <1>4
          <6> QED
            BY <6>1, <4>1, <3>3, <1>4
        <5>3. ~(l > NLines + 2)
          <6> SUFFICES ASSUME l > NLines + 2 PROVE FALSE
            OBVIOUS
          <6>1. NLines + 1 \in 0..n - 1 /\ (NLines + 1) + 1 <= l /\ NLines + 2 \in 1..l - 1
                /\ (NLines + 1) + 1 = NLines + 2
            BY <5>1, <1>2, <1>4
          <6>2. line'[s][NLines + 2] = Piece(p, NLines + 1)
            BY <6>1, <3>1
          <6>3. Piece(p, NLines + 1).is = "end"
            BY <1>2 DEF Piece, End, Item
          <6> QED
            BY <6>1, <6>2, <6>3, <3>3
        <5>4. l = NLines + 2
          BY <5>2, <5>3, <1>2, <1>4
        <5>5. line'[s] = [k \in 1..NLines + 2 |-> Piece(p, k - 1)]
          <6>1. DOMAIN line'[s] = 1..NLines + 2
            BY <5>4, <1>4 DEF l
          <6>2. ASSUME NEW k \in 1..NLines + 2 PROVE line'[s][k] = Piece(p, k - 1)
            <7>1. k - 1 \in 0..n - 1 /\ (k - 1) + 1 = k /\ (k - 1) + 1 <= l
              BY <5>1, <5>4, <1>2
            <7> QED
              BY <7>1, <3>1
          <6>3. line'[s] = [k \in DOMAIN line'[s] |-> line'[s][k]]
            BY <1>4
          <6> QED
            BY <6>1, <6>2, <6>3
        <5>6. end[p] \in Nat /\ Base(s)' = end[p]
          <6>1. end[p] \in Nat
            BY <4>2, <2>3
          <6> QED
            BY <6>1, <5>1, <5>4, <2>8, <2>9
        <5>7. p < Pkt' /\ end'[p] <= Base(s)'
          BY <5>6, <4>2, <1>1, <1>2
        <5> QED
          BY <5>5, <5>7, <1>1 DEF Taken, Piece
      <4>3. CASE ~(p < Pkt)
        <5>1. n <= NLines /\ b = offset - n + 1
          BY <4>3, <2>3
        <5>2. l <= n
          BY <5>1, <3>2, <2>3, <2>8, <1>3, <1>4
        <5>3. l - 1 \in 0..n - 1 /\ l - 1 <= NLines /\ (l - 1) + 1 = l
          BY <5>1, <5>2, <3>3, <2>3, <1>2, <1>4
        <5> QED
          BY <5>3, <4>1, <3>3, <1>4
      <4> QED
        BY <4>2, <4>3
    <3>4. CASE /\ l = Top(s) - Base(s)
               /\ torn' = [torn EXCEPT ![s] = @ \cup {i.pkt : i \in ToSet(line'[s])}]
      <4>1. n = 0
        <5> SUFFICES ASSUME n # 0 PROVE FALSE
          OBVIOUS
        <5>1. 0 \in 0..n - 1 /\ b + 0 = b /\ 0 + 1 = 1
          BY <2>3, <1>2
        <5>2. b \in Ahead(s)
          BY <5>1, <2>2
        <5>3. 1 <= l /\ 1 \in 1..l
          BY <5>2, <3>4, <2>3, <2>8, <1>3, <1>4 DEF Ahead
        <5>4. line'[s][1] = Piece(p, 0)
          BY <5>1, <5>3, <3>1
        <5>5. line'[s][1] \in ToSet(line'[s]) /\ line'[s][1].pkt = p
          BY <5>3, <5>4, <1>4 DEF l, ToSet, Piece, Item
        <5>6. p \in torn'[s]
          BY <5>5, <3>4 DEF Typed
        <5> QED
          BY <5>6
      <4>2. ~(p < Pkt) /\ b = offset + 1
        BY <4>1, <2>3, <1>2, <1>3
      <4>3. l = 0 /\ Base(s)' = b - 1 /\ Base(s)' < b
        <5>1. Base(s) = offset /\ Top(s) <= offset
          BY <4>2, <2>8, <2>9, <1>3
        <5> QED
          BY <5>1, <4>2, <3>4, <2>9
      <4> QED
        BY <4>3, <2>5
    <3> QED
      BY <3>3, <3>4, <1>4
  <2> QED
    BY <2>2, <2>6, <2>7, <2>8
<1> QED
  BY <1>7, <1>8, <1>9, <1>1 DEF Intact

\* A packet whole in the line is taken for one, and as whole.
LEMMA WholePacket ==
  ASSUME NLines \in Nat, NLines > 0, NEW p \in Nat, NEW items,
         items = [k \in 1..NLines + 2 |-> Piece(p, k - 1)]
  PROVE  IsPacket(items) /\ items[1].pkt = p /\ Whole(p, items) = TRUE
<1>1. \A k \in 1..NLines + 2 : Piece(p, k - 1) \in Items
  BY DEF Piece, Item, End, Items, Kind
<1>2. items \in Seq(Items) /\ Len(items) = NLines + 2
  BY <1>1
<1>3. items[1] = Item("header", p) /\ items # <<>>
  <2>1. 1 \in 1..NLines + 2 /\ 1 - 1 = 0
    OBVIOUS
  <2> QED
    BY <2>1, <1>2 DEF Piece
<1>4. Last(items) = End
  <2>1. NLines + 2 \in 1..NLines + 2 /\ (NLines + 2) - 1 = NLines + 1 /\ NLines + 1 # 0
    OBVIOUS
  <2>2. items[NLines + 2] = Piece(p, NLines + 1)
    BY <2>1
  <2> QED
    BY <2>1, <2>2, <1>2 DEF Piece, Last
<1>5. Dump(items) = [i \in 1..NLines |-> Item("data", p)]
  <2> DEFINE d == SubSeq(items, 2, NLines + 1)
  <2>1. Dump(items) = d
    <3>1. Len(items) - 1 = NLines + 1
      BY <1>2
    <3> QED
      BY <3>1, <1>4 DEF Dump
  <2>2. d \in Seq(Items) /\ Len(d) = NLines /\ \A i \in 1..NLines : d[i] = items[i + 1]
    <3> DEFINE m == 2
               n == NLines + 1
    <3>1. m \in 1..n /\ n \in 1..Len(items) /\ n - m + 1 = NLines
      BY <1>2
    <3>2. /\ SubSeq(items, m, n) \in Seq(Items) /\ Len(SubSeq(items, m, n)) = n - m + 1
          /\ \A i \in 1..n - m + 1 : SubSeq(items, m, n)[i] = items[m + i - 1]
      <4> HIDE DEF n
      <4> QED
        BY <3>1, <1>2
    <3>3. \A i \in 1..NLines : m + i - 1 = i + 1
      OBVIOUS
    <3> QED
      BY <3>1, <3>2, <3>3
  <2> HIDE DEF d
  <2>3. \A i \in 1..NLines : d[i] = Item("data", p)
    <3> SUFFICES ASSUME NEW i \in 1..NLines PROVE d[i] = Item("data", p)
      OBVIOUS
    <3>1. i + 1 \in 1..NLines + 2 /\ (i + 1) - 1 = i /\ i # 0 /\ i # NLines + 1
      OBVIOUS
    <3>2. items[i + 1] = Piece(p, i)
      BY <3>1
    <3> QED
      BY <3>1, <3>2, <2>2 DEF Piece
  <2>4. d = [i \in 1..Len(d) |-> d[i]]
    BY <2>2
  <2> QED
    BY <2>1, <2>2, <2>3, <2>4
<1>6. Dump(items) # <<>> /\ \A i \in ToSet(Dump(items)) : i.is = "data"
  <2> DEFINE d == [i \in 1..NLines |-> Item("data", p)]
  <2>1. 1 \in DOMAIN d
    OBVIOUS
  <2>2. d # <<>>
    BY <2>1
  <2>3. \A i \in ToSet(d) : i.is = "data"
    BY DEF ToSet, Item
  <2> QED
    BY <2>2, <2>3, <1>5
<1>7. IsPacket(items) /\ items[1].pkt = p
  <2>1. items[1].is = "header" /\ items[1].pkt = p
    BY <1>3 DEF Item
  <2> QED
    BY <2>1, <1>3, <1>6 DEF IsPacket
<1>8. Whole(p, items) = TRUE
  BY <1>5 DEF Whole
<1> QED
  BY <1>7, <1>8

\* A packet is where it was when nothing of the file or the node changes.
LEMMA SameComes ==
  ASSUME NEW s \in Sockets, NEW p \in Nat, ToCome(s, p),
         pos'[s] = pos[s], ahead'[s] = ahead[s], content' = content, offset' = offset,
         printed' = printed, buffer' = buffer, end' = end
  PROVE  ToCome(s, p)'
<1>1. /\ Base(s)' = Base(s) /\ Ahead(s)' = Ahead(s)
      /\ \A q : At(s, q)' = At(s, q)
  BY SameView
<1>2. Pkt' = Pkt /\ LineNo' = LineNo
  BY DEF Pkt, LineNo
<1>3. Start(p)' = Start(p) /\ Written(p)' = Written(p)
  BY <1>2 DEF Start, Written
<1> SUFFICES ASSUME NEW b, NEW n, NEW c, b = Start(p), n = Written(p), c = b - 1
             PROVE  ToCome(s, p)'
  OBVIOUS
<1>4. /\ Base(s) < b
      /\ \A k \in 0..n - 1 : b + k \in Ahead(s) /\ At(s, b + k) = Piece(p, k)
      /\ \/ Base(s) = c
         \/ c \in Ahead(s) /\ At(s, c) = End
         \/ n = 0 /\ content = <<>> /\ pos[s] < offset
      /\ p < Pkt => pos[s] # end[p] - 1
  BY DEF ToCome
<1> QED
  BY <1>1, <1>2, <1>3, <1>4, Comes

\* A whole packet in the task's line is handed on as one.
LEMMA HandleIntact ==
  ASSUME Typed, NEW s \in Sockets, SocketOK(s), Live(s), Intact(s), HandleLine(s)
  PROVE  Intact(s)'
<1>1. /\ printed' = printed /\ buffer' = buffer /\ content' = content /\ offset' = offset
      /\ pos' = pos /\ ahead' = ahead /\ end' = end /\ cut' = cut /\ torn' = torn
      /\ emptied' = emptied /\ task[s] = "line" /\ ws[s] = "open"
      /\ handled[s] \in Seq(Told) /\ line[s] \in Seq(Items)
  <2>1. task[s] = "line"
    BY DEF HandleLine
  <2>2. ws[s] = "open"
    BY <2>1 DEF Live, SocketOK, Typed, TypeOK
  <2> QED
    BY <2>1, <2>2 DEF HandleLine, threadVars, fileVars, history, Typed
<1>2. NLines \in Nat /\ NLines > 0 /\ printed \in Nat
  BY WebsnifferAssumption DEF Typed, TypeOK
<1>3. Pkt' = Pkt /\ LineNo' = LineNo /\ Base(s)' = Base(s)
  BY <1>1 DEF Pkt, LineNo, Base
<1>4. ASSUME NEW t, t \in ToSet(handled[s]) PROVE t \in ToSet(handled'[s])
  <2>1. CASE handled' = handled
    BY <2>1, <1>4
  <2>2. CASE Handles(s, line[s][1].pkt)
    <3> DEFINE r == [pkt |-> line[s][1].pkt, whole |-> Whole(line[s][1].pkt, line[s])]
    <3>1. handled'[s] = Append(handled[s], r)
      BY <2>2 DEF Handles, Typed
    <3> HIDE DEF r
    <3>2. PICK i \in DOMAIN handled[s] : t = handled[s][i]
      BY <1>4 DEF ToSet
    <3>3. i \in DOMAIN handled'[s] /\ handled'[s][i] = handled[s][i]
      BY <3>1, <1>1
    <3> QED
      BY <3>2, <3>3 DEF ToSet
  <2> QED
    BY <2>1, <2>2 DEF HandleLine, TooLate, Ignores
<1>5. ASSUME NEW p \in Nat, line[s] = [k \in 1..NLines + 2 |-> Piece(p, k - 1)]
      PROVE  [pkt |-> p, whole |-> TRUE] \in ToSet(handled'[s])
  <2>1. IsPacket(line[s]) /\ line[s][1].pkt = p /\ Whole(p, line[s]) = TRUE
    BY <1>2, <1>5, WholePacket
  <2>2. Handles(s, p)
    BY <2>1, <1>1 DEF HandleLine, TooLate
  <2> DEFINE r == [pkt |-> p, whole |-> TRUE]
  <2>3. handled'[s] = Append(handled[s], r)
    BY <2>1, <2>2 DEF Handles, Typed
  <2> HIDE DEF r
  <2>4. Len(handled[s]) + 1 \in DOMAIN handled'[s] /\ handled'[s][Len(handled[s]) + 1] = r
    BY <2>3, <1>1
  <2> QED
    BY <2>4 DEF ToSet, r
<1> SUFFICES ASSUME NEW p \in Packets, p \notin cut, p \notin torn[s], p \notin emptied[s],
                    Begun(p)
             PROVE  ToCome(s, p)' \/ Taken(s, p)'
  <2>1. \A p : Begun(p)' <=> Begun(p)
    BY <1>3 DEF Begun
  <2> QED
    BY <2>1, <1>1 DEF Intact
<1>6. p \in Nat
  BY DEF Packets
<1>7. CASE ToCome(s, p)
  BY <1>1, <1>6, <1>7, SameComes
<1>8. CASE Taken(s, p)
  <2>1. [pkt |-> p, whole |-> TRUE] \in ToSet(handled'[s])
    BY <1>4, <1>5, <1>6, <1>8 DEF Taken
  <2>2. p < Pkt' /\ end'[p] <= Base(s)'
    BY <1>1, <1>3, <1>8 DEF Taken
  <2> QED
    BY <2>1, <2>2 DEF Taken
<1> QED
  BY <1>7, <1>8 DEF Intact

-----------------------------------------------------------------------------
(***************************************************************************)
(* The thread                                                              *)
(***************************************************************************)

\* The only headers that a line of a dump brings to the file are the buffered ones.
LEMMA DataWritten ==
  ASSUME Typed, DataLine
  PROVE  \E items \in Seq(Items) :
           /\ items # <<>> /\ Flush(items)
           /\ \A i \in 1..Len(items) :
                items[i].is = "header" => i \in DOMAIN buffer /\ items[i] = buffer[i]
           /\ length <= 1 => items[Len(items)] = End
<1> DEFINE last == EndOfLine(length - 1)
           front == Append(buffer, Item("data", Pkt))
<1>1. /\ Flush(front \o last) /\ buffer \in Seq(Items) /\ length \in Int
  BY WebsnifferAssumption DEF DataLine, Typed, TypeOK
<1>2. Item("data", Pkt) \in Items /\ Item("data", Pkt).is # "header"
  <2>1. printed \in Nat
    BY DEF Typed, TypeOK
  <2>2. Pkt \in Nat
    BY <2>1, Counts
  <2> QED
    BY <2>2 DEF Item, Items, Kind
<1>3. /\ front \in Seq(Items) /\ Len(front) = Len(buffer) + 1
      /\ \A i \in 1..Len(buffer) : front[i] = buffer[i]
      /\ front[Len(buffer) + 1].is # "header"
  BY <1>1, <1>2
<1>4. last = <<End>> \/ (last = <<>> /\ ~(length <= 1))
  BY <1>1 DEF EndOfLine
<1>5. End \in Items /\ End.is # "header"
  BY DEF End, Item, Items, Kind
<1>6. ASSUME NEW i \in 1..Len(front), front[i].is = "header"
      PROVE  i \in DOMAIN buffer /\ front[i] = buffer[i]
  <2>1. Len(buffer) \in Nat /\ DOMAIN buffer = 1..Len(buffer)
    BY <1>1
  <2> HIDE DEF front
  <2>2. i # Len(buffer) + 1
    BY <1>3, <1>6
  <2> QED
    BY <2>1, <2>2, <1>3
<1> HIDE DEF last, front
<1>7. CASE last = <<>> /\ ~(length <= 1)
  <2>1. front \o last = front
    BY <1>3, <1>7
  <2>2. front # <<>>
    BY <1>1, <1>3
  <2> QED
    BY <2>1, <2>2, <1>1, <1>3, <1>6, <1>7
<1>8. CASE last = <<End>>
  <2> DEFINE items == Append(front, End)
  <2>1. front \o last = items
    BY <1>3, <1>5, <1>8
  <2>2. /\ items \in Seq(Items) /\ Len(items) = Len(front) + 1 /\ items # <<>>
        /\ \A i \in 1..Len(front) : items[i] = front[i]
        /\ items[Len(front) + 1] = End /\ Len(front) \in Nat
    BY <1>3, <1>5
  <2> HIDE DEF items
  <2>3. ASSUME NEW i \in 1..Len(items), items[i].is = "header"
        PROVE  i \in DOMAIN buffer /\ items[i] = buffer[i]
    <3>1. i # Len(front) + 1
      BY <2>2, <2>3, <1>5
    <3>2. i \in 1..Len(front) /\ items[i] = front[i]
      BY <3>1, <2>2
    <3> QED
      BY <3>2, <2>3, <1>6
  <2>4. Flush(items)
    BY <2>1, <1>1
  <2> QED
    BY <2>2, <2>3, <2>4
<1> QED
  BY <1>4, <1>7, <1>8

\* Flushing keeps the order for every task.
LEMMA FlushOrder ==
  ASSUME Typed, BufferOK, NEW s \in Sockets, SocketOK(s), InOrder(s),
         NodePrints \/ UNCHANGED printed,
         NEW items \in Seq(Items), items # <<>>, Flush(items),
         \A i \in 1..Len(items) :
           items[i].is = "header" => i \in DOMAIN buffer /\ items[i] = buffer[i],
         pos' = pos, ahead' = ahead, line' = line, handled' = handled
  PROVE  InOrder(s)'
<1>1. /\ \A q \in Ahead(s) : q \in Ahead(s)' /\ At(s, q)' = At(s, q)
      /\ \A q \in offset + 1..offset' : /\ q - offset \in 1..Len(items)
                                        /\ q \in Ahead(s)' /\ At(s, q)' = items[q - offset]
      /\ \A q \in Ahead(s)' : \/ q \in Ahead(s)
                              \/ q \in offset + 1..offset'
                              \/ At(s, q)' = Zero
  BY FlushView
<1>2. buffer' = <<>> /\ offset \in Nat
  BY DEF Flush, Typed, TypeOK
<1>3. \A p \in Nat : Begun(p) => Begun(p)'
  BY BegunStays DEF Typed, TypeOK
<1>4. ASSUME NEW q \in Headers(s)'
      PROVE  \/ q \in Headers(s) /\ At(s, q)' = At(s, q)
             \/ /\ q \in Int /\ q > offset /\ q - offset \in DOMAIN buffer
                /\ At(s, q)' = buffer[q - offset] /\ buffer' = <<>>
  <2>1. q \in Ahead(s)' /\ At(s, q)'.is = "header"
    BY DEF Headers
  <2>2. CASE q \in Ahead(s)
    BY <2>1, <2>2, <1>1 DEF Headers
  <2>3. CASE q \in offset + 1..offset'
    <3>1. q \in Int /\ q > offset
      BY <2>3, <1>2
    <3> QED
      BY <3>1, <2>1, <2>3, <1>1, <1>2
  <2>4. CASE At(s, q)' = Zero
    BY <2>1, <2>4 DEF Zero, Item
  <2> QED
    BY <2>1, <2>2, <2>3, <2>4, <1>1
<1>5. \A i \in DOMAIN buffer' : FALSE
  BY <1>2
<1> QED
  BY <1>3, <1>4, <1>5, InOrderGrows

\* What the thread does, and emptying the file, keeps the order for every task.
LEMMA SnifferOrder ==
  ASSUME Typed, BufferOK, NEW s \in Sockets, SocketOK(s), InOrder(s), Sniffer \/ EmptyFile
  PROVE  InOrder(s)'
<1>1. /\ NodePrints \/ UNCHANGED printed
      /\ pos' = pos /\ ahead' = ahead /\ line' = line /\ handled' = handled
  BY DEF Sniffer, HeaderLine, DataLine, OtherLine, SerialException, MissLine, Connect,
         EmptyFile, threadVars, socketVars
<1>2. \A p \in Nat : Begun(p) => Begun(p)'
  BY <1>1, BegunStays DEF Typed, TypeOK
<1>3. CASE HeaderLine
  <2>1. /\ content' = content /\ buffer' = Append(buffer, Item("header", Pkt)) /\ LineNo = 0
        /\ buffer \in Seq(Items)
    BY <1>3 DEF HeaderLine, fileVars, Typed
  <2>2. Headers(s)' = Headers(s) /\ \A q : At(s, q)' = At(s, q)
    BY <1>1, <2>1, SameView
  <2>3. ASSUME NEW i \in DOMAIN buffer'
        PROVE  \/ i \in DOMAIN buffer /\ buffer'[i] = buffer[i]
               \/ \A p \in Nat : Begun(p) => p < buffer'[i].pkt
    <3>1. Pkt \in Nat
      BY Counts DEF Typed, TypeOK
    <3>2. Item("header", Pkt) \in Items
      BY <3>1 DEF Item, Items, Kind
    <3>3. CASE i = Len(buffer) + 1
      <4>1. buffer'[i] = Item("header", Pkt)
        BY <3>2, <3>3, <2>1
      <4>2. buffer'[i].pkt = Pkt
        BY <4>1 DEF Item
      <4>3. \A p \in Nat : Begun(p) => p < Pkt
        BY <2>1 DEF Begun
      <4> QED
        BY <4>2, <4>3
    <3>4. CASE i # Len(buffer) + 1
      BY <3>2, <3>4, <2>1
    <3> QED
      BY <3>3, <3>4
  <2> QED
    BY <2>2, <2>3, <1>1, <1>2, InOrderGrows
<1>4. CASE DataLine
  BY <1>1, <1>4, DataWritten, FlushOrder
<1>5. CASE OtherLine
  <2>1. buffer \in Seq(Items) /\ buffer # <<>> /\ Flush(buffer)
    BY <1>5 DEF OtherLine, Typed
  <2>2. \A i \in 1..Len(buffer) : i \in DOMAIN buffer
    BY <2>1
  <2> QED
    BY <2>1, <2>2, <1>1, FlushOrder
<1>6. CASE SerialException \/ MissLine \/ Connect
  <2>1. content' = content /\ buffer' = buffer
    BY <1>6 DEF SerialException, MissLine, Connect, fileVars
  <2>2. Headers(s)' = Headers(s) /\ \A q : At(s, q)' = At(s, q)
    BY <1>1, <2>1, SameView
  <2> QED
    BY <2>1, <2>2, <1>1, <1>2, InOrderGrows
<1>7. CASE EmptyFile
  <2>1. content' = <<>> /\ buffer' = buffer
    BY <1>7 DEF EmptyFile, threadVars
  <2>2. Base(s)' = Base(s)
    BY <1>1 DEF Base
  <2>3. ASSUME NEW q \in Headers(s)' PROVE q \in Headers(s) /\ At(s, q)' = At(s, q)
    <3>1. /\ Base(s) \in Nat /\ pos[s] \in Nat /\ pos[s] <= Top(s) /\ Top(s) \in Nat
      BY AtItems
    <3>2. q \in Ahead(s)' /\ At(s, q)'.is = "header"
      BY DEF Headers
    <3>3. Top(s)' = pos[s]
      BY <1>1, <2>1, <3>1 DEF Top
    <3>4. q \in Base(s) + 1..pos[s]
      BY <3>2, <3>3, <2>2 DEF Ahead
    <3>5. q \in Ahead(s) /\ q <= pos[s]
      BY <3>1, <3>4 DEF Ahead
    <3>6. At(s, q)' = At(s, q)
      BY <3>5, <1>1, <2>2 DEF At
    <3> QED
      BY <3>2, <3>5, <3>6 DEF Headers
  <2> QED
    BY <2>1, <2>3, <1>1, <1>2, InOrderGrows
<1> QED
  BY <1>3, <1>4, <1>5, <1>6, <1>7 DEF Sniffer

\* Between two packets the file ends with a line, as a task sees it.
LEMMA SnifferClean ==
  ASSUME Typed, BufferOK, NEW s \in Sockets, SocketOK(s), Between => Clean(s),
         Sniffer \/ EmptyFile
  PROVE  (Between => Clean(s))'
<1>1. /\ offset \in Nat /\ Base(s) \in Nat /\ Top(s) \in Nat /\ pos[s] \in Nat
      /\ pos[s] <= Top(s) /\ Top(s) <= offset /\ length \in Nat /\ NLines \in Nat \ {0}
  BY AtItems, WebsnifferAssumption DEF Typed, TypeOK
<1>2. End' = End
  BY DEF End, Item
<1> SUFFICES ASSUME Between' PROVE Clean(s)'
  OBVIOUS
<1>3. CASE HeaderLine
  BY <1>1, <1>3 DEF HeaderLine, Between
<1>4. CASE DataLine
  <2>1. length <= 1 /\ pos' = pos /\ ahead' = ahead
    <3>1. thread' = "up" /\ dangling' = (dangling /\ length > 1)
          /\ length' = IF length <= 1 THEN 0 ELSE length - 1
      BY <1>4 DEF DataLine
    <3>2. pos' = pos /\ ahead' = ahead
      BY <1>4 DEF DataLine, socketVars
    <3> QED
      BY <3>1, <3>2, <1>1 DEF Between
  <2>2. PICK items \in Seq(Items) :
          items # <<>> /\ Flush(items) /\ items[Len(items)] = End
    BY <2>1, <1>4, DataWritten
  <2>3. /\ offset' = offset + Len(items)
        /\ \A q \in offset + 1..offset' : /\ q - offset \in 1..Len(items)
                                          /\ q \in Ahead(s)' /\ At(s, q)' = items[q - offset]
    BY <2>1, <2>2, FlushView
  <2>4. Len(items) \in Nat /\ Len(items) > 0
    BY <2>2
  <2> SUFFICES ASSUME NEW o, o = offset' PROVE Clean(s)'
    OBVIOUS
  <2>5. o \in offset + 1..offset' /\ o - offset = Len(items)
    BY <2>3, <2>4, <1>1
  <2>6. o \in Ahead(s)' /\ At(s, o)' = End
    BY <2>2, <2>3, <2>5
  <2> QED
    BY <2>6 DEF Clean, End, Item
<1>5. CASE OtherLine
  BY <1>1, <1>5 DEF OtherLine, Between, BufferOK
<1>6. CASE SerialException \/ MissLine \/ Connect
  <2>1. /\ content' = content /\ offset' = offset /\ pos' = pos /\ ahead' = ahead
    BY <1>6 DEF SerialException, MissLine, Connect, fileVars, socketVars
  <2>2. /\ Base(s)' = Base(s) /\ Ahead(s)' = Ahead(s)
        /\ \A q : At(s, q)' = At(s, q)
    BY <2>1, SameView
  <2>3. Between
    <3>1. CASE SerialException
      <4>1. ~dangling'
        BY DEF Between
      <4>2. ~dangling /\ ~(length > 0)
        BY <3>1, <4>1 DEF SerialException
      <4> QED
        BY <4>2 DEF Between
    <3>2. CASE MissLine
      <4>1. thread # "up" /\ dangling' = dangling
        BY <3>2 DEF MissLine
      <4> QED
        BY <4>1 DEF Between
    <3>3. CASE Connect
      <4>1. thread # "up" /\ dangling' = dangling
        BY <3>3 DEF Connect, history
      <4> QED
        BY <4>1 DEF Between
    <3> QED
      BY <3>1, <3>2, <3>3, <1>6
  <2>4. Clean(s)
    BY <2>3
  <2> SUFFICES ASSUME NEW o, o = offset PROVE Clean(s)'
    OBVIOUS
  <2> QED
    BY <2>1, <2>2, <2>4, <1>2 DEF Clean
<1>7. CASE EmptyFile
  <2>1. /\ content' = <<>> /\ offset' = offset /\ pos' = pos /\ ahead' = ahead
        /\ dangling' = dangling /\ thread' = thread /\ length' = length
    BY <1>7 DEF EmptyFile, threadVars, socketVars
  <2>2. Base(s)' = Base(s) /\ Top(s)' = pos[s]
    BY <2>1, <1>1 DEF Base, Top
  <2>3. Clean(s)
    BY <2>1 DEF Between
  <2>4. CASE Base(s) = offset
    BY <2>1, <2>2, <2>4 DEF Clean
  <2>5. CASE pos[s] < offset
    BY <2>1, <2>5 DEF Clean
  <2>6. CASE offset \in Ahead(s) /\ At(s, offset) = End /\ ~(pos[s] < offset)
    <3> SUFFICES ASSUME NEW o, o = offset PROVE Clean(s)'
      OBVIOUS
    <3>1. o = pos[s] /\ o \in Ahead(s) /\ At(s, o) = End
      BY <2>6, <1>1
    <3>2. o \in Ahead(s)'
      BY <3>1, <2>2, <1>1 DEF Ahead
    <3>3. At(s, o)' = At(s, o)
      BY <3>1, <2>1, <2>2, <1>1 DEF At
    <3> QED
      BY <3>1, <3>2, <3>3, <2>1, <1>2 DEF Clean
  <2> QED
    BY <2>3, <2>4, <2>5, <2>6 DEF Clean
<1> QED
  BY <1>3, <1>4, <1>5, <1>6, <1>7 DEF Sniffer

\* Reading leaves the end of the file where it is.
LEMMA ReadClean ==
  ASSUME Typed, NEW s \in Sockets, SocketOK(s), Between => Clean(s), ReadLine(s)
  PROVE  (Between => Clean(s))'
<1>1. /\ offset \in Nat /\ Base(s) \in Nat /\ Top(s) \in Nat /\ pos[s] \in Nat
      /\ pos[s] <= Top(s) /\ Top(s) <= offset /\ Base(s) <= pos[s]
  BY AtItems
<1>2. /\ content' = content /\ offset' = offset
      /\ dangling' = dangling /\ thread' = thread /\ length' = length
  BY DEF ReadLine, fileVars, threadVars
<1>3. /\ pos'[s] \in {pos[s], Top(s)} /\ Base(s)' = Base(s) + Len(line'[s])
      /\ Top(s)' = Top(s) /\ line'[s] \in Seq(Items)
      /\ \A q \in Ahead(s)' : q \in Ahead(s) /\ At(s, q)' = At(s, q)
      /\ \A i \in 1..Len(line'[s]) : Base(s) + i \in Ahead(s)
  BY ReadView
<1>4. End' = End
  BY DEF End, Item
<1> DEFINE l == Len(line'[s])
<1>5. l \in Nat /\ Base(s)' = Base(s) + l
  BY <1>3
<1> HIDE DEF l
<1>6. Base(s)' <= Top(s)
  <2>1. l = 0 \/ Base(s) + l \in Ahead(s)
    BY <1>3, <1>5 DEF l
  <2> QED
    BY <2>1, <1>1, <1>5 DEF Ahead
<1> SUFFICES ASSUME Between' PROVE Clean(s)'
  OBVIOUS
<1>7. Clean(s)
  BY <1>2 DEF Between
<1>8. CASE Base(s) = offset
  <2>1. Base(s)' = offset
    BY <1>1, <1>5, <1>6, <1>8
  <2> QED
    BY <2>1, <1>2 DEF Clean
<1>9. CASE content = <<>> /\ pos[s] < offset
  <2>1. Top(s) = pos[s]
    BY <1>1, <1>9 DEF Top
  <2> QED
    BY <2>1, <1>2, <1>3, <1>9 DEF Clean
<1>10. CASE offset \in Ahead(s) /\ At(s, offset) = End
  <2> SUFFICES ASSUME NEW o, o = offset PROVE Clean(s)'
    OBVIOUS
  <2>1. CASE Base(s)' = o
    BY <2>1, <1>2 DEF Clean
  <2>2. CASE Base(s)' # o
    <3>1. o = Top(s)
      BY <1>1, <1>10 DEF Ahead
    <3>2. o \in Ahead(s)'
      BY <3>1, <2>2, <1>1, <1>3, <1>5, <1>6 DEF Ahead
    <3>3. At(s, o)' = End
      BY <3>2, <1>3, <1>10
    <3> QED
      BY <3>2, <3>3, <1>2, <1>4 DEF Clean
  <2> QED
    BY <2>1, <2>2
<1> QED
  BY <1>7, <1>8, <1>9, <1>10 DEF Clean

\* The thread's file, its buffer, and what it knows of the packets.
LEMMA ThreadKeeps ==
  ASSUME Typed, FileOK, BufferOK, PacketsOK, Sniffer \/ EmptyFile
  PROVE  FileOK' /\ BufferOK' /\ PacketsOK'
<1>1. /\ printed \in Nat /\ NLines \in Nat /\ NLines > 0 /\ Pkt \in Nat /\ LineNo \in 0..NLines
      /\ offset \in Nat /\ length \in 0..NLines /\ buffer \in Seq(Items)
      /\ \A p \in Packets : end[p] \in Nat
  BY WebsnifferAssumption, Counts DEF Typed, TypeOK
<1>2. CASE HeaderLine
  <2>1. /\ NodePrints /\ LineNo = 0 /\ thread' = "up" /\ thread = "up" /\ ~dangling'
        /\ length' = NLines /\ content' = content /\ offset' = offset /\ end' = end
        /\ cut' = IF dangling THEN cut \cup {Pkt} ELSE cut
        /\ buffer' = Append(buffer, Item("header", Pkt))
    BY <1>2 DEF HeaderLine, fileVars
  <2>2. Pkt' = Pkt /\ LineNo' = 1
    BY <2>1, <1>1, NextLine
  <2>3. \A p \in Nat : Begun(p) => p < Pkt /\ Begun(p)'
    BY <2>1, <2>2, <1>1 DEF Begun
  <2>4. Item("header", Pkt) \in Items /\ Item("header", Pkt).is = "header"
        /\ Item("header", Pkt).pkt = Pkt
    BY <1>1 DEF Item, Items, Kind
  <2> DEFINE h == Item("header", Pkt)
             n == Len(buffer)
  <2>5. /\ DOMAIN buffer = 1..n /\ n \in Nat /\ DOMAIN buffer' = 1..n + 1
        /\ \A i \in 1..n : buffer'[i] = buffer[i]
        /\ buffer'[n + 1] = h
    BY <2>1, <2>4, <1>1
  <2>6. \A i \in 1..n : /\ buffer[i].is = "header" /\ buffer[i].pkt \in Nat
                        /\ buffer[i].pkt < Pkt /\ Begun(buffer[i].pkt)
    <3> SUFFICES ASSUME NEW i \in 1..n
                 PROVE  /\ buffer[i].is = "header" /\ buffer[i].pkt \in Nat
                        /\ buffer[i].pkt < Pkt /\ Begun(buffer[i].pkt)
      OBVIOUS
    <3>1. buffer[i] \in Items
      BY <1>1
    <3>2. buffer[i].is = "header" /\ buffer[i].pkt \in Nat /\ Begun(buffer[i].pkt)
      BY <3>1, <2>5 DEF BufferOK, Items
    <3> QED
      BY <3>2, <2>3
  <2>7. ~dangling => buffer = <<>>
    BY <2>1 DEF BufferOK
  <2> HIDE DEF n, h
  <2>8. ASSUME NEW i \in DOMAIN buffer' PROVE buffer'[i].is = "header" /\ Begun(buffer[i].pkt)'
    <3> SUFFICES ASSUME NEW x, x = buffer'[i].pkt
                 PROVE  buffer'[i].is = "header" /\ Begun(x)'
      OBVIOUS
    <3>1. CASE i = n + 1
      <4>1. buffer'[i].is = "header" /\ x = Pkt
        BY <3>1, <2>4, <2>5 DEF h
      <4> QED
        BY <4>1, <2>2 DEF Begun
    <3>2. CASE i \in 1..n
      BY <3>2, <2>3, <2>5, <2>6
    <3> QED
      BY <3>1, <3>2, <2>5
  <2>9. ASSUME NEW i \in DOMAIN buffer', NEW j \in DOMAIN buffer', i < j
        PROVE  buffer'[i].pkt < buffer'[j].pkt
    <3>1. i \in 1..n /\ (j \in 1..n \/ j = n + 1)
      BY <2>5, <2>9
    <3>2. CASE j \in 1..n
      BY <3>1, <3>2, <2>5, <2>9 DEF BufferOK
    <3>3. CASE j = n + 1
      BY <3>1, <3>3, <2>4, <2>5, <2>6 DEF h
    <3> QED
      BY <3>1, <3>2, <3>3
  <2>10. Pkt \notin cut' => buffer' = <<h>>
    <3>1. Pkt \notin cut' => buffer = <<>>
      BY <2>1, <2>7
    <3>2. buffer' = Append(buffer, h) /\ Append(<<>>, h) = <<h>>
      BY <2>1 DEF h
    <3> QED
      BY <3>1, <3>2
  <2>11. Item("header", Pkt)' = h
    BY <2>2 DEF h, Item
  <2>12. BufferOK'
    BY <2>1, <2>2, <2>8, <2>9, <2>10, <2>11 DEF BufferOK
  <2>13. FileOK'
    BY <2>1 DEF FileOK
  <2>14. PacketsOK'
    <3>1. NLines = NLines - 1 + 1 /\ NLines > 0
      BY <1>1
    <3> QED
      BY <3>1, <2>1, <2>2 DEF PacketsOK
  <2> QED
    BY <2>12, <2>13, <2>14
<1>3. CASE DataLine
  <2>1. /\ NodePrints /\ LineNo > 0 /\ thread = "up" /\ thread' = "up"
        /\ length' = IF length <= 1 THEN 0 ELSE length - 1
        /\ end' = IF LineNo = NLines THEN [end EXCEPT ![Pkt] = offset'] ELSE end
        /\ dangling' = (dangling /\ length > 1) /\ cut' = cut
    BY <1>3 DEF DataLine
  <2>2. PICK items \in Seq(Items) : items # <<>> /\ Flush(items)
    BY <1>3, DataWritten
  <2>3. /\ Len(content') = offset' /\ offset' = offset + Len(items) /\ buffer' = <<>>
        /\ Len(items) \in Nat
    <3>1. Len(content') = offset' /\ offset' = offset + Len(items)
      BY <2>2, FlushFile
    <3>2. buffer' = <<>>
      BY <2>2 DEF Flush
    <3>3. Len(items) \in Nat
      OBVIOUS
    <3> QED
      BY <3>1, <3>2, <3>3
  <2>4. FileOK' /\ BufferOK'
    BY <2>3 DEF FileOK, BufferOK
  <2>5. Pkt \in Packets /\ offset' \in Nat /\ offset <= offset'
    BY <2>1, <2>3, <1>1, NextLine
  <2>6. \/ LineNo < NLines /\ Pkt' = Pkt /\ LineNo' = LineNo + 1
        \/ LineNo = NLines /\ Pkt' = Pkt + 1 /\ LineNo' = 0
    BY <2>1, <1>1, NextLine
  <2>7. length' > 0 => LineNo' > 0 /\ length' = NLines - LineNo' + 1
    <3> SUFFICES ASSUME length' > 0 PROVE LineNo' > 0 /\ length' = NLines - LineNo' + 1
      OBVIOUS
    <3>1. length > 1 /\ length' = length - 1
      BY <2>1, <1>1
    <3>2. length = NLines - LineNo + 1
      BY <2>1, <3>1, <1>1 DEF PacketsOK
    <3>3. LineNo < NLines
      BY <3>1, <3>2, <1>1
    <3>4. LineNo' = LineNo + 1
      BY <3>3, <2>6, <1>1
    <3> QED
      BY <3>1, <3>2, <3>4, <1>1
  <2>8. LineNo' > 0 /\ Pkt' \notin cut' => ~dangling' /\ length' > 0
    <3> SUFFICES ASSUME LineNo' > 0, Pkt' \notin cut' PROVE ~dangling' /\ length' > 0
      OBVIOUS
    <3>1. LineNo < NLines /\ Pkt' = Pkt
      BY <2>6
    <3>2. ~dangling /\ length = NLines - LineNo + 1
      BY <2>1, <3>1, <1>1 DEF PacketsOK
    <3>3. length' > 0
      BY <2>1, <3>1, <3>2, <1>1
    <3>4. ~dangling'
      BY <2>1, <3>2
    <3> QED
      BY <3>3, <3>4
  <2>9. ASSUME NEW p \in Packets PROVE end'[p] <= offset' /\ (p < Pkt' \/ end'[p] = 0)
    <3>1. p \in Nat /\ DOMAIN end = Packets
      BY DEF Packets, Typed
    <3>2. end[p] <= offset /\ (p < Pkt \/ end[p] = 0) /\ end[p] \in Nat
      BY <1>1 DEF PacketsOK
    <3>3. CASE end'[p] = end[p]
      BY <3>1, <3>2, <3>3, <2>5, <2>6, <1>1
    <3>4. CASE end'[p] # end[p]
      <4>1. LineNo = NLines /\ p = Pkt /\ end'[p] = offset'
        BY <3>1, <3>4, <2>1
      <4> QED
        BY <4>1, <2>5, <2>6, <1>1
    <3> QED
      BY <3>3, <3>4
  <2>10. PacketsOK'
    BY <2>1, <2>3, <2>7, <2>8, <2>9 DEF PacketsOK
  <2> QED
    BY <2>4, <2>10
<1>4. CASE OtherLine
  <2>1. /\ buffer # <<>> /\ Flush(buffer) /\ printed' = printed /\ thread' = thread
        /\ length' = length /\ end' = end /\ dangling' = dangling /\ cut' = cut
    BY <1>4 DEF OtherLine
  <2>2. /\ Len(content') = offset' /\ offset' = offset + Len(buffer) /\ buffer' = <<>>
        /\ Len(buffer) \in Nat
    <3>1. buffer \in Seq(Items) /\ Len(buffer) \in Nat
      BY <1>1
    <3>2. buffer' = <<>> /\ offset' = offset + Len(buffer)
      BY <2>1 DEF Flush
    <3>3. Len(content') = offset'
      BY <2>1, <3>1, FlushFile
    <3> QED
      BY <3>1, <3>2, <3>3
  <2>3. FileOK' /\ BufferOK'
    BY <2>2 DEF FileOK, BufferOK
  <2>4. Pkt' = Pkt /\ LineNo' = LineNo
    BY <2>1 DEF Pkt, LineNo
  <2>5. \A p \in Packets : end'[p] <= offset' /\ (p < Pkt' \/ end'[p] = 0)
    BY <2>1, <2>2, <2>4, <1>1 DEF PacketsOK
  <2>6. PacketsOK'
    BY <2>1, <2>2, <2>4, <2>5 DEF PacketsOK
  <2> QED
    BY <2>3, <2>6
<1>5. CASE SerialException
  <2>1. /\ printed' = printed /\ thread' = "down" /\ length' = length /\ buffer' = buffer
        /\ content' = content /\ offset' = offset /\ end' = end
        /\ dangling' = (dangling \/ length > 0)
        /\ cut' = IF LineNo > 0 THEN cut \cup {Pkt} ELSE cut
    BY <1>5 DEF SerialException, fileVars
  <2>2. Pkt' = Pkt /\ LineNo' = LineNo /\ \A p : Begun(p)' <=> Begun(p)
    BY <2>1 DEF Pkt, LineNo, Begun
  <2>3. ~(buffer # <<>> /\ ~dangling')
    BY <2>1, <1>1 DEF BufferOK
  <2>4. ~(LineNo > 0 /\ Pkt \notin cut')
    BY <2>1
  <2>5. FileOK' /\ PacketsOK'
    BY <2>1, <2>2, <2>4 DEF FileOK, PacketsOK
  <2>6. BufferOK'
    BY <2>1, <2>2, <2>3 DEF BufferOK
  <2> QED
    BY <2>5, <2>6
<1>6. CASE MissLine
  <2>1. /\ NodePrints /\ thread = "down" /\ thread' = "down" /\ length' = length
        /\ buffer' = buffer /\ content' = content /\ offset' = offset /\ end' = end
        /\ dangling' = dangling /\ cut' = cut \cup {Pkt}
    BY <1>6 DEF MissLine, fileVars
  <2>2. \/ LineNo < NLines /\ Pkt' = Pkt /\ LineNo' = LineNo + 1
        \/ LineNo = NLines /\ Pkt' = Pkt + 1 /\ LineNo' = 0
    BY <2>1, <1>1, NextLine
  <2>3. ~(buffer # <<>> /\ ~dangling)
    BY <2>1 DEF BufferOK
  <2>4. \A p \in Nat : Begun(p) => Begun(p)'
    BY <2>1, <1>1, BegunStays
  <2>5. \A i \in DOMAIN buffer' : buffer'[i].is = "header" /\ Begun(buffer[i].pkt)'
    <3> SUFFICES ASSUME NEW i \in DOMAIN buffer, NEW x, x = buffer'[i].pkt
                 PROVE  buffer'[i].is = "header" /\ Begun(x)'
      BY <2>1
    <3>1. buffer[i] \in Items
      BY <1>1
    <3>2. x \in Nat
      BY <3>1, <2>1 DEF Items
    <3> QED
      BY <3>2, <2>1, <2>4 DEF BufferOK
  <2>6. BufferOK'
    BY <2>1, <2>3, <2>5 DEF BufferOK
  <2>7. ~(LineNo' > 0 /\ Pkt' \notin cut')
    BY <2>1, <2>2
  <2>8. \A p \in Packets : end'[p] <= offset' /\ (p < Pkt' \/ end'[p] = 0)
    <3> SUFFICES ASSUME NEW p \in Packets PROVE end'[p] <= offset' /\ (p < Pkt' \/ end'[p] = 0)
      OBVIOUS
    <3>1. p \in Nat
      BY DEF Packets
    <3> QED
      BY <3>1, <2>1, <2>2, <1>1 DEF PacketsOK
  <2>9. FileOK' /\ PacketsOK'
    BY <2>1, <2>7, <2>8 DEF FileOK, PacketsOK
  <2> QED
    BY <2>6, <2>9
<1>7. CASE Connect
  <2>1. /\ printed' = printed /\ thread = "down" /\ thread' = "up" /\ length' = 0
        /\ buffer' = buffer /\ content' = content /\ offset' = offset /\ end' = end
        /\ dangling' = dangling /\ cut' = cut
    BY <1>7 DEF Connect, fileVars, history
  <2>2. Pkt' = Pkt /\ LineNo' = LineNo /\ \A p : Begun(p)' <=> Begun(p)
    BY <2>1 DEF Pkt, LineNo, Begun
  <2>3. ~(buffer # <<>> /\ ~dangling)
    BY <2>1 DEF BufferOK
  <2>4. ~(LineNo > 0 /\ Pkt \notin cut)
    BY <2>1 DEF PacketsOK
  <2>5. FileOK' /\ PacketsOK'
    BY <2>1, <2>2, <2>4 DEF FileOK, PacketsOK
  <2>6. BufferOK'
    BY <2>1, <2>2, <2>3 DEF BufferOK
  <2> QED
    BY <2>5, <2>6
<1>8. CASE EmptyFile
  <2>1. /\ printed' = printed /\ thread' = thread /\ length' = length /\ buffer' = buffer
        /\ content' = <<>> /\ offset' = offset /\ end' = end
        /\ dangling' = dangling /\ cut' = cut
    BY <1>8 DEF EmptyFile, threadVars
  <2>2. Pkt' = Pkt /\ LineNo' = LineNo /\ \A p : Begun(p)' <=> Begun(p)
    BY <2>1 DEF Pkt, LineNo, Begun
  <2>3. Item("header", Pkt)' = Item("header", Pkt)
    BY <2>2 DEF Item
  <2>4. FileOK' /\ PacketsOK'
    BY <2>1, <2>2 DEF FileOK, PacketsOK
  <2>5. BufferOK'
    BY <2>1, <2>2, <2>3 DEF BufferOK
  <2> QED
    BY <2>4, <2>5
<1> QED
  BY <1>2, <1>3, <1>4, <1>5, <1>6, <1>7, <1>8 DEF Sniffer

\* What a flush leaves has its types.
LEMMA FlushTyped ==
  ASSUME Typed, NEW items \in Seq(Items), items # <<>>, Flush(items)
  PROVE  /\ content' \in Seq(Items) /\ buffer' \in Seq(Items) /\ offset' \in Nat
         /\ Len(content') <= offset' /\ offset <= offset'
         /\ emptied' \in [Sockets -> SUBSET Nat]
<1>1. /\ offset \in Nat /\ Len(items) \in Nat /\ items[1] \in Items
      /\ emptied \in [Sockets -> SUBSET Nat]
  <2>1. 1 \in DOMAIN items
    OBVIOUS
  <2> QED
    BY <2>1 DEF Typed, TypeOK
<1>2. content' \in Seq(Items) /\ Len(content') = offset' /\ offset' = offset + Len(items)
  BY FlushFile
<1>3. buffer' = <<>> /\ <<>> \in Seq(Items)
  BY DEF Flush
<1>4. items[1].pkt \in Nat
  BY <1>1 DEF Items
<1>5. emptied' = [s \in Sockets |->
                   emptied[s] \cup
                     IF items # <<>> /\ Hole # <<>> /\ pos[s] < offset
                     THEN {items[1].pkt} ELSE {}]
  BY DEF Flush
<1>6. emptied' \in [Sockets -> SUBSET Nat]
  BY <1>1, <1>4, <1>5
<1> QED
  BY <1>1, <1>2, <1>3, <1>6

\* The thread's steps, and the button's, keep the types.
LEMMA SnifferTyped ==
  ASSUME Typed, Sniffer \/ EmptyFile
  PROVE  Typed'
<1>1. /\ printed \in Nat /\ NLines \in Nat /\ NLines > 0 /\ Pkt \in Nat /\ LineNo \in 0..NLines
      /\ offset \in Nat /\ length \in 0..NLines /\ buffer \in Seq(Items) /\ faults \in Nat
      /\ MaxFaults \in Nat /\ Len(content) \in Nat /\ Len(content) <= offset
      /\ pos \in [Sockets -> 0..offset] /\ content \in Seq(Items) /\ faults <= MaxFaults
      /\ cut \subseteq Packets /\ end \in [Packets -> Nat]
      /\ emptied \in [Sockets -> SUBSET Nat]
  BY WebsnifferAssumption, Counts DEF Typed, TypeOK
<1>2. /\ ws' = ws /\ pktfile' = pktfile /\ task' = task /\ pos' = pos /\ ahead' = ahead
      /\ line' = line /\ handled' = handled /\ torn' = torn
      /\ NodePrints \/ printed' = printed
  BY DEF Sniffer, HeaderLine, DataLine, OtherLine, SerialException, MissLine, Connect,
         EmptyFile, threadVars, socketVars, history
<1>3. printed' \in Nat /\ (LineNo' > 0 => Pkt' \in Packets)
  <2>1. CASE printed' = printed
    BY <2>1, <1>1 DEF Typed, Pkt, LineNo
  <2>2. CASE NodePrints
    BY <2>2, <1>1, NextLine
  <2> QED
    BY <2>1, <2>2, <1>2
<1>4. /\ length' \in 0..NLines /\ faults' \in 0..MaxFaults /\ thread' \in {"down", "up"}
      /\ dangling' \in BOOLEAN
  <2>1. thread \in {"down", "up"} /\ faults' \in {faults, faults + 1}
        /\ (faults' # faults => faults < MaxFaults)
    BY DEF Sniffer, HeaderLine, DataLine, OtherLine, SerialException, MissLine, Connect,
           EmptyFile, threadVars, socketVars, history, Typed, TypeOK
  <2>2. faults' \in 0..MaxFaults
    BY <2>1, <1>1
  <2>3. thread' \in {"down", "up"}
    BY <2>1 DEF Sniffer, HeaderLine, DataLine, OtherLine, SerialException, MissLine, Connect,
           EmptyFile, threadVars
  <2>4. length' \in {length, NLines, 0} \/ (length > 1 /\ length' = length - 1)
    BY <1>1 DEF Sniffer, HeaderLine, DataLine, OtherLine, SerialException, MissLine, Connect,
           EmptyFile, threadVars
  <2>5. length' \in 0..NLines
    BY <2>4, <1>1
  <2>6. dangling \in BOOLEAN
    BY DEF Typed, TypeOK
  <2>7. dangling' \in BOOLEAN
    BY <2>6 DEF Sniffer, HeaderLine, DataLine, OtherLine, SerialException, MissLine, Connect,
           EmptyFile, history
  <2> QED
    BY <2>2, <2>3, <2>5, <2>7
<1>5. cut' \subseteq Packets
  <2>1. cut' = cut \/ (cut' = cut \cup {Pkt} /\ Pkt \in Packets)
    BY <1>1 DEF Sniffer, HeaderLine, DataLine, OtherLine, SerialException, MissLine, Connect,
           EmptyFile, history, NodePrints, Typed
  <2> QED
    BY <2>1, <1>1
<1>6. /\ content' \in Seq(Items) /\ buffer' \in Seq(Items) /\ offset' \in Nat
      /\ Len(content') <= offset' /\ offset <= offset'
      /\ emptied' \in [Sockets -> SUBSET Nat]
  <2>1. CASE DataLine
    BY <2>1, DataWritten, FlushTyped
  <2>2. CASE OtherLine
    BY <2>2, <1>1, FlushTyped DEF OtherLine
  <2>3. CASE EmptyFile
    <3>1. /\ content' = <<>> /\ buffer' = buffer /\ offset' = offset
          /\ emptied' = [s \in Sockets |-> emptied[s] \cup
                {content[i].pkt : i \in {j \in DOMAIN content : j > pos[s]}}]
      BY <2>3 DEF EmptyFile, threadVars
    <3>2. \A i \in DOMAIN content : content[i].pkt \in Nat
      <4>1. \A i \in DOMAIN content : content[i] \in Items
        BY <1>1
      <4> QED
        BY <4>1 DEF Items
    <3>3. emptied' \in [Sockets -> SUBSET Nat]
      BY <3>1, <3>2, <1>1
    <3>4. content' \in Seq(Items) /\ Len(content') = 0
      BY <3>1
    <3> QED
      BY <3>1, <3>3, <3>4, <1>1
  <2>4. CASE HeaderLine
    <3>1. Item("header", Pkt) \in Items
      BY <1>1 DEF Item, Items, Kind
    <3>2. buffer' = Append(buffer, Item("header", Pkt)) /\ content' = content
          /\ offset' = offset /\ emptied' = emptied
      BY <2>4 DEF HeaderLine, fileVars
    <3> QED
      BY <3>1, <3>2, <1>1
  <2>5. CASE SerialException \/ MissLine \/ Connect
    <3>1. content' = content /\ buffer' = buffer /\ offset' = offset /\ emptied' = emptied
      BY <2>5 DEF SerialException, MissLine, Connect, fileVars, history
    <3> QED
      BY <3>1, <1>1
  <2> QED
    BY <2>1, <2>2, <2>3, <2>4, <2>5 DEF Sniffer
<1>7. pos' \in [Sockets -> 0..offset']
  <2>1. 0..offset \subseteq 0..offset'
    BY <1>1, <1>6
  <2> QED
    BY <2>1, <1>1, <1>2
<1>8. end' \in [Packets -> Nat]
  <2>1. end' = end \/ end' = [end EXCEPT ![Pkt] = offset']
    BY DEF Sniffer, HeaderLine, DataLine, OtherLine, SerialException, MissLine, Connect,
           EmptyFile, history
  <2> QED
    BY <2>1, <1>1, <1>6
<1>9. TypeOK'
  BY <1>2, <1>3, <1>4, <1>5, <1>6, <1>7 DEF Typed, TypeOK
<1> QED
  BY <1>2, <1>3, <1>6, <1>8, <1>9 DEF Typed

-----------------------------------------------------------------------------
(***************************************************************************)
(* The web sockets                                                         *)
(***************************************************************************)

SocketStep(s) == Open(s) \/ send_pkts(s) \/ on_close(s) \/ close_pktfile(s)

\* A step of a socket leaves the thread, the file and the other sockets alone.
LEMMA SocketAlone ==
  ASSUME Typed, NEW s \in Sockets, SocketStep(s)
  PROVE  /\ UNCHANGED <<threadVars, fileVars, faults, end, dangling, cut, emptied>>
         /\ \A t \in Sockets \ {s} :
              /\ ws'[t] = ws[t] /\ task'[t] = task[t] /\ pos'[t] = pos[t]
              /\ ahead'[t] = ahead[t] /\ line'[t] = line[t] /\ handled'[t] = handled[t]
              /\ torn'[t] = torn[t]
<1>1. CASE ReadLine(s)
  BY <1>1 DEF ReadLine, Typed, TypeOK
<1>2. CASE HandleLine(s)
  BY <1>2 DEF HandleLine, Handles, TooLate, Ignores, history, Typed, TypeOK
<1>3. CASE Open(s) \/ ReadFails(s) \/ ErrorLogged(s)
  BY <1>3 DEF Open, ReadFails, ErrorLogged, history, Typed, TypeOK
<1>4. CASE on_close(s)
  BY <1>4 DEF on_close, Typed, TypeOK
<1>5. CASE CloseFile(s) \/ ForgetFile(s)
  BY <1>5 DEF CloseFile, ForgetFile, history, Typed, TypeOK
<1> QED
  BY <1>1, <1>2, <1>3, <1>4, <1>5 DEF SocketStep, send_pkts, close_pktfile

\* The steps of a socket keep the types.
LEMMA SocketTyped ==
  ASSUME Typed, NEW s \in Sockets, SocketOK(s), SocketStep(s)
  PROVE  Typed'
<1>1. UNCHANGED <<threadVars, fileVars, faults, end, dangling, cut, emptied>>
  BY SocketAlone
<1>2. Pkt' = Pkt /\ LineNo' = LineNo
  BY <1>1 DEF threadVars, Pkt, LineNo
<1> DEFINE WsTyped == ws \in [Sockets -> {"new", "open", "closed"}]
           FileTyped == pktfile \in [Sockets -> {"none", "open", "closed"}]
           TaskTyped == task \in [Sockets -> {"none", "read", "line", "error", "ended", "dead"}]
           PosTyped == pos \in [Sockets -> 0..offset]
           AheadTyped == ahead \in [Sockets -> Seq(Items)]
           LineTyped == line \in [Sockets -> Seq(Items)]
           HandledTyped == handled \in [Sockets -> Seq(Told)]
           TornTyped == torn \in [Sockets -> SUBSET Nat]
<1>3. /\ WsTyped /\ FileTyped /\ TaskTyped /\ PosTyped /\ AheadTyped /\ LineTyped
      /\ HandledTyped /\ TornTyped
  BY DEF Typed, TypeOK
<1>4. <<>> \in Seq(Items) /\ <<>> \in Seq(Told)
  OBVIOUS
<1>5. offset \in Nat /\ 0 \in 0..offset
  BY DEF Typed, TypeOK
<1>6. Again(s) \in {"ended", "read"}
  BY DEF Again
<1>7. WsTyped' /\ FileTyped'
  <2>1. \/ ws' = ws \/ ws' = [ws EXCEPT ![s] = "open"] \/ ws' = [ws EXCEPT ![s] = "closed"]
    BY DEF SocketStep, send_pkts, close_pktfile, Open, ReadLine, ReadFails, ErrorLogged,
           HandleLine, on_close, CloseFile, ForgetFile
  <2>2. \/ pktfile' = pktfile \/ pktfile' = [pktfile EXCEPT ![s] = "open"]
        \/ pktfile' = [pktfile EXCEPT ![s] = "closed"]
        \/ pktfile' = [pktfile EXCEPT ![s] = "none"]
    BY DEF SocketStep, send_pkts, close_pktfile, Open, ReadLine, ReadFails, ErrorLogged,
           HandleLine, on_close, CloseFile, ForgetFile, NoFile
  <2> QED
    BY <2>1, <2>2, <1>3
<1>8. TaskTyped'
  <2>1. task' = task \/ \E x \in {"read", "line", "error", "ended", "dead"} :
                           task' = [task EXCEPT ![s] = x]
    BY <1>6 DEF SocketStep, send_pkts, close_pktfile, Open, ReadLine, ReadFails, ErrorLogged,
           HandleLine, Handles, TooLate, Ignores, on_close, CloseFile, ForgetFile
  <2> QED
    BY <2>1, <1>3
<1>9. PosTyped' /\ AheadTyped' /\ LineTyped'
  <2>1. CASE ReadLine(s)
    <3>1. /\ line'[s] \in Seq(Items) /\ ahead'[s] \in Seq(Items) /\ pos'[s] \in {pos[s], Top(s)}
      BY <2>1, ReadView
    <3>2. pos[s] \in 0..offset /\ Top(s) \in 0..offset
      BY <1>5, AtItems
    <3>3. pos'[s] \in 0..offset /\ offset' = offset
      BY <3>1, <3>2, <1>1 DEF fileVars
    <3>4. \E x : line' = [line EXCEPT ![s] = x]
      BY <2>1 DEF ReadLine
    <3>5. \E x : ahead' = [ahead EXCEPT ![s] = x]
      BY <2>1 DEF ReadLine
    <3>6. \E x : pos' = [pos EXCEPT ![s] = x]
      BY <2>1 DEF ReadLine
    <3>7. LineTyped'
      BY <3>1, <3>4, <1>3
    <3>8. AheadTyped'
      BY <3>1, <3>5, <1>3
    <3>9. PosTyped'
      BY <3>3, <3>6, <1>3
    <3> QED
      BY <3>7, <3>8, <3>9
  <2>2. CASE ~ReadLine(s)
    <3>1. line' = line \/ line' = [line EXCEPT ![s] = <<>>]
      BY <2>2 DEF SocketStep, send_pkts, close_pktfile, Open, ReadFails, ErrorLogged,
           HandleLine, on_close, CloseFile, ForgetFile
    <3>2. ahead' = ahead \/ ahead' = [ahead EXCEPT ![s] = <<>>]
      BY <2>2 DEF SocketStep, send_pkts, close_pktfile, Open, ReadFails, ErrorLogged,
           HandleLine, on_close, CloseFile, ForgetFile
    <3>3. pos' = pos \/ pos' = [pos EXCEPT ![s] = 0]
      BY <2>2 DEF SocketStep, send_pkts, close_pktfile, Open, ReadFails, ErrorLogged,
           HandleLine, on_close, CloseFile, ForgetFile
    <3>4. offset' = offset
      BY <1>1 DEF fileVars
    <3>5. LineTyped'
      BY <3>1, <1>3, <1>4
    <3>6. AheadTyped'
      BY <3>2, <1>3, <1>4
    <3>7. PosTyped'
      BY <3>3, <3>4, <1>3, <1>5
    <3> QED
      BY <3>5, <3>6, <3>7
  <2> QED
    BY <2>1, <2>2
<1>10. HandledTyped'
  <2>1. CASE \E p : IsPacket(line[s]) /\ p = line[s][1].pkt /\ Handles(s, p)
    <3>1. PICK p : IsPacket(line[s]) /\ p = line[s][1].pkt /\ Handles(s, p)
      BY <2>1
    <3>2. line[s] \in Seq(Items) /\ line[s] # <<>>
      BY <3>1, <1>3 DEF IsPacket
    <3>3. line[s][1] \in Items
      BY <3>2
    <3>4. p \in Nat
      BY <3>1, <3>3 DEF Items
    <3> DEFINE r == [pkt |-> p, whole |-> Whole(p, line[s])]
    <3>5. Whole(p, line[s]) \in BOOLEAN
      BY DEF Whole
    <3>6. r \in Told
      BY <3>4, <3>5 DEF Told
    <3>7. handled' = [handled EXCEPT ![s] = Append(@, r)]
      BY <3>1 DEF Handles
    <3> HIDE DEF r
    <3>8. Append(handled[s], r) \in Seq(Told)
      BY <3>6, <1>3
    <3> QED
      BY <3>7, <3>8, <1>3
  <2>2. CASE handled' = handled \/ handled' = [handled EXCEPT ![s] = <<>>]
    BY <2>2, <1>3, <1>4
  <2>3. \/ \E p : IsPacket(line[s]) /\ p = line[s][1].pkt /\ Handles(s, p)
        \/ handled' = handled \/ handled' = [handled EXCEPT ![s] = <<>>]
    BY DEF SocketStep, send_pkts, close_pktfile, Open, ReadLine, ReadFails, ErrorLogged,
           HandleLine, TooLate, Ignores, on_close, CloseFile, ForgetFile
  <2> QED
    BY <2>1, <2>2, <2>3
<1>11. TornTyped'
  <2>1. CASE ReadLine(s)
    <3>1. line'[s] \in Seq(Items)
          /\ (torn' = torn \/
              torn' = [torn EXCEPT ![s] = @ \cup {i.pkt : i \in ToSet(line'[s])}])
      BY <2>1, ReadView
    <3>2. \A i \in ToSet(line'[s]) : i \in Items
      BY <3>1 DEF ToSet
    <3>3. {i.pkt : i \in ToSet(line'[s])} \in SUBSET Nat
      BY <3>2 DEF Items
    <3>4. torn \in [Sockets -> SUBSET Nat]
      BY <1>3
    <3> DEFINE T == {i.pkt : i \in ToSet(line'[s])}
    <3>5. T \in SUBSET Nat /\ (torn' = torn \/ torn' = [torn EXCEPT ![s] = @ \cup T])
      BY <3>1, <3>3
    <3> HIDE DEF T
    <3>6. torn[s] \cup T \in SUBSET Nat
      BY <3>4, <3>5
    <3> QED
      BY <3>4, <3>5, <3>6
  <2>2. CASE ~ReadLine(s)
    <3>1. torn' = torn \/ torn' = [torn EXCEPT ![s] = {}]
      BY <2>2 DEF SocketStep, send_pkts, close_pktfile, Open, ReadFails, ErrorLogged,
           HandleLine, on_close, CloseFile, ForgetFile, history
    <3> QED
      BY <3>1, <1>3
  <2> QED
    BY <2>1, <2>2
<1> HIDE DEF WsTyped, FileTyped, TaskTyped, PosTyped, AheadTyped, LineTyped, HandledTyped,
             TornTyped
<1>12. TypeOK'
  <2>1. WsTyped' /\ FileTyped' /\ TaskTyped' /\ PosTyped'
    BY <1>7, <1>8, <1>9
  <2> QED
    BY <2>1, <1>1 DEF Typed, TypeOK, WsTyped, FileTyped, TaskTyped, PosTyped, threadVars,
                      fileVars
<1>13. AheadTyped' /\ LineTyped' /\ HandledTyped' /\ TornTyped'
  BY <1>9, <1>10, <1>11
<1> QED
  BY <1>1, <1>2, <1>12, <1>13 DEF Typed, AheadTyped, LineTyped, HandledTyped, TornTyped,
                                  threadVars, fileVars

\* A step of a socket keeps what it has between lines.
LEMMA SocketKeepsOK ==
  ASSUME Typed, NEW s \in Sockets, SocketOK(s), SocketStep(s)
  PROVE  SocketOK(s)'
<1>1. /\ s \in DOMAIN ws /\ s \in DOMAIN task /\ s \in DOMAIN pos /\ s \in DOMAIN ahead
      /\ s \in DOMAIN line /\ s \in DOMAIN handled
  BY DEF Typed, TypeOK
<1>2. Again(s) \in {"ended", "read"}
  BY DEF Again
<1>3. CASE Open(s)
  BY <1>1, <1>3 DEF Open, SocketOK
<1>4. CASE ReadLine(s)
  <2>1. Len(ahead'[s]) <= pos'[s]
    BY <1>4, ReadView
  <2>2. ws' = ws /\ handled' = handled /\ task'[s] = "line" /\ task[s] = "read"
    BY <1>1, <1>4 DEF ReadLine
  <2> QED
    BY <2>1, <2>2 DEF SocketOK
<1>5. CASE ReadFails(s) \/ ErrorLogged(s)
  BY <1>1, <1>2, <1>5 DEF ReadFails, ErrorLogged, SocketOK
<1>6. CASE HandleLine(s)
  <2>1. /\ task[s] = "line" /\ line'[s] = <<>> /\ ws' = ws /\ pos' = pos /\ ahead' = ahead
    BY <1>1, <1>6 DEF HandleLine
  <2>2. task'[s] # "line"
    BY <1>1, <1>2, <1>6 DEF HandleLine, Handles, TooLate, Ignores
  <2>3. handled' = handled \/ ws[s] = "open"
    BY <1>6 DEF HandleLine, Handles, TooLate, Ignores
  <2> QED
    BY <2>1, <2>2, <2>3 DEF SocketOK
<1>7. CASE on_close(s)
  BY <1>1, <1>7 DEF on_close, SocketOK
<1>8. CASE CloseFile(s)
  <2>1. /\ ws' = ws /\ ws[s] = "closed" /\ pos'[s] = 0 /\ ahead'[s] = <<>> /\ task' = task
        /\ line' = line /\ handled' = handled
    BY <1>1, <1>8 DEF CloseFile
  <2>2. Len(ahead'[s]) <= pos'[s]
    BY <2>1
  <2> QED
    BY <2>1, <2>2 DEF SocketOK
<1>9. CASE ForgetFile(s)
  BY <1>9 DEF ForgetFile, SocketOK
<1> QED
  BY <1>3, <1>4, <1>5, <1>6, <1>7, <1>8, <1>9 DEF SocketStep, send_pkts, close_pktfile

\* A socket for which nothing was read, handed on or written keeps its invariant.
LEMMA Stays ==
  ASSUME Typed, BufferOK, NEW s \in Sockets, SocketInv(s), SocketOK(s)',
         UNCHANGED <<threadVars, fileVars, end, dangling, cut, emptied>>,
         pos'[s] = pos[s], ahead'[s] = ahead[s], line'[s] = line[s],
         handled'[s] = handled[s], torn'[s] = torn[s],
         Live(s)' => Live(s), task[s] = "line" => task'[s] = "line"
  PROVE  SocketInv(s)'
<1> SUFFICES ASSUME Live(s)'
             PROVE  InOrder(s)' /\ (Between => Clean(s))' /\ Intact(s)'
  BY DEF SocketInv
<1>1. InOrder(s) /\ (Between => Clean(s)) /\ Intact(s) /\ SocketOK(s)
  BY DEF SocketInv
<1>2. /\ printed' = printed /\ thread' = thread /\ length' = length /\ buffer' = buffer
      /\ content' = content /\ offset' = offset /\ end' = end /\ dangling' = dangling
      /\ cut' = cut /\ emptied' = emptied
  BY DEF threadVars, fileVars
<1>3. Pkt' = Pkt /\ LineNo' = LineNo
  BY <1>2 DEF Pkt, LineNo
<1>4. \A p : Begun(p)' <=> Begun(p)
  BY <1>3 DEF Begun
<1>5. /\ Base(s)' = Base(s) /\ Ahead(s)' = Ahead(s) /\ Headers(s)' = Headers(s)
      /\ \A q : At(s, q)' = At(s, q)
  BY <1>2, SameView
<1>6. InOrder(s)'
  BY <1>1, <1>2, <1>4, <1>5, InOrderGrows
<1>7. (Between => Clean(s))'
  <2>1. Between' => Between
    BY <1>2 DEF Between
  <2>2. ASSUME Clean(s) PROVE Clean(s)'
    <3>1. End' = End
      BY DEF End, Item
    <3> SUFFICES ASSUME NEW o, o = offset PROVE Clean(s)'
      OBVIOUS
    <3>2. At(s, o)' = At(s, o)
      BY <1>5
    <3> QED
      BY <3>1, <3>2, <2>2, <1>2, <1>5 DEF Clean
  <2> QED
    BY <2>1, <2>2, <1>1
<1>8. Intact(s)'
  <2> SUFFICES ASSUME NEW p \in Packets, p \notin cut, p \notin torn[s], p \notin emptied[s],
                      Begun(p)
               PROVE  ToCome(s, p)' \/ Taken(s, p)'
    BY <1>2, <1>4 DEF Intact
  <2>1. p \in Nat
    BY DEF Packets
  <2>2. CASE ToCome(s, p)
    BY <2>1, <2>2, <1>2, SameComes
  <2>3. CASE Taken(s, p)
    <3>1. \A k \in 1..NLines + 2 : Piece(p, k - 1)' = Piece(p, k - 1)
      BY DEF Piece, End, Item
    <3> QED
      BY <3>1, <2>3, <1>2, <1>3, <1>5 DEF Taken
  <2> QED
    BY <2>2, <2>3, <1>1 DEF Intact
<1> QED
  BY <1>6, <1>7, <1>8

\* The steps of a socket keep its invariant.
LEMMA SocketKeeps ==
  ASSUME Typed, FileOK, BufferOK, PacketsOK, NEW s \in Sockets, SocketInv(s), SocketStep(s)
  PROVE  SocketInv(s)'
<1>1. SocketOK(s) /\ SocketOK(s)'
  BY SocketKeepsOK DEF SocketInv
<1>2. /\ s \in DOMAIN ws /\ s \in DOMAIN task /\ s \in DOMAIN pos /\ s \in DOMAIN ahead
      /\ s \in DOMAIN line /\ s \in DOMAIN handled /\ s \in DOMAIN torn
  BY DEF Typed, TypeOK
<1>3. UNCHANGED <<threadVars, fileVars, end, dangling, cut, emptied>>
  BY SocketAlone
<1>4. CASE Open(s)
  <2>1. /\ pos'[s] = pos[s] /\ ahead'[s] = ahead[s] /\ line'[s] = line[s]
        /\ handled'[s] = handled[s] /\ torn'[s] = torn[s] /\ Live(s)
    BY <1>4 DEF Open, history, Live
  <2>2. task[s] # "line"
    BY <1>1, <1>4 DEF Open, SocketOK
  <2> QED
    BY <2>1, <2>2, <1>1, <1>3, Stays
<1>5. CASE ReadFails(s) \/ ErrorLogged(s) \/ ForgetFile(s)
  <2>1. /\ pos'[s] = pos[s] /\ ahead'[s] = ahead[s] /\ line'[s] = line[s]
        /\ handled'[s] = handled[s] /\ torn'[s] = torn[s] /\ ws' = ws
        /\ (task[s] = "line" => task'[s] = "line")
    BY <1>5 DEF ReadFails, ErrorLogged, ForgetFile, history
  <2>2. Live(s)' => Live(s)
    BY <2>1 DEF Live
  <2> QED
    BY <2>1, <2>2, <1>1, <1>3, Stays
<1>6. CASE ReadLine(s)
  <2>1. Live(s)' => Live(s)
    BY <1>6 DEF ReadLine, Live
  <2> QED
    BY <2>1, <1>1, <1>6, ReadKeepsOrder, ReadClean, ReadIntact DEF SocketInv
<1>7. CASE HandleLine(s)
  <2> SUFFICES ASSUME Live(s)
               PROVE  InOrder(s)' /\ (Between => Clean(s))' /\ Intact(s)'
    BY <1>1, <1>7 DEF SocketInv, HandleLine, Live
  <2>1. InOrder(s)' /\ Intact(s)'
    BY <1>1, <1>7, HandleKeepsOrder, HandleIntact DEF SocketInv
  <2>2. /\ pos'[s] = pos[s] /\ ahead'[s] = ahead[s] /\ content' = content /\ offset' = offset
        /\ dangling' = dangling /\ thread' = thread /\ length' = length
    BY <1>3, <1>7 DEF HandleLine, threadVars, fileVars
  <2>3. (Between => Clean(s))'
    <3>1. Between' => Between
      BY <2>2 DEF Between
    <3>2. End' = End
      BY DEF End, Item
    <3>3. Base(s)' = Base(s) /\ Ahead(s)' = Ahead(s) /\ \A q : At(s, q)' = At(s, q)
      BY <2>2, SameView
    <3> SUFFICES ASSUME Between', NEW o, o = offset PROVE Clean(s)'
      OBVIOUS
    <3>4. At(s, o)' = At(s, o)
      BY <3>3
    <3>5. Clean(s)
      BY <3>1 DEF SocketInv
    <3> QED
      BY <3>2, <3>3, <3>4, <3>5, <2>2 DEF Clean
  <2> QED
    BY <2>1, <2>3
<1>8. CASE on_close(s)
  BY <1>1, <1>2, <1>8 DEF on_close, SocketInv, Live
<1>9. CASE CloseFile(s)
  BY <1>1, <1>9 DEF CloseFile, SocketInv, Live
<1> QED
  BY <1>4, <1>5, <1>6, <1>7, <1>8, <1>9 DEF SocketStep, send_pkts, close_pktfile

-----------------------------------------------------------------------------
(***************************************************************************)
(* The theorems                                                            *)
(***************************************************************************)

\* The first state satisfies the invariant: nothing was printed, written or read.
LEMMA SnifferInitInv ==
  ASSUME Init
  PROVE  SnifferInv
<1>1. /\ Pkt = 1 /\ LineNo = 0
  <2>1. NLines + 1 \in Nat /\ NLines + 1 > 1 /\ printed = 0
    BY WebsnifferAssumption DEF Init
  <2>2. 0 \div (NLines + 1) = 0 /\ 0 % (NLines + 1) = 0
    BY <2>1
  <2> QED
    BY <2>1, <2>2 DEF Pkt, LineNo
<1>2. NLines \in Nat /\ NLines > 0 /\ MaxFaults \in Nat
  BY WebsnifferAssumption
<1>3. \A p \in Nat : Begun(p) => p < 1
  BY <1>1 DEF Begun
<1>4. <<>> \in Seq(Items) /\ <<>> \in Seq(Told) /\ Len(<<>>) = 0
  OBVIOUS
<1>5. TypeOK
  <2>1. /\ printed = 0 /\ length = 0 /\ faults = 0 /\ thread = "down" /\ offset = 0
        /\ Len(content) = 0 /\ dangling = FALSE /\ cut = {}
    BY <1>4 DEF Init
  <2>2. 0 \in 0..NLines /\ 0 \in 0..MaxFaults /\ 0 \in 0..0
    BY <1>2
  <2>3. /\ ws \in [Sockets -> {"new", "open", "closed"}]
        /\ pktfile \in [Sockets -> {"none", "open", "closed"}]
        /\ task \in [Sockets -> {"none", "read", "line", "error", "ended", "dead"}]
    BY DEF Init
  <2>4. pos \in [Sockets -> 0..offset]
    BY <2>1, <2>2 DEF Init
  <2>5. /\ printed \in Nat /\ length \in 0..NLines /\ faults \in 0..MaxFaults
        /\ offset \in Nat /\ Len(content) <= offset
    BY <2>1, <2>2
  <2>6. thread \in {"down", "up"} /\ dangling \in BOOLEAN /\ cut \subseteq Packets
    BY <2>1
  <2> QED
    BY <2>3, <2>4, <2>5, <2>6 DEF TypeOK
<1>6. Typed
  BY <1>1, <1>4, <1>5 DEF Typed, Init
<1>7. FileOK /\ PacketsOK
  BY <1>1, <1>2 DEF Init, FileOK, PacketsOK
<1>8. BufferOK
  BY DEF Init, BufferOK
<1>9. ASSUME NEW s \in Sockets PROVE SocketInv(s)
  <2>1. SocketOK(s)
    BY <1>4 DEF Init, SocketOK
  <2>2. Base(s) = 0 /\ Top(s) = 0 /\ Ahead(s) = {}
    BY <1>4 DEF Init, Base, Top, Ahead
  <2>3. InOrder(s)
    BY <2>2 DEF InOrder, Headers, Init
  <2>4. Clean(s)
    BY <2>2 DEF Clean, Init
  <2>5. Intact(s)
    BY <1>3 DEF Intact, Packets
  <2> QED
    BY <2>1, <2>3, <2>4, <2>5 DEF SocketInv
<1> QED
  BY <1>6, <1>7, <1>8, <1>9 DEF SnifferInv

\* No step breaks the invariant.
LEMMA SnifferNextInv ==
  ASSUME SnifferInv, [Next]_vars
  PROVE  SnifferInv'
<1>1. /\ Typed /\ FileOK /\ BufferOK /\ PacketsOK /\ \A s \in Sockets : SocketInv(s)
  BY DEF SnifferInv
<1>2. CASE Sniffer \/ EmptyFile
  <2>1. Typed' /\ FileOK' /\ BufferOK' /\ PacketsOK'
    BY <1>1, <1>2, SnifferTyped, ThreadKeeps
  <2>2. ASSUME NEW s \in Sockets PROVE SocketInv(s)'
    <3>1. SocketOK(s) /\ SocketInv(s)
      BY <1>1 DEF SocketInv
    <3>2. /\ ws' = ws /\ task' = task /\ pos' = pos /\ ahead' = ahead /\ line' = line
          /\ handled' = handled
      BY <1>2 DEF Sniffer, HeaderLine, DataLine, OtherLine, SerialException, MissLine,
                  Connect, EmptyFile, socketVars
    <3>3. SocketOK(s)'
      BY <3>1, <3>2 DEF SocketOK
    <3> SUFFICES ASSUME Live(s)'
                 PROVE  InOrder(s)' /\ (Between => Clean(s))' /\ Intact(s)'
      BY <3>3 DEF SocketInv
    <3>4. InOrder(s) /\ (Between => Clean(s)) /\ Intact(s)
      BY <3>1, <3>2 DEF SocketInv, Live
    <3>5. InOrder(s)' /\ (Between => Clean(s))'
      BY <1>1, <1>2, <3>1, <3>4, SnifferOrder, SnifferClean
    <3>6. Intact(s)'
      BY <1>1, <1>2, <3>1, <3>4, HeaderIntact, DataIntact, OtherIntact, QuietIntact,
         EmptyIntact DEF Sniffer
    <3> QED
      BY <3>5, <3>6
  <2> QED
    BY <2>1, <2>2 DEF SnifferInv
<1>3. ASSUME NEW s \in Sockets, SocketStep(s) PROVE SnifferInv'
  <2>1. UNCHANGED <<threadVars, fileVars, end, dangling, cut, emptied>>
    BY <1>1, <1>3, SocketAlone
  <2>2. Typed' /\ SocketInv(s)'
    BY <1>1, <1>3, SocketTyped, SocketKeeps DEF SocketInv
  <2>3. FileOK' /\ BufferOK' /\ PacketsOK'
    <3>1. /\ printed' = printed /\ thread' = thread /\ length' = length /\ buffer' = buffer
          /\ content' = content /\ offset' = offset /\ end' = end /\ dangling' = dangling
          /\ cut' = cut
      BY <2>1 DEF threadVars, fileVars
    <3>2. Pkt' = Pkt /\ LineNo' = LineNo /\ Item("header", Pkt)' = Item("header", Pkt)
      BY <3>1 DEF Pkt, LineNo, Item
    <3>3. \A p : Begun(p)' <=> Begun(p)
      BY <3>2 DEF Begun
    <3>4. FileOK' /\ PacketsOK'
      BY <3>1, <3>2, <1>1 DEF FileOK, PacketsOK
    <3>5. \A i \in DOMAIN buffer : Begun(buffer[i].pkt)'
      <4> SUFFICES ASSUME NEW i \in DOMAIN buffer, NEW x, x = buffer[i].pkt PROVE Begun(x)'
        BY <3>1
      <4> QED
        BY <3>3, <1>1 DEF BufferOK
    <3>6. BufferOK'
      BY <3>1, <3>2, <3>5, <1>1 DEF BufferOK
    <3> QED
      BY <3>4, <3>6
  <2>4. ASSUME NEW t \in Sockets, t # s PROVE SocketInv(t)'
    <3>1. /\ ws'[t] = ws[t] /\ task'[t] = task[t] /\ pos'[t] = pos[t]
          /\ ahead'[t] = ahead[t] /\ line'[t] = line[t] /\ handled'[t] = handled[t]
          /\ torn'[t] = torn[t]
      BY <1>1, <1>3, <2>4, SocketAlone
    <3>2. SocketOK(t)' /\ (Live(t)' => Live(t))
      BY <3>1, <1>1 DEF SocketInv, SocketOK, Live
    <3> QED
      BY <3>1, <3>2, <2>1, <1>1, Stays
  <2> QED
    BY <2>2, <2>3, <2>4 DEF SnifferInv
<1>4. CASE UNCHANGED vars
  <2>1. UNCHANGED <<threadVars, fileVars, socketVars, end, dangling, cut, torn, emptied, faults>>
    BY <1>4 DEF vars, history
  <2>2. Pkt' = Pkt /\ LineNo' = LineNo /\ Item("header", Pkt)' = Item("header", Pkt)
    BY <2>1 DEF Pkt, LineNo, Item, threadVars
  <2>3. \A p : Begun(p)' <=> Begun(p)
    BY <2>2 DEF Begun
  <2>4. TypeOK'
    BY <2>1, <1>1 DEF Typed, TypeOK, threadVars, fileVars, socketVars
  <2>5. Typed'
    BY <2>1, <2>2, <2>4, <1>1 DEF Typed, threadVars, fileVars, socketVars
  <2>6. FileOK' /\ PacketsOK'
    BY <2>1, <2>2, <1>1 DEF FileOK, PacketsOK, threadVars, fileVars
  <2>7. \A i \in DOMAIN buffer : Begun(buffer[i].pkt)'
    <3> SUFFICES ASSUME NEW i \in DOMAIN buffer, NEW x, x = buffer[i].pkt PROVE Begun(x)'
      BY <2>1 DEF threadVars
    <3> QED
      BY <2>3, <1>1 DEF BufferOK
  <2>8. BufferOK'
    BY <2>1, <2>2, <2>7, <1>1 DEF BufferOK, threadVars
  <2>9. ASSUME NEW t \in Sockets PROVE SocketInv(t)'
    <3>1. /\ ws' = ws /\ task' = task /\ pos' = pos /\ ahead' = ahead /\ line' = line
          /\ handled' = handled /\ torn' = torn
      BY <2>1 DEF socketVars
    <3>2. SocketOK(t)' /\ (Live(t)' => Live(t))
      BY <3>1, <1>1 DEF SocketInv, SocketOK, Live
    <3> QED
      BY <3>1, <3>2, <2>1, <1>1, Stays
  <2> QED
    BY <2>5, <2>6, <2>8, <2>9 DEF SnifferInv
<1> QED
  BY <1>2, <1>3, <1>4 DEF Next, SocketStep

\* The invariant holds throughout, for any number of web sockets, packets, lines of
\* a dump, faults of the serial port and uses of the button.
THEOREM SnifferInvariance == Spec => []SnifferInv
<1>1. Init => SnifferInv
  BY SnifferInitInv
<1>2. SnifferInv /\ [Next]_vars => SnifferInv'
  BY SnifferNextInv
<1> QED
  BY <1>1, <1>2, PTL DEF Spec

\* A browser is told of the packets in the order in which they were heard, and of
\* none twice: what sniffer.py writes and send_pkts reads never goes back.
THEOREM OrderOnce == Spec => []InOrderOnce
<1>1. SnifferInv => InOrderOnce
  <2> SUFFICES ASSUME SnifferInv PROVE InOrderOnce
    OBVIOUS
  <2>1. TypeOK
    BY DEF SnifferInv, Typed
  <2>2. ASSUME NEW s \in Sockets, NEW i \in DOMAIN handled[s], NEW j \in DOMAIN handled[s],
               i < j
        PROVE  handled[s][i].pkt < handled[s][j].pkt
    <3>1. SocketInv(s)
      BY DEF SnifferInv
    <3>2. CASE Live(s)
      BY <3>1, <3>2, <2>2 DEF SocketInv, InOrder
    <3>3. CASE ~Live(s)
      <4>1. handled[s] = <<>>
        BY <3>1, <3>3 DEF SocketInv, SocketOK, Live
      <4> QED
        BY <4>1
    <3> QED
      BY <3>2, <3>3
  <2> QED
    BY <2>1, <2>2 DEF InOrderOnce
<1> QED
  BY <1>1, SnifferInvariance, PTL

\* No packet is lost by the way it is written and read alone: one that is in the
\* file, and that the task has read past, was handed on whole, unless the task met
\* the end of the file in it, the port failed in it or the line before, or the file
\* was emptied too early.
THEOREM NoneMissed == Spec => []MissedForAReason
<1>1. SnifferInv => MissedForAReason
  <2> SUFFICES ASSUME SnifferInv, NEW s \in Sockets,
                      NEW p \in Packets \ (cut \cup torn[s] \cup emptied[s]),
                      ws[s] = "open", task[s] = "read", Past(s, p)
               PROVE  [pkt |-> p, whole |-> TRUE] \in ToSet(handled[s])
    BY DEF MissedForAReason
  <2>1. Typed /\ PacketsOK /\ SocketOK(s) /\ Intact(s)
    BY DEF SnifferInv, SocketInv, Live
  <2>2. end[p] > 0 /\ end[p] <= Base(s) /\ end[p] \in Nat
    BY <2>1 DEF Past, Base, Typed
  <2>3. p < Pkt
    BY <2>1, <2>2 DEF PacketsOK
  <2>4. ~ToCome(s, p)
    <3>1. NLines \in Nat /\ Base(s) \in Nat
      BY <2>1, AtItems, WebsnifferAssumption
    <3>2. Start(p) = end[p] - NLines - 1
      BY <2>3 DEF Start
    <3>3. ~(Base(s) < Start(p))
      BY <3>1, <3>2, <2>2
    <3> QED
      BY <3>3 DEF ToCome
  <2>5. Taken(s, p)
    BY <2>1, <2>3, <2>4 DEF Intact, Begun
  <2> QED
    BY <2>5 DEF Taken
<1> QED
  BY <1>1, SnifferInvariance, PTL

-----------------------------------------------------------------------------
(***************************************************************************)
(* The reassembly, for any number of datagrams, fragments and reuses of a  *)
(* tag and for any MaxAge: its three properties are not inductive, they    *)
(* rest on the times the timers left behind can still have.                *)
(***************************************************************************)

\* Each timer is that of a fragment heard.
TimersOfFragments(k) == \A t \in Timers(k) : MaxAge - t \in heard[k]

\* Nothing is left of a datagram that was sent.
SentIsGone(k) == sent[k] => ~Entry(k)

\* What is MaxAge old before the generation's first fragment is, is told.
EchoesTold(k) ==
  got[k] # {} /\ first[k] < MaxAge /\ MaxAge \in heard[k] => echoed[k]

\* What arrived in time is still there, or the datagram was complete.
InTimeIsKept(k) ==
  fresh[k] /\ ~echoed[k] /\ ~whole[k] /\ first[k] < MaxAge =>
    \A o \in got[k] : fragments[k][o] = gen[k]

\* The three properties, for one key.
Expires(k) == Entry(k) => \E t \in Timers(k) : t + age[k] <= MaxAge
Unmixed(k) == fresh[k] => \A o \in Offset : fragments[k][o] \in {0, gen[k]}
WholeInTime(k) == fresh[k] /\ ~echoed[k] /\ got[k] = Offset => whole[k]

KeyInv(k) ==
  /\ TimersOfFragments(k) /\ SentIsGone(k)
  /\ EchoesTold(k) /\ InTimeIsKept(k)
  /\ Expires(k) /\ Unmixed(k) /\ WholeInTime(k)

ReassemblyInv == ReassemblyTypeOK /\ \A k \in Keys : KeyInv(k)

\* Everything KeyInv(k) speaks of.
keyState(k) == <<fragments[k], tracked[k], sleeping[k], gen[k], heard[k], age[k],
                 first[k], got[k], whole[k], sent[k], fresh[k], echoed[k]>>

\* A step keeps the invariant of the keys it leaves alone.
LEMMA OtherKeys ==
  ASSUME NEW k \in Keys, KeyInv(k), keyState(k)' = keyState(k)
  PROVE  KeyInv(k)'
BY DEF KeyInv, keyState, TimersOfFragments, SentIsGone, EchoesTold, InTimeIsKept,
       Expires, Unmixed, WholeInTime, Timers, Entry

\* The timers of a key are times up to MaxAge.
LEMMA TimersType ==
  ASSUME ReassemblyTypeOK, NEW k \in Keys
  PROVE  Timers(k) \subseteq 0..MaxAge
BY ReassemblyAssumption DEF ReassemblyTypeOK, Timers, NoTimer

\* An empty buffer has no timers.
LEMMA ReassemblyInitInv == ReassemblyInit => ReassemblyInv
<1> SUFFICES ASSUME ReassemblyInit PROVE ReassemblyInv
  OBVIOUS
<1> USE ReassemblyAssumption DEF ReassemblyInit
<1>1. ReassemblyTypeOK
  BY DEF ReassemblyTypeOK, Empty, Offset
<1>2. ASSUME NEW k \in Keys PROVE KeyInv(k)
  <2>1. Timers(k) = {} /\ ~Entry(k)
    BY DEF Timers, Entry
  <2>2. 0 \in Offset
    BY DEF Offset
  <2>3. Unmixed(k) /\ WholeInTime(k)
    BY <2>2 DEF Unmixed, WholeInTime, Empty
  <2> QED
    BY <2>1, <2>3 DEF KeyInv, TimersOfFragments, SentIsGone, EchoesTold, InTimeIsKept,
                      Expires
<1> QED
  BY <1>1, <1>2 DEF ReassemblyInv

\* A fragment arrives: the timers there were sleep on, and the new one has the
\* whole of MaxAge.  If that completes the datagram it was found complete.
LEMMA ArriveKeepsInv ==
  ASSUME ReassemblyInv, NEW k \in Keys, NEW o \in Offset, Arrive(k, o)
  PROVE  ReassemblyInv'
<1> DEFINE frags == Added(k, o)
<1> USE ReassemblyAssumption
<1>1. ReassemblyTypeOK /\ KeyInv(k)
  BY DEF ReassemblyInv
<1>2. frags \in [Offset -> 0..MaxGen]
  BY <1>1 DEF ReassemblyTypeOK, Added
<1>3. /\ gen[k] # 0
      /\ fresh[k] => frags[o] = gen[k] /\ \A p \in Offset : frags[p] \in {0, gen[k]}
      /\ \A p \in Offset : fragments[k][p] = gen[k] => frags[p] = gen[k]
  BY <1>1 DEF ReassemblyTypeOK, KeyInv, Unmixed, Added
<1>4. \/ fragments'[k] = Empty /\ tracked'[k] = NoTimer /\ Complete(frags)
      \/ fragments'[k] = frags /\ tracked'[k] = MaxAge /\ sent'[k] = FALSE
  BY <1>1 DEF Arrive, Deliver, Keep, remove, NewTimer, ReassemblyTypeOK
<1>5. sleeping'[k] = Timers(k) /\ Timers(k) \subseteq 0..MaxAge
  BY <1>1, TimersType DEF Arrive, Untrack, ReassemblyTypeOK
<1>6. Timers(k)' \subseteq Timers(k) \cup {MaxAge}
  BY <1>4, <1>5 DEF Timers
<1>7. fresh[k] /\ Complete(frags) => \A p \in Offset : frags[p] = gen[k]
  BY <1>3 DEF Complete
<1>8. /\ heard'[k] = heard[k] \cup {0} /\ gen'[k] = gen[k] /\ fresh'[k] = fresh[k]
      /\ age'[k] = (IF Entry(k) THEN age[k] ELSE 0)
      /\ first'[k] = (IF got[k] = {} THEN 0 ELSE first[k])
      /\ got'[k] = (IF got[k] = {} \/ first[k] < MaxAge THEN got[k] \cup {o}
                                                         ELSE got[k])
  BY <1>1 DEF Arrive, ReassemblyTypeOK
<1>16. /\ whole[k] => whole'[k]
       /\ (\A p \in Offset : frags[p] = gen[k]) => whole'[k]
       /\ echoed'[k] = (IF got[k] = {} THEN MaxAge \in heard[k] ELSE echoed[k])
  <2>1. /\ whole'[k] = (whole[k] \/ \A p \in Offset : frags[p] = gen[k])
        /\ echoed'[k] = (IF got[k] = {} THEN MaxAge \in heard[k] ELSE echoed[k])
    BY <1>1, Zenon DEF Arrive, ReassemblyTypeOK
  <2> QED
    BY <2>1, Zenon
<1>9. got[k] \subseteq Offset /\ first[k] \in 0..MaxAge /\ age[k] \in Nat
  BY <1>1 DEF ReassemblyTypeOK
<1>10. ReassemblyTypeOK'
  <2>1. Empty \in [Offset -> 0..MaxGen]
    BY DEF Empty
  <2>2. fragments' \in [Keys -> [Offset -> 0..MaxGen]]
        /\ tracked' \in [Keys -> 0..MaxAge \cup {NoTimer}]
    <3>1. CASE remove(k)
      BY <1>1, <2>1, <3>1 DEF remove, ReassemblyTypeOK
    <3>2. CASE /\ fragments' = [fragments EXCEPT ![k] = frags]
               /\ tracked' = [tracked EXCEPT ![k] = MaxAge]
      <4> HIDE DEF frags
      <4> QED
        BY <1>1, <1>2, <3>2 DEF ReassemblyTypeOK
    <3> QED
      BY <3>1, <3>2 DEF Arrive, Deliver, Keep, NewTimer
  <2>3. sleeping' \in [Keys -> SUBSET (0..MaxAge)]
    BY <1>1, <1>5 DEF Arrive, Untrack, ReassemblyTypeOK
  <2>4. /\ gen' \in [Keys -> 1..MaxGen] /\ heard' \in [Keys -> SUBSET (0..MaxAge)]
        /\ age' \in [Keys -> 0..MaxAge + 1] /\ first' \in [Keys -> 0..MaxAge]
    BY <1>1 DEF Arrive, ReassemblyTypeOK
  <2>5. got' \in [Keys -> SUBSET Offset]
    BY <1>1 DEF Arrive, ReassemblyTypeOK
  <2>6. {whole', fresh', echoed'} \subseteq [Keys -> BOOLEAN]
    <3> DEFINE w == whole[k] \/ \A p \in Offset : frags[p] = gen[k]
               e == IF got[k] = {} THEN MaxAge \in heard[k] ELSE echoed[k]
    <3>1. /\ fresh' = fresh /\ whole' = [whole EXCEPT ![k] = w]
          /\ echoed' = [echoed EXCEPT ![k] = e]
      BY Zenon DEF Arrive
    <3>2. {whole, fresh, echoed} \subseteq [Keys -> BOOLEAN]
      BY <1>1 DEF ReassemblyTypeOK
    <3>3. w \in BOOLEAN
      BY Zenon
    <3>4. e \in BOOLEAN
      <4>1. echoed[k] \in BOOLEAN
        BY <3>2
      <4>2. (MaxAge \in heard[k]) \in BOOLEAN
        OBVIOUS
      <4> QED
        BY <4>1, <4>2
    <3> HIDE DEF w, e
    <3> QED
      BY <3>1, <3>2, <3>3, <3>4
  <2>7. sent' \in [Keys -> BOOLEAN]
    BY <1>1 DEF Arrive, Deliver, Keep, ReassemblyTypeOK
  <2> QED
    BY <2>2, <2>3, <2>4, <2>5, <2>6, <2>7 DEF ReassemblyTypeOK
<1>11. TimersOfFragments(k)' /\ SentIsGone(k)' /\ EchoesTold(k)'
  <2>1. TimersOfFragments(k)'
    BY <1>1, <1>5, <1>6, <1>8 DEF KeyInv, TimersOfFragments
  <2>2. SentIsGone(k)'
    BY <1>4 DEF SentIsGone, Entry
  <2>3. EchoesTold(k)'
    BY <1>1, <1>8, <1>9, <1>16 DEF KeyInv, EchoesTold
  <2> QED
    BY <2>1, <2>2, <2>3
<1>12. InTimeIsKept(k)' /\ WholeInTime(k)'
  <2>1. ASSUME fresh[k], ~echoed'[k], ~whole'[k], first'[k] < MaxAge
        PROVE  \A p \in got'[k] : frags[p] = gen[k]
    <3>1. ~whole[k]
      BY <1>16, <2>1
    <3>2. \A p \in got[k] : frags[p] = gen[k]
      BY <1>1, <1>3, <1>8, <1>9, <1>16, <2>1, <3>1 DEF KeyInv, InTimeIsKept
    <3> QED
      BY <1>3, <1>8, <2>1, <3>2
  <2>2. fresh[k] /\ ~whole'[k] => fragments'[k] = frags
    BY <1>4, <1>7, <1>16
  <2>3. InTimeIsKept(k)'
    BY <1>8, <2>1, <2>2 DEF InTimeIsKept
  <2>4. ASSUME fresh[k], ~echoed'[k], got'[k] = Offset, ~whole'[k] PROVE FALSE
    <3>1. CASE got[k] = {} \/ first[k] < MaxAge
      <4>1. first'[k] < MaxAge
        BY <1>8, <3>1
      <4> QED
        BY <1>16, <2>1, <2>4, <4>1
    <3>2. CASE ~(got[k] = {} \/ first[k] < MaxAge)
      BY <1>1, <1>8, <1>16, <2>4, <3>2 DEF KeyInv, WholeInTime
    <3> QED
      BY <3>1, <3>2
  <2> QED
    BY <1>8, <2>3, <2>4 DEF WholeInTime, Offset
<1>13. Expires(k)'
  <2>1. CASE fragments'[k] = Empty
    BY <2>1 DEF Expires, Entry
  <2>2. CASE tracked'[k] = MaxAge
    <3>1. Timers(k)' = Timers(k) \cup {MaxAge}
      BY <1>5, <2>2 DEF Timers, NoTimer
    <3> QED
      BY <1>1, <1>8, <3>1 DEF KeyInv, Expires
  <2> QED
    BY <1>4, <2>1, <2>2
<1>14. Unmixed(k)'
  BY <1>3, <1>4, <1>8 DEF Unmixed, Empty
<1>15. ASSUME NEW j \in Keys, j # k PROVE KeyInv(j)'
  <2>1. keyState(j)' = keyState(j)
    BY <1>1, <1>15 DEF Arrive, Deliver, Keep, remove, keyState, ReassemblyTypeOK
  <2> QED
    BY <2>1, OtherKeys DEF ReassemblyInv
<1> QED
  BY <1>10, <1>11, <1>12, <1>13, <1>14, <1>15 DEF ReassemblyInv, KeyInv

\* A timer expires, no earlier than MaxAge after the first fragment, or it is that
\* of an earlier use.
LEMMA ExpireKeepsInv ==
  ASSUME ReassemblyInv, NEW k \in Keys, Expire(k)
  PROVE  ReassemblyInv'
<1> USE ReassemblyAssumption
<1>1. ReassemblyTypeOK /\ KeyInv(k)
  BY DEF ReassemblyInv
<1>2. /\ fragments'[k] = Empty /\ tracked'[k] = NoTimer
      /\ sleeping'[k] = Timers(k) \ {0}
  BY <1>1 DEF Expire, DropEntry, ReassemblyTypeOK
<1>3. Timers(k)' \subseteq Timers(k) /\ ~Entry(k)'
  BY <1>2 DEF Timers, Entry
<1>4. Timers(k) \subseteq 0..MaxAge
  BY <1>1, TimersType
<1>5. ReassemblyTypeOK'
  <2>1. Empty \in [Offset -> 0..MaxGen]
    BY DEF Empty
  <2> QED
    BY <1>1, <1>4, <2>1 DEF Expire, DropEntry, ReassemblyTypeOK
<1>6. /\ gen' = gen /\ heard' = heard /\ age' = age /\ first' = first
      /\ got' = got /\ whole' = whole /\ sent' = sent /\ fresh' = fresh
      /\ echoed' = echoed
  BY DEF Expire
<1>7. first[k] < MaxAge /\ got[k] # {} => echoed[k]
  <2>1. MaxAge \in heard[k]
    BY <1>1 DEF Expire, Due, KeyInv, TimersOfFragments
  <2> QED
    BY <1>1, <2>1 DEF KeyInv, EchoesTold
<1>8. KeyInv(k)'
  <2>1. TimersOfFragments(k)' /\ SentIsGone(k)' /\ EchoesTold(k)'
    BY <1>1, <1>3, <1>6
    DEF KeyInv, TimersOfFragments, SentIsGone, EchoesTold
  <2>2. InTimeIsKept(k)' /\ Expires(k)'
    BY <1>1, <1>3, <1>6, <1>7 DEF InTimeIsKept, Expires, ReassemblyTypeOK
  <2>3. Unmixed(k)' /\ WholeInTime(k)'
    BY <1>1, <1>2, <1>6 DEF KeyInv, Unmixed, WholeInTime, Empty
  <2> QED
    BY <2>1, <2>2, <2>3 DEF KeyInv
<1>9. ASSUME NEW j \in Keys, j # k PROVE KeyInv(j)'
  <2>1. keyState(j)' = keyState(j)
    BY <1>1, <1>9 DEF Expire, DropEntry, keyState, ReassemblyTypeOK
  <2> QED
    BY <2>1, OtherKeys DEF ReassemblyInv
<1> QED
  BY <1>5, <1>8, <1>9 DEF ReassemblyInv

\* A tag is used again.  When it was silent for MaxAge no timer and so no entry can
\* be left.
LEMMA NextGenerationKeepsInv ==
  ASSUME ReassemblyInv, NEW k \in Keys, NextGeneration(k)
  PROVE  ReassemblyInv'
<1> USE ReassemblyAssumption
<1>1. ReassemblyTypeOK /\ KeyInv(k)
  BY DEF ReassemblyInv
<1>2. heard[k] = {} => Timers(k) = {}
  BY <1>1 DEF KeyInv, TimersOfFragments
<1>3. sent[k] \/ heard[k] = {} => ~Entry(k)
  BY <1>1, <1>2 DEF KeyInv, Expires, SentIsGone
<1>4. /\ fragments' = fragments /\ tracked' = tracked /\ sleeping' = sleeping
      /\ heard' = heard /\ age' = age /\ sent' = sent
      /\ got'[k] = {} /\ 0 \in Offset
  BY <1>1 DEF NextGeneration, ReassemblyTypeOK, Offset
<1>5. fresh'[k] = (sent[k] \/ heard[k] = {})
  BY <1>1, Zenon DEF NextGeneration, ReassemblyTypeOK
<1>6. ReassemblyTypeOK'
  <2>1. /\ gen' \in [Keys -> 1..MaxGen] /\ got' \in [Keys -> SUBSET Offset]
    BY <1>1 DEF NextGeneration, ReassemblyTypeOK
  <2>2. {whole', fresh', echoed'} \subseteq [Keys -> BOOLEAN]
    BY <1>1, Zenon DEF NextGeneration, ReassemblyTypeOK
  <2> QED
    BY <1>1, <2>1, <2>2 DEF NextGeneration, ReassemblyTypeOK
<1>7. Unmixed(k)'
  <2>1. fresh'[k] => ~Entry(k)
    BY <1>3, <1>5, Zenon
  <2> QED
    BY <1>4, <2>1 DEF Unmixed, Entry, Empty
<1>8. KeyInv(k)'
  <2>1. TimersOfFragments(k)' /\ SentIsGone(k)' /\ Expires(k)'
    BY <1>1, <1>4 DEF KeyInv, TimersOfFragments, SentIsGone, Expires, Timers, Entry
  <2> QED
    BY <1>4, <1>7, <2>1 DEF KeyInv, EchoesTold, InTimeIsKept, WholeInTime
<1>9. ASSUME NEW j \in Keys, j # k PROVE KeyInv(j)'
  <2>1. keyState(j)' = keyState(j)
    BY <1>1, <1>9 DEF NextGeneration, keyState, ReassemblyTypeOK
  <2> QED
    BY <2>1, OtherKeys DEF ReassemblyInv
<1> QED
  BY <1>6, <1>8, <1>9 DEF ReassemblyInv

\* Time passes for all keys; no timer is due.
LEMMA TickKeepsInv == ReassemblyInv /\ Tick => ReassemblyInv'
<1> SUFFICES ASSUME ReassemblyInv, Tick PROVE ReassemblyInv'
  OBVIOUS
<1> USE ReassemblyAssumption
<1>1. ReassemblyTypeOK
  BY DEF ReassemblyInv
<1>2. ASSUME NEW k \in Keys
      PROVE  /\ Timers(k) \subseteq 1..MaxAge
             /\ Timers(k)' = {t - 1 : t \in Timers(k)}
  <2>1. Timers(k) \subseteq 1..MaxAge
    BY <1>1, TimersType DEF Tick, Due
  <2>2. sleeping'[k] = {t - 1 : t \in sleeping[k]}
        /\ tracked'[k] = IF tracked[k] = NoTimer THEN NoTimer ELSE tracked[k] - 1
    BY DEF Tick
  <2>3. sleeping[k] \subseteq Timers(k) /\ tracked[k] \in 0..MaxAge \cup {NoTimer}
    BY <1>1 DEF Timers, ReassemblyTypeOK
  <2>4. CASE tracked[k] = NoTimer
    <3>1. Timers(k) = sleeping[k] /\ Timers(k)' = sleeping'[k]
      BY <2>2, <2>4 DEF Timers
    <3> QED
      BY <2>1, <2>2, <3>1
  <2>5. CASE tracked[k] # NoTimer
    <3>1. Timers(k) = sleeping[k] \cup {tracked[k]}
      BY <2>5 DEF Timers
    <3>2. Timers(k)' = sleeping'[k] \cup {tracked[k] - 1}
      BY <2>1, <2>2, <2>3, <2>5, <3>1 DEF Timers, NoTimer
    <3> QED
      BY <2>1, <2>2, <3>1, <3>2
  <2> QED
    BY <2>1, <2>4, <2>5
<1>3. ASSUME NEW k \in Keys
      PROVE  /\ heard'[k] = {a + 1 : a \in heard[k] \ {MaxAge}}
             /\ heard[k] \subseteq 0..MaxAge
             /\ age'[k] \in {age[k], age[k] + 1}
             /\ first'[k] = (IF first[k] < MaxAge THEN first[k] + 1 ELSE first[k])
             /\ age[k] \in Nat /\ first[k] \in 0..MaxAge
  BY <1>1 DEF Tick, UpTo, ReassemblyTypeOK
<1>4. /\ fragments' = fragments /\ gen' = gen /\ got' = got /\ whole' = whole
      /\ sent' = sent /\ fresh' = fresh
  BY DEF Tick
<1>7. ASSUME NEW k \in Keys
      PROVE  (echoed[k] => echoed'[k]) /\ (Echo(k) => echoed'[k])
  <2>1. echoed'[k] = (echoed[k] \/ Echo(k))
    BY Zenon DEF Tick
  <2> QED
    BY <2>1, Zenon
<1>5. ReassemblyTypeOK'
  <2>1. \A k \in Keys : sleeping'[k] \subseteq 0..MaxAge
    <3> SUFFICES ASSUME NEW k \in Keys PROVE sleeping'[k] \subseteq 0..MaxAge
      OBVIOUS
    <3>1. sleeping'[k] = {t - 1 : t \in sleeping[k]}
      BY DEF Tick
    <3>2. sleeping[k] \subseteq 1..MaxAge
      BY <1>2 DEF Timers
    <3> QED
      BY <3>1, <3>2
  <2>2. sleeping' \in [Keys -> SUBSET (0..MaxAge)]
    BY <2>1 DEF Tick
  <2>3. \A k \in Keys : tracked[k] # 0
    BY <1>2 DEF Timers, NoTimer
  <2>4. tracked' \in [Keys -> 0..MaxAge \cup {NoTimer}]
    <3>1. ASSUME NEW k \in Keys
          PROVE  (IF tracked[k] = NoTimer THEN NoTimer ELSE tracked[k] - 1)
                   \in 0..MaxAge \cup {NoTimer}
      <4>1. tracked[k] \in 0..MaxAge \cup {NoTimer} /\ tracked[k] # 0
        BY <1>1, <2>3 DEF ReassemblyTypeOK
      <4> QED
        BY <4>1
    <3> QED
      BY <3>1 DEF Tick
  <2>5. /\ age' \in [Keys -> 0..MaxAge + 1] /\ first' \in [Keys -> 0..MaxAge]
    BY <1>1 DEF Tick, UpTo, ReassemblyTypeOK
  <2>6. heard' \in [Keys -> SUBSET (0..MaxAge)]
    <3>1. ASSUME NEW k \in Keys
          PROVE  {a + 1 : a \in heard[k] \ {MaxAge}} \subseteq 0..MaxAge
      BY <1>3
    <3> QED
      BY <3>1 DEF Tick
  <2>7. echoed' \in [Keys -> BOOLEAN]
    <3>1. ASSUME NEW k \in Keys PROVE (echoed[k] \/ Echo(k)) \in BOOLEAN
      BY Zenon
    <3> QED
      BY <3>1, Zenon DEF Tick
  <2> QED
    BY <1>1, <1>4, <2>2, <2>4, <2>5, <2>6, <2>7 DEF ReassemblyTypeOK
<1>6. ASSUME NEW k \in Keys PROVE KeyInv(k)'
  <2>1. KeyInv(k)
    BY DEF ReassemblyInv
  <2>2. TimersOfFragments(k)'
    <3> SUFFICES ASSUME NEW t \in Timers(k) PROVE MaxAge - (t - 1) \in heard'[k]
      BY <1>2 DEF TimersOfFragments
    <3>1. t \in 1..MaxAge /\ MaxAge - t \in heard[k] \ {MaxAge}
      BY <1>2, <2>1 DEF KeyInv, TimersOfFragments
    <3>2. MaxAge - (t - 1) = (MaxAge - t) + 1
      BY <3>1
    <3> QED
      BY <1>3, <3>1, <3>2
  <2>3. SentIsGone(k)' /\ EchoesTold(k)'
    <3>1. MaxAge \in heard'[k] => MaxAge - 1 \in heard[k]
      BY <1>3
    <3>2. EchoesTold(k)'
      BY <1>3, <1>4, <1>7, <3>1 DEF EchoesTold, Echo
    <3>3. SentIsGone(k)'
      BY <1>4, <2>1 DEF KeyInv, SentIsGone, Entry
    <3> QED
      BY <3>2, <3>3
  <2>4. Expires(k)'
    <3>1. SUFFICES ASSUME Entry(k)' PROVE \E t \in Timers(k)' : t + age'[k] <= MaxAge
      BY DEF Expires
    <3>2. PICK t \in Timers(k) : t + age[k] <= MaxAge
      BY <1>4, <2>1, <3>1 DEF KeyInv, Expires, Entry
    <3>3. t - 1 \in Timers(k)' /\ (t - 1) + age'[k] <= MaxAge
      BY <1>2, <1>3, <3>2
    <3> QED
      BY <3>3
  <2>5. InTimeIsKept(k)' /\ Unmixed(k)' /\ WholeInTime(k)'
    BY <1>3, <1>4, <1>7, <2>1 DEF KeyInv, InTimeIsKept, Unmixed, WholeInTime
  <2> QED
    BY <2>2, <2>3, <2>4, <2>5 DEF KeyInv
<1> QED
  BY <1>5, <1>6 DEF ReassemblyInv

\* One case for each action of ReassemblyNext.
LEMMA ReassemblyStepInv == ReassemblyInv /\ [ReassemblyNext]_reassemblyVars => ReassemblyInv'
<1> SUFFICES ASSUME ReassemblyInv, [ReassemblyNext]_reassemblyVars PROVE ReassemblyInv'
  OBVIOUS
<1>1. CASE \E k \in Keys : Expire(k)
  BY <1>1, ExpireKeepsInv
<1>2. CASE \E k \in Keys : NextGeneration(k)
  BY <1>2, NextGenerationKeepsInv
<1>3. CASE \E k \in Keys, o \in Offset : Arrive(k, o)
  BY <1>3, ArriveKeepsInv
<1>4. CASE Tick
  BY <1>4, TickKeepsInv
<1>5. CASE UNCHANGED reassemblyVars
  <2>1. \A k \in Keys : keyState(k)' = keyState(k)
    BY <1>5 DEF reassemblyVars, keyState
  <2>2. ReassemblyTypeOK'
    BY <1>5 DEF ReassemblyInv, ReassemblyTypeOK, reassemblyVars
  <2> QED
    BY <2>1, <2>2, OtherKeys DEF ReassemblyInv
<1> QED
  BY <1>1, <1>2, <1>3, <1>4, <1>5 DEF ReassemblyNext

\* The strengthened invariant holds in every state of the reassembly buffer.
THEOREM ReassemblyInvariance == ReassemblySpec => []ReassemblyInv
<1>1. ReassemblyInit => ReassemblyInv
  BY ReassemblyInitInv
<1>2. ReassemblyInv /\ [ReassemblyNext]_reassemblyVars => ReassemblyInv'
  BY ReassemblyStepInv
<1> QED
  BY <1>1, <1>2, PTL DEF ReassemblySpec

\* Every timer and every clock of the reassembly stays in its range.
THEOREM TypeCorrect == ReassemblySpec => []ReassemblyTypeOK
<1>1. ReassemblyInv => ReassemblyTypeOK
  BY DEF ReassemblyInv
<1> QED
  BY <1>1, ReassemblyInvariance, PTL

\* sixlowpan.py drops every entry in time, though it forgets all timers of a
\* datagram but the latest.
THEOREM EntriesExpire == ReassemblySpec => []EntriesExpireOnTime
<1>1. ReassemblyInv => EntriesExpireOnTime
  BY DEF ReassemblyInv, KeyInv, Expires, EntriesExpireOnTime
<1> QED
  BY <1>1, ReassemblyInvariance, PTL

\* It puts together fragments of two datagrams with one tag only when the second
\* finds remains of the first, and MaxAge after its last fragment there are none.
THEOREM NeverMixed == ReassemblySpec => []NoMixedDatagram
<1>1. ReassemblyInv => NoMixedDatagram
  BY DEF ReassemblyInv, KeyInv, Unmixed, NoMixedDatagram
<1> QED
  BY <1>1, ReassemblyInvariance, PTL

\* And a forgotten timer costs a datagram whose fragments arrive in time only when
\* it is that of an earlier use of the tag, MaxAge after its fragment to the tick.
THEOREM InTimeIsWhole == ReassemblySpec => []AllInTimeMeansWhole
<1>1. ReassemblyInv => AllInTimeMeansWhole
  BY DEF ReassemblyInv, KeyInv, WholeInTime, AllInTimeMeansWhole
<1> QED
  BY <1>1, ReassemblyInvariance, PTL

=============================================================================
