------------------------------- MODULE TimeRx -------------------------------
(***************************************************************************)
(* The receiving experiment of the stack comparison,                       *)
(* stack_comparison/time_rx/gnrc/exp.c (the sizes are those of the GNRC    *)
(* build): main puts a datagram together as 6LoWPAN fragments, raises the  *)
(* interrupt of a test device for each and waits on a semaphore until the  *)
(* stack has read it; the time from the first fragment to the datagram is  *)
(* measured by a receiver thread, through a small window of time stamps.   *)
(*                                                                         *)
(* The stack has the highest priority, then the receiver, then main.  It   *)
(* may find no room for a frame, and then never reads it, or offer too     *)
(* small a buffer.  A datagram is named by its payload size and number.    *)
(***************************************************************************)
EXTENDS Integers, FiniteSets, Sequences

CONSTANTS FrameSize,        \* IEEE802154_MAX_FRAME_SIZE (125)
          MhrLen,           \* MHR_LEN (23)
          IphcLen,          \* IPHC_LEN (6, 8 or 9)
          MaxFragments,     \* MAX_FRAGMENTS (18)
          MinPayload, MaxPayload, PayloadStep,  \* EXP_MIN_PAYLOAD (8), ... (1232, 8)
          Runs,             \* EXP_RUNS (1000)
          IdMod,            \* 2^8, the width of _id
          WindowSize        \* TIMER_WINDOW_SIZE (16)

IpUdpLen == 48              \* IPUDP_LEN: an IPv6 and a UDP header
Frag1Len == 4               \* sizeof(sixlowpan_frag_t)
FragNLen == 5               \* sizeof(sixlowpan_frag_n_t)
QueueSize == 8              \* THREAD_MSG_QUEUE_SIZE

RoundDown(n) == (n \div 8) * 8

ASSUME TimeRxAssumption ==
  /\ FrameSize \in Nat /\ MhrLen \in Nat /\ IphcLen \in Nat
  /\ FrameSize >= MhrLen + IphcLen + 16
  /\ MaxFragments \in Nat \ {0}
  /\ MinPayload \in Nat \ {0} /\ PayloadStep \in Nat \ {0}
  /\ MaxPayload \in Nat /\ MinPayload <= MaxPayload
  /\ Runs \in Nat \ {0} /\ IdMod \in Nat \ {0} /\ WindowSize \in Nat \ {0}
  /\ MaxPayload <= RoundDown(FrameSize - MhrLen - Frag1Len - IphcLen)
                     + (MaxFragments - 1) * RoundDown(FrameSize - MhrLen - FragNLen)
                            \* 1232 <= 1720: the fragments are enough

Fragment == 0..MaxFragments - 1
None == <<>>                \* no datagram

VARIABLES
  pc,               \* where main is in exp_run
  payload_size, id, \* the loops' variables
  i,                \* fragments main has raised the interrupt for
  fragments,        \* fragments of the datagram
  frag_buf,         \* per fragment: the offset in its header, the first byte of
                    \* the datagram in it, and frag_buf_len
  sync,             \* the semaphore
  _frag,            \* fragment the stack reads next
  isr,              \* the device's event waits for the stack
  timer_window,     \* for each slot the datagram it has the time of
  received,         \* bytes of the datagram the stack has put together
  udp,              \* datagrams waiting for the receiver
  dropped           \* history: the stack had no room for a frame

mainVars == <<pc, payload_size, id, i, fragments, frag_buf>>
stackVars == <<_frag, timer_window, received, dropped>>
vars == <<mainVars, sync, isr, udp, stackVars>>

Datagram == <<payload_size, id>>
Total == IpUdpLen + payload_size
Slot(d) == (d[2] % IdMod) % WindowSize

Init ==
  /\ pc = "prepare" /\ payload_size = MinPayload /\ id = 0
  /\ i = 0 /\ fragments = 0
  /\ frag_buf = [f \in Fragment |-> [hdr |-> 0, from |-> 0, len |-> 0]]
  /\ sync = 0 /\ _frag = 0 /\ isr = FALSE
  /\ timer_window = [s \in 0..WindowSize - 1 |-> None]
  /\ received = 0 /\ udp = <<>> /\ dropped = FALSE

(***************************************************************************)
(* Sizes                                                                   *)
(***************************************************************************)

Smaller(a, b) == IF a < b THEN a ELSE b

Fragmented == payload_size > FrameSize - MhrLen - IphcLen

\* What prepare_sixlowpan and reset_frag_buf set frag_buf_len to.
HeaderLen(f) == MhrLen + (CASE ~Fragmented -> IphcLen
                            [] Fragmented /\ f = 0 -> Frag1Len + IphcLen
                            [] Fragmented /\ f # 0 -> FragNLen)

\* fragn_offset: the first fragment has the headers, uncompressed, before it.
FragOffset(f) ==
  IF f = 0 THEN 0
  ELSE RoundDown(FrameSize - MhrLen - Frag1Len - IphcLen + IpUdpLen)
         + (f - 1) * RoundDown(FrameSize - MhrLen - FragNLen)

\* The offset the copying loop has come to before each fragment.
Room(f) == RoundDown(FrameSize - frag_buf[f].len)
RoomBefore[f \in 0..MaxFragments] ==
  IF f = 0 THEN 0 ELSE RoomBefore[f - 1] + Room(f - 1)
Offset(f) == Smaller(Total, IpUdpLen + RoomBefore[f])

(***************************************************************************)
(* main                                                                    *)
(***************************************************************************)

AnyPriority == TRUE         \* mutant: main does not wait for the receiver
MainRuns == ~isr /\ udp = <<>>

\* prepare_sixlowpan
Prepare ==
  /\ pc = "prepare" /\ MainRuns
  /\ pc' = "fill"
  /\ frag_buf' = IF Fragmented
                 THEN [f \in Fragment |-> [hdr |-> FragOffset(f), len |-> HeaderLen(f),
                                           from |-> frag_buf[f].from]]
                 ELSE [frag_buf EXCEPT ![0].len = HeaderLen(0)]
  /\ UNCHANGED <<payload_size, id, i, fragments, sync, isr, udp, stackVars>>

\* The datagram is copied into the fragments; those it does not need get the
\* length zero.
FillFragments ==
  LET used == {f \in Fragment : Offset(f) < Total}
  IN
  /\ fragments' = Cardinality(used)
  /\ frag_buf' = [f \in Fragment |->
       IF f \in used
       THEN [frag_buf[f] EXCEPT !.from = Offset(f),
                                !.len = @ + Offset(f + 1) - Offset(f)]
       ELSE [frag_buf[f] EXCEPT !.len = 0]]

FillFrame ==
  /\ fragments' = 1
  /\ frag_buf' = [frag_buf EXCEPT ![0].from = IpUdpLen,
                                  ![0].len = @ + payload_size]

Fill ==
  /\ pc = "fill" /\ MainRuns
  /\ IF Fragmented THEN FillFragments ELSE FillFrame
  /\ i' = 0
  /\ pc' = "raise"
  /\ UNCHANGED <<payload_size, id, sync, isr, udp, stackVars>>

Raise ==
  /\ pc = "raise" /\ MainRuns
  /\ isr' = TRUE
  /\ pc' = "wait"
  /\ UNCHANGED <<payload_size, id, i, fragments, frag_buf, sync, udp, stackVars>>

\* sema_wait
Wait ==
  /\ pc = "wait" /\ MainRuns
  /\ sync > 0 /\ sync' = sync - 1
  /\ i' = i + 1
  /\ pc' = IF i + 1 < fragments THEN "raise" ELSE "reset"
  /\ UNCHANGED <<payload_size, id, fragments, frag_buf, isr, udp, stackVars>>

KeepLengths == UNCHANGED frag_buf       \* mutant: the buffers are not reset
reset_frag_buf ==
  frag_buf' = [f \in Fragment |->
    IF Fragmented \/ f = 0 THEN [frag_buf[f] EXCEPT !.len = HeaderLen(f)]
                           ELSE frag_buf[f]]

\* The end of the inner loop, and of the outer one.  The stack never finds the
\* rest of an incomplete datagram: the next one has another tag.
Reset ==
  /\ pc = "reset" /\ MainRuns
  /\ reset_frag_buf
  /\ _frag' = 0 /\ received' = 0
  /\ \/ /\ id + 1 < Runs
        /\ id' = id + 1 /\ pc' = "fill"
        /\ UNCHANGED payload_size
     \/ /\ id + 1 = Runs
        /\ id' = 0 /\ payload_size' = payload_size + PayloadStep
        /\ pc' = IF payload_size' <= MaxPayload THEN "prepare" ELSE "done"
  /\ UNCHANGED <<i, fragments, sync, isr, udp, timer_window, dropped>>

Main == Prepare \/ Fill \/ Raise \/ Wait \/ Reset

(***************************************************************************)
(* The stack                                                               *)
(***************************************************************************)

\* _netdev_recv is given a buffer: mutant and code.
PostsTwice == sync' = sync + 2          \* mutant: asking the length posts too
Post == sync' = sync + 1

\* How far the datagram is put together once fragment f was read.
Reassembled(f) ==
  LET content == frag_buf[f].len - HeaderLen(f) IN
  CASE f = 0 -> IpUdpLen + content
    [] f # 0 /\ frag_buf[f].hdr = received -> received + content
    [] OTHER -> received

StackReads ==
  /\ isr /\ isr' = FALSE
  /\ Post
  /\ _frag' = _frag + 1
  /\ timer_window' = IF _frag = 0 THEN [timer_window EXCEPT ![Slot(Datagram)] = Datagram]
                                  ELSE timer_window
  /\ received' = Reassembled(_frag)
  /\ udp' = IF received' = Total /\ Len(udp) < QueueSize THEN Append(udp, Datagram)
                                                         ELSE udp
  /\ UNCHANGED <<mainVars, dropped>>

\* -ENOBUFS: the fragment stays the next to be read.  Mutant: without a post.
RefusesSilently ==
  /\ isr /\ isr' = FALSE
  /\ UNCHANGED <<sync, mainVars, udp, stackVars>>

StackRefused ==
  /\ isr /\ isr' = FALSE
  /\ Post
  /\ UNCHANGED <<mainVars, udp, stackVars>>

\* After asking the length the stack has no room, and does not ask again.
StackDrops ==
  /\ isr /\ isr' = FALSE
  /\ dropped' = TRUE
  /\ UNCHANGED <<mainVars, sync, udp, _frag, timer_window, received>>

Stack == StackReads \/ StackRefused \/ StackDrops

\* _thread: the id in the datagram leads to the slot with its time.
Receive ==
  /\ ~isr /\ udp # <<>>
  /\ udp' = Tail(udp)
  /\ UNCHANGED <<mainVars, sync, isr, stackVars>>

Next == Main \/ Stack \/ Receive

\* The scheduler runs the highest thread that is ready, and none is for ever.
Fairness == WF_vars(Main) /\ WF_vars(Stack) /\ WF_vars(Receive)

Spec == Init /\ [][Next]_vars /\ Fairness

(***************************************************************************)
(* Properties                                                              *)
(***************************************************************************)

\* The state is of its type; the semaphore is binary, and a fragment the stack
\* is asked to read exists, whichever it has refused.
TypeOK ==
  /\ pc \in {"prepare", "fill", "raise", "wait", "reset", "done"}
  /\ payload_size \in MinPayload..MaxPayload + PayloadStep /\ id \in 0..Runs - 1
  /\ fragments \in 0..MaxFragments /\ i \in 0..fragments
  /\ frag_buf \in [Fragment -> [hdr : Nat, from : Nat, len : 0..FrameSize]]
  /\ sync \in 0..1 /\ isr \in BOOLEAN /\ dropped \in BOOLEAN
  /\ _frag \in 0..MaxFragments
  /\ isr => _frag <= i /\ frag_buf[_frag].len > HeaderLen(_frag)
  /\ udp \in Seq((MinPayload..MaxPayload) \X (0..Runs - 1))

\* Whatever its size and that of the datagram before, the fragments main raises
\* the interrupt for are the datagram cut into pieces: each begins where the
\* one before ends, as its header says, the last ends with the datagram, and
\* all but the last have multiples of eight bytes; the stack is asked to read
\* no others (TypeOK).
FragmentsTile ==
  LET end(f) == frag_buf[f].from + frag_buf[f].len - HeaderLen(f) IN
  /\ TypeOK
  /\ pc \in {"raise", "wait"} =>
       /\ fragments > 0
       /\ frag_buf[0].from = IpUdpLen
       /\ \A f \in 1..fragments - 1 :
            /\ frag_buf[f].from = end(f - 1) /\ frag_buf[f].hdr = frag_buf[f].from
            /\ (frag_buf[f - 1].len - HeaderLen(f - 1)) % 8 = 0
       /\ end(fragments - 1) = Total

\* A datagram is measured against its own time: no later one has taken its
\* slot of the window by the time the receiver looks at it.
StampFits == \A n \in DOMAIN udp : timer_window[Slot(udp[n])] = udp[n]

\* Unless the stack runs out of room the experiment comes to its end, however
\* often a buffer is too small.
Finishes == []~dropped => <>(pc = "done")

=============================================================================
