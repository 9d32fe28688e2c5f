----------------------------- MODULE PointTally -----------------------------
(***************************************************************************)
(* What a node that counts button presses promises to the rest of the     *)
(* demo, with nothing said about how: presses are made one at a time, they *)
(* are handed over in batches, no press is handed over before it is made   *)
(* or twice, and every press is handed over in the end, unless the node    *)
(* reboots and forgets them all.                                           *)
(***************************************************************************)
EXTENDS Naturals

CONSTANT MaxPresses         \* bound on the presses of a behaviour

VARIABLES pressed,          \* presses made
          offered           \* presses handed over

tallyVars == <<pressed, offered>>

TallyInit == pressed = 0 /\ offered = 0

Press ==
  /\ pressed < MaxPresses
  /\ pressed' = pressed + 1
  /\ UNCHANGED offered

\* A batch may be empty or leave presses made while it was put together.
HandOver(n) ==
  /\ offered + n <= pressed
  /\ offered' = offered + n
  /\ UNCHANGED pressed

Reboot == pressed' = 0 /\ offered' = 0

TallyNext == Press \/ Reboot \/ \E n \in 0..MaxPresses : HandOver(n)

\* Some non-empty batch is handed over while there is one to hand over.
HandOverSome == \E n \in 1..MaxPresses : HandOver(n)

TallySpec == TallyInit /\ [][TallyNext]_tallyVars
                       /\ WF_tallyVars(HandOverSome)

=============================================================================
