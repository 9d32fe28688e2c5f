------------------------------- MODULE MCWand -------------------------------
(***************************************************************************)
(* The wand with a clock of three hours, which comes round quickly in      *)
(* both directions, and the real eight half-quarters of an hour.           *)
(***************************************************************************)
EXTENDS Wand

\* Noon and midnight, which are told apart, and a time before each end.
MCTimes == {[hour |-> 0, min |-> 0], [hour |-> 3, min |-> 14],
            [hour |-> 5, min |-> 59]}

=============================================================================
