----------------------------- MODULE MCDisplay -----------------------------
(***************************************************************************)
(* What a POST to /dsp/points carries in the run: a number that fills the  *)
(* scale or does not, and a negative one that lowers the points, down to   *)
(* none, or wraps around zero and fills the scale too.                     *)
(***************************************************************************)
EXTENDS Display

MCPosts == {3, -2}

=============================================================================
