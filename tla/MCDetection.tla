------------------------------ MODULE MCDetection ------------------------------
(***************************************************************************)
(* Windows of seven samples: at the mean, slightly or far above or below.  *)
(***************************************************************************)
EXTENDS Detection

MCScores == {-3, 0, 2, 5}
=============================================================================
