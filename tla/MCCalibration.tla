---------------------------- MODULE MCCalibration ----------------------------
(* f calls c, c and g call p: a target with one caller and one with two, and a *)
(* path of two edges.                                                          *)
EXTENDS Calibration, TLC

CONSTANTS f, g, c, p
MCGraph   == (f :> {c}) @@ (g :> {p}) @@ (c :> {p}) @@ (p :> {})
MCTargets == <<c, p>>
=============================================================================
