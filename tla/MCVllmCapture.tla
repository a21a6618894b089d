---------------------------- MODULE MCVllmCapture ----------------------------
(***************************************************************************)
(* An instance of VllmCapture: one scenario of each kind, and two          *)
(* sessions, so that a killed one is resumed.                              *)
(***************************************************************************)
EXTENDS VllmCapture

MCMatrix  == <<"eviction", "burst", "starved">>
MCKind    == [s \in Scenarios |->
                CASE s = "eviction" -> "config" [] s = "burst" -> "workload"
                  [] s = "starved" -> "infra"]
MCRepeats == [s \in Scenarios |-> 1]
=============================================================================
