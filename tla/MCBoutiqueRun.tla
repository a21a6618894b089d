----------------------------- MODULE MCBoutiqueRun -----------------------------
(***************************************************************************)
(* Three experiments: two services at once, then the same fault on one of  *)
(* them with the SLO runner, so that it meets resources of the same name,  *)
(* then a fault that only scripts inject.                                  *)
(***************************************************************************)
EXTENDS BoutiqueRun

MCSeries ==
  <<[fault |-> "cpu_hog",  targets |-> <<"email", "currency">>, chaos |-> TRUE,  slo |-> FALSE],
    [fault |-> "cpu_hog",  targets |-> <<"email">>,             chaos |-> TRUE,  slo |-> TRUE],
    [fault |-> "disk_hog", targets |-> <<"currency", "email">>, chaos |-> FALSE, slo |-> FALSE]>>
=============================================================================
