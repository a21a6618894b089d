---------------------------- MODULE MCNormalModel ----------------------------
(* Three bins of width 2 from 0; samples below, on an edge, and above. *)
EXTENDS NormalModel

MCSamples == {-1, 2, 7}
MCBaselines == {<<>>, <<2>>, <<2, 2>>, <<-1, 7, 2>>}
=============================================================================
