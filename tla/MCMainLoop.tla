----------------------------- MODULE MCMainLoop -----------------------------
(* Two workers post to main_warp. *)
EXTENDS MainLoop

CONSTANTS w1, w2

MCWorkers == {w1, w2}
=============================================================================
