---------------------------- MODULE MCServiceCalls ----------------------------
(* Two calls of two attempts: their tokens are asked for, read late and      *)
(* outlived in the time bounded.                                             *)
EXTENDS ServiceCalls
=============================================================================
