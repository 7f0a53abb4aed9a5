--------------------------- MODULE MCStopAndWait ---------------------------
(* StopAndWait for TLC: the cfg file gives the constants their values.      *)
EXTENDS StopAndWait

=============================================================================
