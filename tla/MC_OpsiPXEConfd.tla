--------------------------- MODULE MC_OpsiPXEConfd ---------------------------
(* Three backend calls in a row, each on a host of this or another depot. *)
EXTENDS OpsiPXEConfd
=============================================================================
