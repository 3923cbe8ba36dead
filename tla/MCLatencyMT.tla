---------------------------- MODULE MCLatencyMT ----------------------------
(***************************************************************************)
(* An instance of LatencyMT with one uneven share: the small sizes have    *)
(* four iterations, the large ones two, so three threads get shares of     *)
(* different length and one of them gets none.                             *)
(***************************************************************************)
EXTENDS LatencyMT

MCSmallRuns == [loop |-> 3, skip |-> 1]
MCLargeRuns == [loop |-> 2, skip |-> 0]
=============================================================================
