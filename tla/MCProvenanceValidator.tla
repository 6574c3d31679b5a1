----------------------- MODULE MCProvenanceValidator -----------------------
(***************************************************************************)
(* Instances of ProvenanceValidator for TLC.  A manifest is signed at 0,   *)
(* with a timestamp in the future, or with the smallest integer, whose     *)
(* distance from the clock does not fit into one.  In NonceReuse.cfg one   *)
(* time unit is 5 minutes, so TTL = 1 and Drift = 2 are the values main.go *)
(* uses.                                                                   *)
(***************************************************************************)
EXTENDS ProvenanceValidator

MCTimestamps == {0, 3, -Half}

=============================================================================
