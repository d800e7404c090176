-------------------------- MODULE MCCandidateIndex --------------------------
(* Instances of CandidateIndex for TLC. *)
EXTENDS CandidateIndex

\* Nine shards of three by three cells; 0 and 8 are in opposite corners.
MCPlacements ==
    {<< <<1, 1>>, <<4, 5>>, <<13, 12>> >>, << <<5, 5>>, <<4, 4>>, <<2, 0>> >>}

\* In a shard with riders, between the two shards, and beside only one of them.
MCPlaces == {<<0, 0>>, <<8, 8>>, <<9, 1>>}
=============================================================================
