------------------------------- MODULE MCCoop -------------------------------
(* An instance of CoopProps.                                               *)
EXTENDS CoopProps

MCCreations == {<<NULL, 0>>, <<Param, 0>>, <<Param, 255>>}
=============================================================================
