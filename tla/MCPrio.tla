------------------------------- MODULE MCPrio -------------------------------
(* Instances of PrioProps.                                                 *)
EXTENDS PrioProps
=============================================================================
