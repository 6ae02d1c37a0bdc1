----------------------------- MODULE MCConsole -----------------------------
(* An instance of the console, and of the formatting its texts come from:  *)
(* the console runs from the state without items, the other initial states *)
(* are the inputs printf is tried on.                                      *)
EXTENDS ConsoleProps, PrintfProps

MCInit == Init /\ items \in Rows

MCNext ==
  \/ items = <<>> /\ Next /\ UNCHANGED items
  \/ items # <<>> /\ UNCHANGED <<vars, items>>

MCSpec == MCInit /\ [][MCNext]_<<vars, items>> /\ Fairness
=============================================================================
