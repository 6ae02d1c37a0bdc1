---------------------------- MODULE MCListTimer ----------------------------
(* Instances of ListTimerProps.                                            *)
EXTENDS ListTimerProps
=============================================================================
