------------------------------ MODULE MCTimer ------------------------------
(* Instances of TimerHist.  The (func, arg) pairs are interchangeable.     *)
EXTENDS TimerHist, TLC

HandlerSymmetry == Permutations(Handlers)
=============================================================================
