---------------------------- MODULE MCTraderScreen ----------------------------
(***************************************************************************)
(* Model checking of TraderScreen: the configurations name two trades, the   *)
(* second a leg that the server opens, and choose the faults.                *)
(***************************************************************************)
EXTENDS TraderScreen

FairSpec == ScreenSpec /\ ScreenFairness
=============================================================================
