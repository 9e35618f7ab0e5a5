---------------------------- MODULE MCRunClaims -----------------------------
(***************************************************************************)
(* RunClaims for TLC.  The Claims*.cfg files give every constant its value;*)
(* with Period = Lease = 1 a lease ends, a run is reclaimed and the next   *)
(* occurrence falls due within a few ticks.                                *)
(***************************************************************************)
EXTENDS RunClaims
=============================================================================
