----------------------- MODULE MCLandingWithoutSync -----------------------
(* landingwithoutsync.c for TLC.                                             *)
EXTENDS LandingWithoutSync
=============================================================================
