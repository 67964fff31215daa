------------------------------- MODULE MCGbEs1 -------------------------------
(* Constants of GbEs1 for TLC: two messages contending for one pool urb.  *)
EXTENDS GbEs1
=============================================================================
