---- MODULE MCMobileFeed ----
(* Instances of MobileFeed for TLC. *)
EXTENDS MobileFeed
====
