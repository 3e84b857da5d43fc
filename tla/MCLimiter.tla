---- MODULE MCLimiter ----
(* Instances of Limiter for TLC. *)
EXTENDS Limiter

CONSTANTS s1, s2, s3

MCSession == {s1, s2, s3}
====
