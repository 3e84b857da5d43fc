---- MODULE MCPhoneLink ----
(* Instances of PhoneLink for TLC. *)
EXTENDS PhoneLink
====
