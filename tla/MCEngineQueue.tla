---- MODULE MCEngineQueue ----
(* Instances of EngineQueue for TLC. *)
EXTENDS EngineQueue

CONSTANTS g, h
====
