---- MODULE MCFanOut ----
(* An instance of FanOut for TLC. *)
EXTENDS FanOut

CONSTANTS r, a, b, a1

\* The root with two children, one of which has a child of its own: a gate of
\* one place has one child inside and one waiting, and a level below it.
MCNested == {r, a, b, a1}
MCNestedParent == (a :> r) @@ (b :> r) @@ (a1 :> a)
====
