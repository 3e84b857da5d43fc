---- MODULE MCTaskDag ----
(* Instances of TaskDag for TLC. *)
EXTENDS TaskDag, TLC

CONSTANTS a, b, c, d, e

\* A chain of three and a join of its first task with an independent one.
MCTask == {a, b, c, d, e}
MCDeps == (a :> {}) @@ (b :> {a}) @@ (c :> {b}) @@ (d :> {}) @@ (e :> {a, d})
====
