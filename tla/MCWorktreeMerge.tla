---- MODULE MCWorktreeMerge ----
(* Instances of WorktreeMerge for TLC. *)
EXTENDS WorktreeMerge, TLC

CONSTANTS a, b, c, f, g, x, y, x2, head

MCFile == {f, g}
MCBlob == {x, x2, y}
MCWrote == (a :> {x, x2}) @@ (b :> {y}) @@ (c :> {})

\* Two worktree tasks at the same time and a task of the main tree after one.
MCTask == {a, b, c}
MCDeps == (a :> {}) @@ (b :> {}) @@ (c :> {b})
MCAttempts == (a :> 2) @@ (b :> 1) @@ (c :> 2)
====
