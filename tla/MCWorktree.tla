----------------------------- MODULE MCWorktree -----------------------------
(* Model-checking instance of Worktree: one run and two cleanup commands,   *)
(* which may work on it at the same time once its process is gone.          *)
EXTENDS Worktree

CONSTANTS r1, c1, c2
=============================================================================
