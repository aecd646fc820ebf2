-------------------------- MODULE MCProcessControl --------------------------
(* Small instances of ProcessControl for TLC. *)
EXTENDS ProcessControl, TLC

Symmetry == Permutations(Thread) \cup Permutations(Handle) \cup Permutations(Proc)
====
