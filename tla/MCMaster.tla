------------------------------ MODULE MCMaster ------------------------------
(* Small instances of Master for TLC. *)
EXTENDS Master, TLC
====
