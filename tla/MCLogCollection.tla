---------------------------- MODULE MCLogCollection ----------------------------
(* Values of the constants of LogCollection for TLC. *)
EXTENDS LogCollection, TLC

CONSTANTS s1, s2

MCKind == s1 :> "stdout" @@ s2 :> "stderr"
MCCapture == {{"stdout", "stderr"}}
=============================================================================
