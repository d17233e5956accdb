----------------------------- MODULE MCSettings -----------------------------
(* A small instance of Settings: a table for one network, two corrections. *)
EXTENDS Settings

CONSTANTS s1, s2, d0, d1

MCBackup == [ppm |-> 2, power |-> "low", data |-> d1, nets |-> {s2}]
=============================================================================
