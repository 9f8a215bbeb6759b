------------------------------- MODULE MCDatabase -------------------------------
(* Instances of Database.tla for TLC. *)
EXTENDS Database

CONSTANTS c1, c2, c3
================================================================================
