-------------------------------- MODULE MCCache --------------------------------
(* Instances of Cache.tla for TLC: three requests, two of them with the same  *)
(* raw query string, and a job, all for one query on one database.            *)
EXTENDS Cache, TLC

CONSTANTS r1, r2, r3, k1, k2, j1

MCKeyOf == (r1 :> k1) @@ (r2 :> k1) @@ (r3 :> k2)
================================================================================
