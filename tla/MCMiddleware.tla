------------------------------- MODULE MCMiddleware -------------------------------
(* Requests r1 .. r3 of clients that accept gzip and r4 of one that does not. *)
EXTENDS Middleware

CONSTANTS r1, r2, r3, r4, w1, w2

Symmetry == Permutations({r1, r2, r3}) \cup Permutations({w1, w2})
================================================================================
