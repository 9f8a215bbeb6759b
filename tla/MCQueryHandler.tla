---------------------------- MODULE MCQueryHandler ----------------------------
(* Instances of QueryHandler.tla for TLC. *)
EXTENDS QueryHandler, TLC

CONSTANTS r1, r2, r3, r4, a, b

(* r1 and r2 share item a, r3 repeats r2, r4 asks the same with another key. *)
MCItemsOf == [r \in Request |-> IF r = r1 THEN {a, b} ELSE {a}]
MCKeyOf == [r \in Request |-> IF r = r1 THEN 1 ELSE IF r = r4 THEN 3 ELSE 2]
================================================================================
