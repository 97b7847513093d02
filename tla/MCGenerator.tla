---------------------------- MODULE MCGenerator ------------------------------
(* Objects of size 0 with the container lengths of the code (3 to 5 for an  *)
(* array, 1 or 2 for a map), containers at depths 0 to 2 with room for one *)
(* at depth 3, where the limit forbids it, and an object_t of two alignment *)
(* units, so that strings leave padding behind.                            *)
EXTENDS Generator

CONSTANTS k1, k2

MCKeys == {k1, k2}
MCKeyLength == [k \in MCKeys |-> IF k = k1 THEN 1 ELSE 2]
MCStrLengths == {2}
=============================================================================
