--------------------------- MODULE MCCanonicalLog ---------------------------
(* Three requests; the first two ask for the same username.                *)
EXTENDS CanonicalLog

CONSTANTS r1, r2, r3

MCRequests == {r1, r2, r3}
MCUsername == [r \in MCRequests |-> IF r = r3 THEN "bob" ELSE "ann"]
=============================================================================
