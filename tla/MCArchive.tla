----------------------------- MODULE MCArchive -----------------------------
(* Two accounts: the server's, which the background workers and the live    *)
(* streams use, and a person's own, which their Subsonic player uses.       *)
EXTENDS Archive

CONSTANTS server, own

MCAccountOf == [p \in Thread |-> IF p \in Player THEN own ELSE server]
=============================================================================
