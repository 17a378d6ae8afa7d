--------------------------- MODULE MCDownloadQueue ---------------------------
(* One urgent entry, the rest bulk.                                         *)
EXTENDS DownloadQueue

CONSTANTS play, bulk1, bulk2

MCPriority == [e \in Entry |-> IF e = play THEN 0 ELSE 9]
=============================================================================
