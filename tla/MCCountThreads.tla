--------------------------- MODULE MCCountThreads --------------------------
(* The limits that CountThreads is run with.                               *)
EXTENDS CountThreads

MCLimits == -1 .. 4
=============================================================================
