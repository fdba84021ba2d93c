----------------------------- MODULE MCSpooler -----------------------------
(* Values for the constants of Spooler that a configuration cannot write.  *)
EXTENDS Spooler

MCStrings == Producers \X (0 .. NStrs - 1)
=============================================================================
