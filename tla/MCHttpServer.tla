---------------------------- MODULE MCHttpServer ---------------------------
(* Values for the constants of HttpServer that a configuration cannot write. *)
EXTENDS HttpServer, TLC

MCSymmetry == Permutations(Pool) \cup Permutations(Workers \ Pool) \cup Permutations(Clients) \cup Permutations(Items)
=============================================================================
