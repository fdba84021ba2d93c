---------------------------- MODULE MCHttpRequest ---------------------------
(* What the clients of HttpRequest say: three requests, one of them for a  *)
(* path with "..", one whose end is not read, and lines that are none, one  *)
(* because of the 0 in it.                                                 *)
EXTENDS HttpRequest

MCTexts ==
  LET b == " " IN
  { <<"A", b, "/", b, "A", "\n">>, <<"A", b, "/", ".", "\n", "A">>,
    <<"A", b, "/", ".", ".", "\n">>, <<"A", b, "/", "/", b, ".", ".", "\n">>,
    <<"A", b, ".", "\n">>, <<"A", b, b, "/", "\n">>, <<"/", "\n">>,
    <<"A", b, "/", NUL, "\n">> }
=============================================================================
