------------------------------ MODULE MCShell ------------------------------
(* Values for the constants of Shell.                                      *)
EXTENDS Shell

MCFiles == {"f", "g"}
MCContents == [g |-> <<<<"x">>, <<"x">>, <<"x">>>>]
MCPrograms == {"ls", "cat", "g"}

(* Nothing; built-in commands; programs with their redirections, one of    *)
(* them quoted, two that have no file, one before the command; cat with    *)
(* its input from the shell; a file of three words behind "<", alone, with *)
(* ">", and with one word too many; an unknown command, a word too long.   *)
MCLines ==
  LET b == " "
  IN { <<b>>, <<"pwd">>, <<"pwd", b, ">", b, "f">>, <<"exit">>,
       <<"ls">>, <<"ls", b, "'", ">", "'", b, "f">>, <<"ls", b, ">", b, "f", b, ">", b, "g">>,
       <<"ls", b, ">", b, "d">>, <<"ls", b, ">">>, <<"ls", b, "<", b, "d">>, <<">", b, "f", b, "ls">>,
       <<"cat">>, <<"cat", b, ">", b, "f">>, <<"cat", b, "<", b, "g">>,
       <<"ls", b, "<", b, "g", b, ">", b, "f">>, <<"ls", b, "<", b, "g", b, "x">>,
       <<"x">>, <<"x", "x", "x">> }
MCFew == { <<"ls">>, <<"cat">> }

(* The first value of fd: 0 with gcc as the Makefile calls it, or others.  *)
(* Left out is 6, which a first pipe's write end gets: cat would have it   *)
(* as its output, and wait for ever for the end of its own input.          *)
MCGarbage == {-1, 0, 7}
MCZero == {0}

(* Words of up to two characters of every kind, and some of three.         *)
MCSamples == (SeqOf({"x", " ", "'", "\"", "\\"}, 2) \cup SeqOf({"x", "'"}, 3)) \ {<<>>}
MCSeconds == { <<"x">>, <<"'">> }
=============================================================================
