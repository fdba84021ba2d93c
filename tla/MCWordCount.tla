---------------------------- MODULE MCWordCount ----------------------------
(* Small texts for WordCount: nothing; a letter and "ab"; "ba", "AB" and   *)
(* "ba" at the very end; "aba" and "Ba".                                   *)
EXTENDS WordCount

MCTexts == {<<>>, <<1, 0, 1, 2>>, <<0, 2, 1, 0, 0, -1, -2, 0, 2, 1>>, <<1, 2, 1, 0, -2, 1, 0>>}
=============================================================================
