---------------------------- MODULE MCHalLibrary ----------------------------
(* A word of two nibbles for the texts, of 64 for the clock and the loops;   *)
(* caches of four and of two lines.                                          *)
EXTENDS HalLibrary
MCNumbers == {0, 1, 9, 10, 15, 16, 99, 100, 127, 128, 255}
MCTexts == {<<>>, <<"a">>, <<"a", "^D">>, <<"^D", "%", "d">>, <<"a", "b", "^D", "c", "d", "e">>}
MCWidths == {<<>>, <<"1">>, <<"4">>, <<"0", "4">>, <<"l">>, <<"0", "2", "l">>, <<"1", "2">>}
=============================================================================
