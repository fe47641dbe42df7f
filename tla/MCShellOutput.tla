--------------------------- MODULE MCShellOutput ---------------------------
(* Short texts for TLC: none, as long as the buffer, and up to two longer. *)
EXTENDS ShellOutput

MCTexts ==
    {<<>>, <<"x", "nl">>, <<"nl", "x", "x">>, <<"x", "x", "x", "nl">>,
     <<"x", "nl", "x", "nl", "x">>}
=============================================================================
