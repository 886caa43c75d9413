---------------------------- MODULE MCTextBuffer ----------------------------
(* Instances of TextBufferReports for TLC. *)
EXTENDS TextBufferReports

Typed == {<<>>, <<"a">>, <<".">>, <<"n">>}

TypedLetters == {<<>>, <<"a">>, <<"n">>}
=============================================================================
