------------------------------ MODULE MCLexing ------------------------------
(* Lexing for TLC: alphabets small enough for long texts, each with the symbols  *)
(* of one confusion: escapes and doubled delimiters, comments in literals and    *)
(* literals in comments, names that hold either, statements and what ends them.  *)
EXTENDS Lexing

Keys(symbols) == {<<c>> : c \in symbols}

Commit == <<";", "COMMIT", ";">>

MCAlphabets ==
    [mysql  |-> {Keys({"'", "dq", "\\", "nl", "a"}), Keys({"bt", "'", "a", "\\"}),
                 Keys({"-", "sp", "#", "'", "nl"}), Keys({"/", "*", "'", "nl", "bt"})},
     mssql  |-> {Keys({"[", "]", "'", "dq", "nl"}), Keys({"/", "*", "'", "[", "]"}),
                 Keys({"-", "'", "[", "]", "nl"})},
     oracle |-> {Keys({"q", "n", "'", "[", "]"}), Keys({"q", "'", "a", "/", "*"}),
                 Keys({"rem", "sp", "nl", "'", "-"}), Keys({"dq", "$", "q", "'", "a"})},
     postgres |-> {{<<"$", "a", "$">>, <<"$">>, <<"a">>, <<"'">>, <<";">>},
                   {<<"/", "*">>, <<"*", "/">>, <<"'">>, <<"$">>, <<"/">>}, Keys({"dq", "'", "-", "nl"}),
                   Keys({"(", ")", ";", "COMMIT"}),
                   {<<"\\", "a", "nl">>, <<";">>, <<"BEGIN", "TRANSACTION">>, <<"SELECT", "1">>, <<"$", "$">>},
                   {<<"SET">>, <<"SESSION">>, <<"CHECK_FUNCTION_BODIES", "=", "a">>, <<"nl">>, <<";">>},
                   {<<"COPY", "a", "FROM">>, <<"STDIN">>, <<";">>, <<"nl">>, <<"\\", ".">>},
                   {<<"'">>, <<"e">>, <<"\\">>, Commit},
                   {<<"'">>, <<"e">>, <<"\\">>, <<"'", "nl", "'">>, Commit},
                   {<<"$">>, <<"a">>, <<"dq">>, Commit},
                   {<<"/", "*">>, <<"*", "/">>, <<"-", "-">>, <<"nl">>, Commit},
                   {<<"PREPARE">>, <<"TRANSACTION">>, <<"/", "*", "a", "*", "/">>, <<"'">>, <<";">>}}]

MCMaxLength == [mysql |-> 6, mssql |-> 6, oracle |-> 7, postgres |-> 6]
=============================================================================
