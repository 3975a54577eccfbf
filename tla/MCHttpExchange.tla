--------------------------- MODULE MCHttpExchange ---------------------------
(* HttpExchange with short responses: two lines, or one with a stray "cr";  *)
(* no body, or one of a line and the beginning of another.                   *)
EXTENDS HttpExchange

Cr == "cr"
X == "x"
SomeHeads == {<<X>> \o CrLf \o <<X>> \o BlankLine, <<X, Cr>> \o BlankLine}
SomeBodies == {<<>>, <<X>> \o CrLf \o <<X>>}
SomeMessages == {<<>>, <<"text">>, <<"Pair">>}
==============================================================================
