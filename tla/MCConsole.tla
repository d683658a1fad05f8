----------------------------- MODULE MCConsole ------------------------------
(***************************************************************************)
(* A screen of two rows of three columns and a line of pixels to spare.    *)
(* Key a has one byte and key u, whose name has two characters, two.  One  *)
(* CPU logs a line with a tab in it, which fills a row and more, another   *)
(* one prints a line in two pieces.                                        *)
(***************************************************************************)
EXTENDS Console

MCScancodes == {"1E", "9E", "E0", "48"}

MCEvents ==
  {[code |-> "a", bytes |-> <<"1E">>, down |-> TRUE],
   [code |-> "a", bytes |-> <<"9E">>, down |-> FALSE],
   [code |-> "u", bytes |-> <<"E0", "48">>, down |-> TRUE]}

MCName == [code \in {"a", "u"} |-> IF code = "a" THEN <<"a">> ELSE <<"u", "p">>]

MCOutput == [c \in Cpus |->
  IF c = 1 THEN <<[kind |-> "log", fg |-> "red", prefix |-> <<"!">>, text |-> <<"x", "tab", "?", "return", "y">>]>>
  ELSE <<[kind |-> "print", text |-> <<"h", "i">>], [kind |-> "print", text |-> <<"newline">>]>>]

MCColors == {"white", "red"}

MCChars == {"a", "u", "p", "x", "y", "!", "?", "h", "i", "newline", "return", "tab"}

MCFont == {"a", "u", "p", "x", "y", "!", "h", "i"}
=============================================================================
