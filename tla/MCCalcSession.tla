---------------------------- MODULE MCCalcSession ---------------------------
EXTENDS CalcSession

(* Literals of one digit, and one that does not fit an int.                *)
SomeLiterals == [lexeme \in {"0", "1", "2", "300"} |->
  CASE lexeme = "0" -> 0 [] lexeme = "1" -> 1 [] lexeme = "2" -> 2 [] lexeme = "300" -> 300]
SomeIdentifiers == {"x", "y", "z", "foo", "abs", "pow", "gcd", "lcm", "next_multiple"}

(* Small numbers of both signs, and the largest and smallest int.          *)
SomeArguments == (0 .. 6) \cup (DWord - 4 .. DWord - 1) \cup {MaxInt, MaxInt + 1}

Whole(expression) ==
  [given |-> expression, free |-> {}, max |-> 0, faulty |-> 0, depth |-> 100, arguments |-> SomeArguments]
Begun(given, free, max, faulty) ==
  [given |-> given, free |-> free, max |-> max, faulty |-> faulty, depth |-> 7, arguments |-> {1}]

(* Expressions whose value is known for all arguments; and all texts of a  *)
(* few lexemes, as long as the precedence of operators, conditions and     *)
(* calls, the scanner's errors and the recovery from errors each need.     *)
SomeSessions ==
  {Whole(<<f, "(", "x", ",", "y", ")">>) : f \in {"gcd", "lcm", "next_multiple"}}
  \cup
  {Whole(<<"int", "(", "x", "==", "x", "/", "y", "*", "y", "+", "x", "%", "y", ")">>),
   Whole(<<"if", "(", "y", "==", "0", ",", "x", ",", "x", "/", "y", ")">>),
   Whole(<<"int", "(", "x", "<", "y", "==", "0", ")">>),
   Whole(<<"int", "(", "bool", "(", "int", "(", "x", "<", "y", ")", "-", "int", "(", "x", ">=", "y", ")", ")",
           "&&", "int", "(", "x", "<=", "y", ")", "==", "int", "(", "!", "x", ">", "y", ")", ")">>),
   Whole(<<"x", "**", "y">>), Whole(<<"abs", "(", "x", "-", "300", ")">>),
   Whole(<<"int", "(", "bool", "(", "-", "y", ")", "||", "bool", "(", "z", ")", ")">>)}
  \cup
  {Begun(<<>>, {"x", "-", "**", "+", "(", ")"}, 7, 4),
   Begun(<<>>, {"1", "x", "*", "-", "%"}, 7, 4),
   Begun(<<"if", "(">>, {"x", ",", ")", "<", "&&", "!"}, 8, 5),
   Begun(<<"int", "(">>, {"x", "!", "<", "||", "true", ")"}, 8, 4),
   Begun(<<"int">>, {"(", ")", "bool", "1", "-", "false"}, 7, 4),
   Begun(<<>>, {"gcd", "abs", "foo", "(", ")", ",", "1"}, 6, 5),
   Begun(<<>>, Symbols \cup {"1", "x", "gcd", "#"}, 3, 3)}
=============================================================================
