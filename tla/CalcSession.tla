----------------------------- MODULE CalcSession ----------------------------
(***************************************************************************)
(* A MiniCalc object: it is built from the text of one expression and then *)
(* evaluated over and over, each time with the variables of that call.     *)
(***************************************************************************)
EXTENDS MiniCalc, MinicalcGrammar, MinicalcOwners

(* Sessions have one more field here, the values of the variables.         *)
VARIABLES
  x, y,    \* the variables of the last call
  result   \* what it returned: Unevaluated before the first call, Trapped
           \* if it did not return

vars == <<parser_vars, x, y, result>>

Unevaluated == -2

Init ==
  /\ ParserInit
  /\ x = 0 /\ y = 0
  /\ result = Unevaluated

Construction == Construct /\ UNCHANGED <<x, y, result>>

(* A recorded parse error makes every evaluation fail.  Without one, but   *)
(* with a scan that ended early, there is no tree to evaluate.             *)
EvaluateRoot(variables) ==
  CASE parse_errors > 0 -> DWord - 1
    [] parse_errors = 0 /\ root = Nothing -> Trapped
    [] OTHER -> MinicalcEvaluate(root.tree, variables)

Evaluate ==
  /\ phase = "ready"
  /\ result # Trapped
  /\ x' \in session.arguments
  /\ y' \in session.arguments
  /\ result' = EvaluateRoot([x |-> x', y |-> y'])
  /\ UNCHANGED parser_vars

Gone == (phase = "crashed" \/ result = Trapped) /\ UNCHANGED vars

Next == Construction \/ Evaluate \/ Gone

(* The constructor is one call, which nothing interrupts.                  *)
Spec == Init /\ [][Next]_vars /\ WF_vars(Construction)

-----------------------------------------------------------------------------
(* Parsing.                                                                *)

Lexemes == {text[k] : k \in DOMAIN text}
Constructed == phase = "ready" /\ ~ overflowed

(* Of a text whose characters the scanner knows, the generated tables, the *)
(* driver and the rules make the tree that the grammar and its precedences *)
(* say, and they record an error for every other text.  Only the keyword   *)
(* int in the place of a number crashes.                                   *)
ParsedAsWritten ==
  /\ (Constructed /\ \A lexeme \in Lexemes : Known(lexeme)) =>
       /\ Reading(text).ok <=> parse_errors = 0
       /\ Reading(text).ok => root.tree = Reading(text).tree
  /\ phase = "crashed" => "int" \in Lexemes

(* The constructor returns or crashes, whatever the text.                  *)
ParsingEnds == <>(phase \in {"ready", "crashed"})

-----------------------------------------------------------------------------
(* Evaluation: the arguments as int, and what a text stands for.           *)
X == ToInt(x)
Y == ToInt(y)
MaxInt == (Word \div 2) - 1
Failed == result = DWord - 1
Divides(d, n) == n % d = 0
Evaluated(expression) == text = expression /\ result # Unevaluated

(* gcd() of positive operands is their greatest common divisor, and of     *)
(* others an error.                                                        *)
GcdIsGreatest ==
  Evaluated(<<"gcd", "(", "x", ",", "y", ")">>) =>
    IF X > 0 /\ Y > 0
    THEN /\ Divides(result, X) /\ Divides(result, Y)
         /\ \A d \in result + 1 .. X : ~ (Divides(d, X) /\ Divides(d, Y))
    ELSE Failed

(* lcm() is the least common multiple, as long as the product fits an int. *)
LcmIsLeast ==
  (Evaluated(<<"lcm", "(", "x", ",", "y", ")">>) /\ X > 0 /\ Y > 0 /\ X * Y <= MaxInt) =>
    /\ Divides(X, result) /\ Divides(Y, result)
    /\ \A m \in 1 .. result - 1 : ~ (Divides(X, m) /\ Divides(Y, m))

IsNextMultiple(r) == /\ r >= X /\ Divides(Y, r)
                     /\ \A m \in X .. r - 1 : ~ Divides(Y, m)

(* For the sizes templates pad, next_multiple() is the padding they need.  *)
PaddingIsLeast ==
  (Evaluated(<<"next_multiple", "(", "x", ",", "y", ")">>) /\ X >= 0 /\ Y > 0 /\ X + Y - 1 <= MaxInt)
    => IsNextMultiple(result)

(* Division and remainder fit together, with and without signs, wherever   *)
(* there is a quotient.                                                    *)
DivisionFitsRemainder ==
  (Evaluated(<<"int", "(", "x", "==", "x", "/", "y", "*", "y", "+", "x", "%", "y", ")">>) /\ result # Trapped)
    => IF Y = 0 THEN Failed ELSE result = 1

(* A division by zero in the branch an if does not take does no harm, and  *)
(* the comparisons agree with one another.                                 *)
ConditionsProtect ==
  /\ (Evaluated(<<"if", "(", "y", "==", "0", ",", "x", ",", "x", "/", "y", ")">>) /\ Y = 0) => result = X % DWord
  /\ Evaluated(<<"int", "(", "x", "<", "y", "==", "0", ")">>) => Failed
  /\ Evaluated(<<"int", "(", "bool", "(", "int", "(", "x", "<", "y", ")", "-", "int", "(", "x", ">=", "y", ")", ")",
                 "&&", "int", "(", "x", "<=", "y", ")", "==", "int", "(", "!", "x", ">", "y", ")", ")">>) => result = 1

(* An expression that was parsed and evaluated has the value arithmetic    *)
(* gives it.                                                               *)
AgreesWithArithmetic ==
  GcdIsGreatest /\ LcmIsLeast /\ PaddingIsLeast /\ DivisionFitsRemainder /\ ConditionsProtect

=============================================================================
