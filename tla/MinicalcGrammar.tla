--------------------------- MODULE MinicalcGrammar --------------------------
(***************************************************************************)
(* What the grammar of parser.ypp says of a text, without its tables: the  *)
(* tree of the text by precedence climbing, or that it has none.  This is  *)
(* what MinicalcParser is compared with.                                   *)
(*                                                                         *)
(* A reading is [ok, type, tree, next]: the symbol read ("int" for expr,   *)
(* "bool" for bool_expr), its tree, and the place after it.                *)
(***************************************************************************)
EXTENDS MinicalcParser

Unreadable == [ok |-> FALSE]
Read(type, tree, next) == [ok |-> TRUE, type |-> type, tree |-> tree, next |-> next]

(* The declarations, weakest first; level 5 is UNARY_MINUS and LOGIC_NEG.  *)
Operators ==
  << {"&&", "||"}, {"==", "!=", "<", ">", "<=", ">="}, {"+", "-"}, {"*", "/", "%"}, {}, {"**"} >>
Level(lexeme) == CHOOSE l \in DOMAIN Operators : lexeme \in Operators[l]
IsOperator(lexeme) == \E l \in DOMAIN Operators : lexeme \in Operators[l]
UnaryLevel == 5

OperatorNames ==
  [lexeme \in UNION {Operators[l] : l \in DOMAIN Operators} |->
     CASE lexeme = "&&" -> "and" [] lexeme = "||" -> "or" [] lexeme = "==" -> "eq" [] lexeme = "!=" -> "ne"
       [] lexeme = "<" -> "lt" [] lexeme = ">" -> "gt" [] lexeme = "<=" -> "le" [] lexeme = ">=" -> "ge"
       [] lexeme = "+" -> "add" [] lexeme = "-" -> "sub" [] lexeme = "*" -> "mul" [] lexeme = "/" -> "div"
       [] lexeme = "%" -> "mod" [] lexeme = "**" -> "pow"]

At(txt, i) == IF i \in DOMAIN txt THEN txt[i] ELSE "end"
Is(reading, type) == reading.ok /\ reading.type = type

Joined(lexeme, l, r) ==
  LET tree == [op |-> OperatorNames[lexeme], lhs |-> l.tree, rhs |-> r.tree]
  IN  CASE Level(lexeme) = 1 /\ Is(l, "bool") /\ Is(r, "bool") -> Read("bool", tree, r.next)
        [] Level(lexeme) = 2 /\ Is(l, "int") /\ Is(r, "int")   -> Read("bool", tree, r.next)
        [] Level(lexeme) > 2 /\ Is(l, "int") /\ Is(r, "int")   -> Read("int", tree, r.next)
        [] OTHER -> Unreadable

RECURSIVE Expression(_, _, _)
RECURSIVE Continued(_, _, _)
RECURSIVE Arguments1(_, _, _)

(* The arguments of a call whose next one begins at i, and its end.        *)
Arguments1(txt, i, trees) ==
  LET a == Expression(txt, i, 0)
  IN  CASE Is(a, "int") /\ At(txt, a.next) = ")" -> [ok |-> TRUE, trees |-> Append(trees, a.tree), next |-> a.next + 1]
        [] Is(a, "int") /\ At(txt, a.next) = "," -> Arguments1(txt, a.next + 1, Append(trees, a.tree))
        [] OTHER -> Unreadable

Call(txt, i) ==
  LET a == Arguments1(txt, i + 2, <<>>)
  IN  CASE ~ a.ok -> Unreadable
        [] a.ok /\ Len(a.trees) = 1 /\ txt[i] \in unary_functions
             -> Read("int", [op |-> txt[i], arg |-> a.trees[1]], a.next)
        [] a.ok /\ Len(a.trees) = 2 /\ txt[i] \in binary_functions
             -> Read("int", [op |-> txt[i], lhs |-> a.trees[1], rhs |-> a.trees[2]], a.next)
        [] OTHER -> Unreadable

Conditional(txt, i) ==
  LET c == Expression(txt, i + 2, 0)
      a == Arguments1(txt, c.next + 1, <<>>)
  IN  IF At(txt, i + 1) = "(" /\ Is(c, "bool") /\ At(txt, c.next) = "," /\ a.ok /\ Len(a.trees) = 2
      THEN Read("int", [op |-> "if", cond |-> c.tree, then |-> a.trees[1], else |-> a.trees[2]], a.next)
      ELSE Unreadable

(* ( e ), and ( e ) as a number or a condition. *)
Parenthesised(txt, i) ==
  LET e == Expression(txt, i + 1, 0)
  IN  IF At(txt, i) = "(" /\ e.ok /\ At(txt, e.next) = ")" THEN Read(e.type, e.tree, e.next + 1) ELSE Unreadable

Cast(e, from, to) == IF Is(e, from) THEN Read(to, e.tree, e.next) ELSE Unreadable

Prefixed(txt, i, name, level, type) ==
  LET e == Expression(txt, i + 1, level)
  IN  IF Is(e, type) THEN Read(type, [op |-> name, arg |-> e.tree], e.next) ELSE Unreadable

(* A negation applies to a whole comparison: there is no other way to read *)
(* one that begins with a number.                                          *)
Primary(txt, i) ==
  LET lexeme == At(txt, i)
      opens == At(txt, i + 1) = "("
  IN  CASE lexeme = "("     -> Parenthesised(txt, i)
        [] lexeme = "-"     -> Prefixed(txt, i, "neg", UnaryLevel, "int")
        [] lexeme = "!"     -> Prefixed(txt, i, "not", 1, "bool")
        [] lexeme = "true"  -> Read("bool", [op |-> "num", value |-> 1], i + 1)
        [] lexeme = "false" -> Read("bool", [op |-> "num", value |-> 0], i + 1)
        [] lexeme = "if"    -> Conditional(txt, i)
        [] lexeme = "bool"  -> Cast(Parenthesised(txt, i + 1), "int", "bool")
        [] lexeme \in DOMAIN Literals \cup {"int"} /\ opens -> Cast(Parenthesised(txt, i + 1), "bool", "int")
        [] lexeme \in DOMAIN Literals /\ ~ opens -> Read("int", [op |-> "num", value |-> ToInt(Literals[lexeme])], i + 1)
        [] lexeme \in Identifiers /\ opens       -> Call(txt, i)
        [] lexeme \in Identifiers /\ ~ opens     -> Read("int", [op |-> "var", name |-> lexeme], i + 1)
        [] OTHER -> Unreadable

(* Operators above the given level, to the left associated; the connectives*)
(* do not associate at all.                                                *)
Continued(txt, left, above) ==
  LET lexeme == At(txt, left.next)
      joined == Joined(lexeme, left, Expression(txt, left.next + 1, Level(lexeme)))
  IN  CASE ~ left.ok -> Unreadable
        [] left.ok /\ (~ IsOperator(lexeme) \/ Level(lexeme) <= above) -> left
        [] OTHER -> IF Level(lexeme) = 1 /\ joined.ok /\ At(txt, joined.next) \in Operators[1] THEN Unreadable
                    ELSE Continued(txt, joined, above)

Expression(txt, i, above) == Continued(txt, Primary(txt, i), above)

(* The text as a whole is a number.                                        *)
Reading(txt) == LET e == Expression(txt, 1, 0) IN IF Is(e, "int") /\ e.next = Len(txt) + 1 THEN e ELSE Unreadable

=============================================================================
