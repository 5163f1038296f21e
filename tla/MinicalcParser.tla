--------------------------- MODULE MinicalcParser ---------------------------
(***************************************************************************)
(* The constructor of a MiniCalc object: the scanner feeds one token at a  *)
(* time to a parser driven by the tables lemon has generated.  A text is a *)
(* sequence of lexemes, the pieces the scanner tells apart, and is made up *)
(* while it is read.                                                       *)
(*                                                                         *)
(* Tokens and tree nodes live on the heap.  A minor value is the tree or   *)
(* token it points to and the objects that deleting it deletes: a token is *)
(* <<"token", its place in the text>>, a node <<"node", n>> if it was the  *)
(* n-th made.  See MiniCalc for the form of trees.                         *)
(***************************************************************************)
EXTENDS MinicalcInt, Sequences

CONSTANTS
  Sessions,     \* what may be constructed: records as described below
  Literals,     \* the value of an integer literal
  Identifiers   \* names of variables and functions

(* A session is [given, free, max, faulty, depth]: a text that begins with *)
(* the lexemes given, goes on with lexemes of the set free, and stops at   *)
(* max lexemes, or at faulty if an error was found; YYSTACKDEPTH is depth. *)
VARIABLES
  session,
  text,          \* the lexemes scanned so far
  phase,         \* "scan", "parse", "free", "ready", or "crashed"
  yymajor,       \* the token Parse() was called with
  yyminor,
  yystack,       \* entries [stateno, major, minor]; <<>> if yyidx < 0
  yyerrcnt,
  root,          \* the minor value that set_root was given
  parse_errors,  \* how many were recorded
  heap,          \* the objects allocated and not deleted
  made,          \* nodes made so far
  overflowed     \* has the stack overflowed?

parser_vars == <<session, text, phase, yymajor, yyminor, yystack, yyerrcnt, root, parse_errors, heap, made, overflowed>>

-----------------------------------------------------------------------------
(* The tables.  Entries count from 0 there and from 1 here.                *)

YYNSTATE == 68
YYNRULE == 29
YY_ERROR_ACTION == YYNSTATE + YYNRULE
YY_ACCEPT_ACTION == YYNSTATE + YYNRULE + 1

yy_action == <<
  15, 14, 13, 12, 11, 10, 25, 22, 24, 23, 21, 97, 97, 20, 25, 22, 24, 23, 21, 68, 65, 20, 27, 43, 15,
  14, 13, 12, 11, 10, 25, 22, 24, 23, 21, 19, 40, 20, 98, 56, 2, 27, 44, 6, 55, 50, 4, 26, 45, 64, 63,
  49, 48, 20, 25, 22, 24, 23, 21, 27, 46, 20, 25, 22, 24, 23, 21, 17, 58, 20, 18, 25, 22, 24, 23, 21,
  66, 5, 20, 25, 22, 24, 23, 21, 9, 65, 20, 41, 25, 22, 24, 23, 21, 60, 54, 20, 25, 22, 24, 23, 21, 7,
  19, 20, 24, 23, 21, 3, 1, 20, 59, 55, 50, 16, 3, 1, 3, 1, 49, 27, 61, 99, 99, 27, 47, 53, 42, 52,
  67, 62, 51, 28, 33, 32, 39, 8, 38, 37, 57, 36, 35, 34, 99, 31, 99, 30, 29>>
yy_lookahead == <<
  3, 4, 5, 6, 7, 8, 9, 10, 11, 12, 13, 1, 2, 16, 9, 10, 11, 12, 13, 0, 23, 16, 29, 30, 3, 4, 5, 6, 7,
  8, 9, 10, 11, 12, 13, 10, 29, 16, 31, 32, 15, 29, 30, 21, 19, 20, 21, 29, 30, 24, 25, 26, 27, 16, 9,
  10, 11, 12, 13, 29, 30, 16, 9, 10, 11, 12, 13, 22, 23, 16, 21, 9, 10, 11, 12, 13, 23, 21, 16, 9, 10,
  11, 12, 13, 21, 23, 16, 29, 9, 10, 11, 12, 13, 23, 29, 16, 9, 10, 11, 12, 13, 22, 10, 16, 11, 12,
  13, 1, 2, 16, 23, 19, 20, 21, 1, 2, 1, 2, 26, 29, 30, 33, 33, 29, 30, 29, 29, 29, 29, 23, 29, 29,
  29, 29, 29, 22, 29, 29, 23, 29, 29, 29, 33, 29, 33, 29, 29>>
yy_shift_ofst == <<
  92, 25, 25, 25, 25, 25, 25, 92, 92, 92, 92, 92, 92, 92, 92, 92, 92, 92, 92, 92, 92, 92, 92, 92, 92,
  92, -3, 21, 45, 87, 79, 70, 62, 53, 5, 5, 5, 5, 5, 5, 5, 93, 93, 115, 113, 106, 10, 10, 63, 56, 49,
  37, 37, 37, 37, 22, 19>>
yy_reduce_ofst == <<
  7, 94, 90, 30, 18, 12, -7, 117, 116, 114, 112, 111, 110, 108, 107, 105, 104, 103, 102, 101, 99, 98,
  97, 96, 65, 58>>
yy_default == <<
  97, 97, 97, 97, 97, 97, 97, 97, 97, 97, 97, 97, 97, 97, 97, 97, 97, 97, 97, 97, 97, 97, 97, 97, 97,
  97, 97, 97, 97, 97, 97, 97, 97, 97, 90, 89, 88, 87, 86, 85, 69, 71, 74, 97, 97, 97, 92, 93, 97, 97,
  78, 77, 75, 73, 72, 70, 97, 95, 80, 94, 96, 91, 84, 83, 82, 81, 79, 76>>

(* [lhs, nrhs] of rule r is yyRuleInfo[r + 1].                             *)
expr == 29
bool_expr == 30
yyRuleInfo == <<
  <<31, 1>>, <<32, 1>>, <<expr, 1>>, <<expr, 3>>, <<expr, 3>>, <<expr, 3>>, <<expr, 3>>, <<expr, 3>>,
  <<expr, 3>>, <<expr, 2>>, <<expr, 1>>, <<expr, 6>>, <<expr, 4>>, <<expr, 3>>, <<bool_expr, 1>>,
  <<bool_expr, 1>>, <<bool_expr, 3>>, <<bool_expr, 3>>, <<bool_expr, 3>>, <<bool_expr, 3>>,
  <<bool_expr, 3>>, <<bool_expr, 3>>, <<bool_expr, 3>>, <<bool_expr, 2>>, <<bool_expr, 3>>,
  <<bool_expr, 3>>, <<expr, 8>>, <<expr, 4>>, <<bool_expr, 4>>>>

(* Only states up to YY_SHIFT_COUNT have entries of their own.             *)
yy_find_shift_action(stateno, lookahead) ==
  LET i == yy_shift_ofst[stateno + 1] + lookahead + 1
  IN  IF /\ stateno + 1 \in DOMAIN yy_shift_ofst
         /\ i \in DOMAIN yy_action
         /\ yy_lookahead[i] = lookahead
      THEN yy_action[i] ELSE yy_default[stateno + 1]

yy_find_reduce_action(stateno, lookahead) == yy_action[yy_reduce_ofst[stateno + 1] + lookahead + 1]

-----------------------------------------------------------------------------
(* Tokens.                                                                 *)

TOK_INT == 19
TOK_IDENTIFIER == 20
(* The lexeme of each terminal, in the order of their numbers; those of    *)
(* UNARY_MINUS, LPARENS, RPARENS and IDENTIFIER have none.                 *)
yyTokenName ==
  <<"&&", "||", "==", "!=", "<", ">", "<=", ">=", "+", "-", "/", "*", "%", "unary minus", "!", "**",
    "left parens", "right parens", "int", "identifier", "(", ",", ")", "true", "false", "if", "bool">>
Symbols == {yyTokenName[k] : k \in DOMAIN yyTokenName \ {14, 17, 18, 20}}

(* Texts are of strings, each of which the scanner takes for one thing.    *)
ASSUME LexemeAssumption ==
  /\ \A s \in Sessions : s.given \in Seq(STRING) /\ s.free \subseteq STRING
  /\ Identifiers \subseteq STRING /\ DOMAIN Literals \subseteq STRING
  /\ Symbols \cap DOMAIN Literals = {} /\ Symbols \cap Identifiers = {} /\ Identifiers \cap DOMAIN Literals = {}

Nothing == [tree |-> [op |-> "null"], owns |-> {}]

(* Literals and identifiers come with a Token, the rest with nullptr, the  *)
(* keyword int among them although it is the same terminal as a literal.   *)
Major(lexeme) ==
  CASE lexeme \in Symbols         -> CHOOSE k \in DOMAIN yyTokenName : yyTokenName[k] = lexeme
    [] lexeme \in DOMAIN Literals -> TOK_INT
    [] lexeme \in Identifiers     -> TOK_IDENTIFIER
Minor(lexeme, place) ==
  CASE lexeme \in Symbols         -> Nothing
    [] lexeme \in DOMAIN Literals -> [tree |-> [op |-> "num", value |-> ToInt(Literals[lexeme])],
                                      owns |-> {<<"token", place>>}]
    [] lexeme \in Identifiers     -> [tree |-> [op |-> "var", name |-> lexeme], owns |-> {<<"token", place>>}]
Known(lexeme) == lexeme \in Symbols \cup DOMAIN Literals \cup Identifiers

-----------------------------------------------------------------------------
(* What the rules do with the minor values m of their right-hand sides.    *)

binary_functions == {"pow", "next_multiple", "gcd", "lcm"}
unary_functions == {"abs"}
BinaryRules ==
  [r \in {3, 4, 5, 6, 7, 8, 17, 18, 19, 20, 21, 22, 24, 25} |->
     CASE r = 3 -> "add" [] r = 4 -> "div" [] r = 5 -> "mul" [] r = 6 -> "sub" [] r = 7 -> "mod"
       [] r = 8 -> "pow" [] r = 17 -> "eq" [] r = 18 -> "ne" [] r = 19 -> "lt" [] r = 20 -> "gt"
       [] r = 21 -> "le" [] r = 22 -> "ge" [] r = 24 -> "and" [] r = 25 -> "or"]

UndeclaredBinary(r, m) == r \in {11, 12} /\ m[1].tree.name \notin binary_functions
Undeclared(r, m) ==
  \/ r = 11 /\ m[1].tree.name \notin binary_functions
  \/ r = 12 /\ m[1].tree.name \notin unary_functions

(* The children a rule builds a node from.                                 *)
Children(r) ==
  CASE r \in DOMAIN BinaryRules -> {1, 3}
    [] r \in {9, 23}            -> {2}
    [] r = 11                   -> {3, 5}
    [] r = 12                   -> {3}
    [] r = 26                   -> {3, 5, 7}
    [] OTHER                    -> {}
MakesNode(r, m) == (r \in DOMAIN BinaryRules \cup {2, 9, 10, 11, 12, 14, 15, 23, 26}) /\ ~ Undeclared(r, m)

NodeOf(r, m) ==
  CASE r \in DOMAIN BinaryRules -> [op |-> BinaryRules[r], lhs |-> m[1].tree, rhs |-> m[3].tree]
    [] r \in {2, 10} -> m[1].tree
    [] r = 9         -> [op |-> "neg", arg |-> m[2].tree]
    [] r = 23        -> [op |-> "not", arg |-> m[2].tree]
    [] r = 11        -> [op |-> m[1].tree.name, lhs |-> m[3].tree, rhs |-> m[5].tree]
    [] r = 12        -> [op |-> m[1].tree.name, arg |-> m[3].tree]
    [] r = 14        -> [op |-> "num", value |-> 1]
    [] r = 15        -> [op |-> "num", value |-> 0]
    [] r = 26        -> [op |-> "if", cond |-> m[3].tree, then |-> m[5].tree, else |-> m[7].tree]

NewNode(r, m) == IF MakesNode(r, m) THEN {<<"node", made + 1>>} ELSE {}

(* The value of the left-hand side: a new node, or the value of another    *)
(* symbol.  An undeclared function is a nullptr that owns nothing.         *)
LeftHandSide(r, m) ==
  CASE MakesNode(r, m)  -> [tree |-> NodeOf(r, m),
                            owns |-> (UNION {m[k].owns : k \in Children(r)}) \cup NewNode(r, m)]
    [] r \in {13, 16}   -> m[2]
    [] r \in {27, 28}   -> m[3]
    [] OTHER            -> Nothing

(* The terminals a rule's code does not look at are deleted after it, and  *)
(* set_root deletes the root there was.                                    *)
ReadByCode(r) == IF r \in {2, 10, 11, 12} THEN {1} ELSE {}
Terminal(major) == major \in 1 .. 27
DeletedWithChildren(r, rhs) == UNION {rhs[k].minor.owns : k \in DOMAIN rhs \ ReadByCode(r)}
DeletedByRule(r, rhs) ==
  (UNION {rhs[k].minor.owns : k \in {j \in DOMAIN rhs : Terminal(rhs[j].major)} \ ReadByCode(r)})
    \cup (IF r = 1 THEN root.owns ELSE {})

(* yy_destructor: neither the bottom of the stack nor a start or result    *)
(* symbol has anything to delete.                                          *)
DeletableButConditions(major) == Terminal(major) \/ major = expr
Deletable(major) == Terminal(major) \/ major \in {expr, bool_expr}
Deleted(entries) == UNION {e.minor.owns : e \in {entries[k] : k \in {j \in DOMAIN entries : Deletable(entries[j].major)}}}

-----------------------------------------------------------------------------
BottomUnset == [stateno |-> 1, major |-> 0, minor |-> Nothing]
Bottom == [stateno |-> 0, major |-> 0, minor |-> Nothing]

ParserInit ==
  /\ session \in Sessions
  /\ text = <<>>
  /\ phase = "scan"
  /\ yymajor = 0
  /\ yyminor = Nothing
  /\ yystack = <<>>
  /\ yyerrcnt = 0
  /\ root = Nothing
  /\ parse_errors = 0
  /\ heap = {}
  /\ made = 0
  /\ overflowed = FALSE

(* Parse() begins, on a stack that is set up again if it is empty.         *)
CallParse(major, minor) ==
  /\ phase' = "parse"
  /\ yymajor' = major
  /\ yyminor' = minor
  /\ heap' = heap \cup minor.owns
  /\ IF yystack = <<>> THEN yystack' = <<Bottom>> /\ yyerrcnt' = -1 ELSE UNCHANGED <<yystack, yyerrcnt>>
  /\ UNCHANGED <<session, root, parse_errors, made, overflowed>>

(* What may come next.                                                     *)
Following ==
  CASE Len(text) < Len(session.given) -> {session.given[Len(text) + 1]}
    [] Len(text) >= Len(session.given) /\ Len(text) < (IF parse_errors > 0 THEN session.faulty ELSE session.max)
         -> session.free
    [] OTHER -> {}

ScanToken ==
  /\ phase = "scan"
  /\ \E lexeme \in Following :
       /\ Known(lexeme)
       /\ text' = Append(text, lexeme)
       /\ CallParse(Major(lexeme), Minor(lexeme, Len(text) + 1))

ScanEnd ==
  /\ phase = "scan"
  /\ Len(text) >= Len(session.given)
  /\ CallParse(0, Nothing)
  /\ UNCHANGED text

(* A character no token begins with ends the scan, and nobody is told.     *)
ScanUnknown ==
  /\ phase = "scan"
  /\ \E lexeme \in Following :
       /\ ~ Known(lexeme)
       /\ text' = Append(text, lexeme)
  /\ phase' = "free"
  /\ UNCHANGED <<session, yymajor, yyminor, yystack, yyerrcnt, root, parse_errors, heap, made, overflowed>>

yyact == yy_find_shift_action(yystack[Len(yystack)].stateno, yymajor)

(* Where Parse() returns to.                                               *)
Return == IF yymajor = 0 THEN "free" ELSE "scan"

(* A stack that overflows is emptied; the token to be shifted is forgotten.*)
Shift ==
  /\ phase = "parse"
  /\ yyact < YYNSTATE
  /\ IF Len(yystack) < session.depth
     THEN /\ yystack' = Append(yystack, [stateno |-> yyact, major |-> yymajor, minor |-> yyminor])
          /\ UNCHANGED <<heap, overflowed>>
     ELSE /\ yystack' = <<>>
          /\ heap' = heap \ Deleted(yystack)
          /\ overflowed' = TRUE
  /\ yyerrcnt' = yyerrcnt - 1
  /\ phase' = Return
  /\ UNCHANGED <<session, text, yymajor, yyminor, root, parse_errors, made>>

(* A rule with nothing on its right-hand side does not exist, so what is   *)
(* pushed always finds room.  The keyword int where a number is expected   *)
(* has no Token to take the value from.                                    *)
Reduce ==
  LET r == yyact - YYNSTATE
      rest == SubSeq(yystack, 1, Len(yystack) - yyRuleInfo[r + 1][2])
      rhs == SubSeq(yystack, Len(rest) + 1, Len(yystack))
      m == [k \in DOMAIN rhs |-> rhs[k].minor]
      goto == yy_find_reduce_action(rest[Len(rest)].stateno, yyRuleInfo[r + 1][1])
  IN  /\ phase = "parse"
      /\ yyact \in YYNSTATE .. YY_ERROR_ACTION - 1
      /\ \/ /\ r = 2 /\ m[1] = Nothing
            /\ phase' = "crashed"
            /\ UNCHANGED <<yystack, root, parse_errors, heap, made>>
         \/ /\ ~ (r = 2 /\ m[1] = Nothing)
            /\ made' = IF MakesNode(r, m) THEN made + 1 ELSE made
            /\ root' = IF r = 1 THEN m[1] ELSE root
            /\ parse_errors' = IF Undeclared(r, m) THEN parse_errors + 1 ELSE parse_errors
            /\ IF goto < YYNSTATE
               THEN /\ yystack' = Append(rest, [stateno |-> goto, major |-> yyRuleInfo[r + 1][1], minor |-> LeftHandSide(r, m)])
                    /\ heap' = (heap \ DeletedByRule(r, rhs)) \cup NewNode(r, m)
                    /\ UNCHANGED phase
               ELSE /\ goto = YY_ACCEPT_ACTION
                    /\ yystack' = <<>>
                    /\ heap' = heap \ Deleted(rest)
                    /\ phase' = Return
      /\ UNCHANGED <<session, text, yymajor, yyminor, yyerrcnt, overflowed>>

(* A token in error is looked at no more. *)
AfterErrorRetry == IF yymajor = 0 THEN "free" ELSE "parse"
AfterError == Return

(* The token is thrown away; another error is not recorded before three    *)
(* tokens have been shifted.                                               *)
SyntaxError ==
  /\ phase = "parse"
  /\ yyact = YY_ERROR_ACTION
  /\ parse_errors' = IF yyerrcnt <= 0 THEN parse_errors + 1 ELSE parse_errors
  /\ yyerrcnt' = 3
  /\ IF yymajor = 0
     THEN yystack' = <<>> /\ heap' = heap \ Deleted(yystack)
     ELSE heap' = heap \ yyminor.owns /\ UNCHANGED yystack
  /\ phase' = AfterError
  /\ UNCHANGED <<session, text, yymajor, yyminor, root, made, overflowed>>

ParseFree ==
  /\ phase = "free"
  /\ yystack' = <<>>
  /\ heap' = heap \ Deleted(yystack)
  /\ phase' = "ready"
  /\ UNCHANGED <<session, text, yymajor, yyminor, yyerrcnt, root, parse_errors, made, overflowed>>

Construct == ScanToken \/ ScanEnd \/ ScanUnknown \/ Shift \/ Reduce \/ SyntaxError \/ ParseFree

=============================================================================
