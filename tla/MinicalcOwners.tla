--------------------------- MODULE MinicalcOwners ---------------------------
(***************************************************************************)
(* Who owns the tokens and nodes on the heap while an expression is        *)
(* parsed, with its errors and its stack overflows, and what lemon's       *)
(* tables promise the driver that reads them.                              *)
(***************************************************************************)
EXTENDS MinicalcParser, FiniteSets

ParserSpec == ParserInit /\ [][Construct]_parser_vars

-----------------------------------------------------------------------------
(* What deletes the objects of the heap: a stack entry, the token being    *)
(* looked at, or the root of the MiniCalc.  While a text is accepted the   *)
(* root and the result on the stack are the same node.                     *)
Owners ==
  {yystack[k].minor.owns : k \in {j \in DOMAIN yystack : Deletable(yystack[j].major)}}
    \cup (IF phase = "parse" THEN {yyminor.owns} ELSE {}) \cup {root.owns}
OwnerCount(object) ==
  Cardinality({k \in DOMAIN yystack : Deletable(yystack[k].major) /\ object \in yystack[k].minor.owns})
    + (IF phase = "parse" /\ object \in yyminor.owns THEN 1 ELSE 0)
    + (IF object \in root.owns THEN 1 ELSE 0)

(* Nothing is deleted twice or used after it was deleted, whatever errors  *)
(* the parser recovers from: each owned object is alive and has one owner. *)
OwnedOnce == \A object \in UNION Owners : object \in heap /\ OwnerCount(object) = 1

(* After the constructor the MiniCalc owns every node there is.  Only the  *)
(* arguments of calls that were refused have been forgotten.               *)
Nodes == {object \in heap : object[1] = "node"}
HasCall == \E k \in 1 .. Len(text) - 1 : text[k] \in Identifiers /\ text[k + 1] = "("
OnlyKnownLeaks ==
  (phase = "ready" /\ (parse_errors = 0 \/ ~ HasCall)) => Nodes \subseteq root.owns

-----------------------------------------------------------------------------
(* The tables and the rules.  What is assumed of them has no parameter:    *)
(* that TLC finds it true settles it for the tables there are.             *)

(* The symbols on the right-hand side of rule r are RightHandSide[r + 1].  *)
RightHandSide == <<
  <<32>>, <<expr>>, <<19>>, <<expr, 9, expr>>, <<expr, 11, expr>>, <<expr, 12, expr>>,
  <<expr, 10, expr>>, <<expr, 13, expr>>, <<expr, 16, expr>>, <<10, expr>>, <<20>>,
  <<20, 21, expr, 22, expr, 23>>, <<20, 21, expr, 23>>, <<21, expr, 23>>, <<24>>, <<25>>,
  <<21, bool_expr, 23>>, <<expr, 3, expr>>, <<expr, 4, expr>>, <<expr, 5, expr>>, <<expr, 6, expr>>,
  <<expr, 7, expr>>, <<expr, 8, expr>>, <<15, bool_expr>>, <<bool_expr, 1, bool_expr>>,
  <<bool_expr, 2, bool_expr>>, <<26, 21, bool_expr, 22, expr, 22, expr, 23>>,
  <<19, 21, bool_expr, 23>>, <<27, 21, expr, 23>>>>
Rules == 0 .. YYNRULE - 1
Left(r) == yyRuleInfo[r + 1][1]
Calls == {11, 12}

(* The places of a rule whose objects go on into its left-hand side, or    *)
(* become the root.                                                        *)
Carried(r) ==
  CASE r \in {0, 1}   -> {1}
    [] r \in {13, 16} -> {2}
    [] r \in {27, 28} -> {3}
    [] OTHER          -> Children(r)

(* They are the nonterminals: a rule deletes its terminals and keeps the   *)
(* rest.                                                                   *)
ASSUME RulesFit ==
  \A r \in Rules :
    /\ Len(RightHandSide[r + 1]) = yyRuleInfo[r + 1][2]
    /\ Left(r) \in (IF r = 0 THEN {31} ELSE IF r = 1 THEN {32} ELSE {expr, bool_expr})
    /\ Carried(r) \subseteq 1 .. yyRuleInfo[r + 1][2]
    /\ \A k \in 1 .. yyRuleInfo[r + 1][2] :
         IF k \in Carried(r) THEN RightHandSide[r + 1][k] \in {expr, bool_expr, 32} ELSE Terminal(RightHandSide[r + 1][k])

(* The rules state s is within are in Within[s + 1]: <<r, d>> if the d     *)
(* symbols on top of the stack are the first ones of rule r.               *)
Arithmetic == (3 .. 8) \X {1}
AnyOperator == Arithmetic \cup ((17 .. 22) \X {1})
Logic == {24, 25} \X {1}
Within == <<
  {}, {<<25, 2>>}, {<<23, 1>>}, {<<24, 2>>}, {<<13, 1>>, <<16, 1>>}, {<<26, 2>>}, {<<27, 2>>},
  {<<26, 6>>}, {<<26, 4>>}, {<<28, 2>>}, {<<22, 2>>}, {<<21, 2>>}, {<<20, 2>>}, {<<19, 2>>},
  {<<18, 2>>}, {<<17, 2>>}, {<<13, 1>>}, {<<11, 4>>}, {<<11, 2>>, <<12, 2>>}, {<<9, 1>>},
  {<<8, 2>>}, {<<7, 2>>}, {<<6, 2>>}, {<<5, 2>>}, {<<4, 2>>}, {<<3, 2>>},
  {<<13, 2>>} \cup AnyOperator, AnyOperator, {<<11, 3>>, <<12, 3>>} \cup Arithmetic,
  {<<26, 7>>} \cup Arithmetic, {<<26, 5>>} \cup Arithmetic, {<<28, 3>>} \cup Arithmetic,
  {<<13, 2>>} \cup Arithmetic, {<<11, 5>>} \cup Arithmetic, {<<22, 3>>} \cup Arithmetic,
  {<<21, 3>>} \cup Arithmetic, {<<20, 3>>} \cup Arithmetic, {<<19, 3>>} \cup Arithmetic,
  {<<18, 3>>} \cup Arithmetic, {<<17, 3>>} \cup Arithmetic, {<<1, 1>>} \cup Arithmetic,
  {<<3, 3>>} \cup Arithmetic, {<<6, 3>>} \cup Arithmetic, {<<27, 3>>} \cup Logic,
  {<<26, 3>>} \cup Logic, {<<16, 2>>} \cup Logic, {<<24, 3>>} \cup Logic, {<<25, 3>>} \cup Logic,
  {<<28, 1>>}, {<<26, 1>>}, {<<10, 1>>, <<11, 1>>, <<12, 1>>}, {<<9, 2>>} \cup Arithmetic,
  {<<7, 3>>} \cup Arithmetic, {<<5, 3>>} \cup Arithmetic, {<<4, 3>>} \cup Arithmetic,
  {<<2, 1>>, <<27, 1>>}, {<<0, 1>>}, {<<27, 4>>}, {<<12, 4>>}, {<<26, 8>>}, {<<28, 4>>},
  {<<23, 2>>} \cup Logic, {<<16, 3>>}, {<<15, 1>>}, {<<14, 1>>}, {<<13, 3>>}, {<<11, 6>>},
  {<<8, 3>>} \cup Arithmetic>>

(* The assertions of yy_find_reduce_action.                                *)
HasGoto(stateno, lookahead) ==
  /\ stateno + 1 \in DOMAIN yy_reduce_ofst
  /\ yy_reduce_ofst[stateno + 1] + lookahead + 1 \in DOMAIN yy_action
  /\ yy_lookahead[yy_reduce_ofst[stateno + 1] + lookahead + 1] = lookahead

(* Behind state from and a symbol, state to is within the rules from was   *)
(* within, one symbol further; a rule that begins has somewhere to go on.  *)
Continues(from, major, to) ==
  \A item \in Within[to + 1] :
    /\ RightHandSide[item[1] + 1][item[2]] = major
    /\ IF item[2] = 1 THEN HasGoto(from, Left(item[1])) ELSE <<item[1], item[2] - 1>> \in Within[from + 1]

(* The tables do what they should: what is shifted continues rules, what   *)
(* is reduced is at its end, and so is what a rule that ends goes on to.   *)
(* Behind an identifier, where a call may begin, no token is an error.     *)
ASSUME TablesFit ==
  /\ Within \in [1 .. YYNSTATE -> SUBSET (Rules \X (1 .. 8))] /\ Within[1] = {}
  /\ \A s \in 0 .. YYNSTATE - 1 :
       /\ \A a \in 0 .. 27 :
            LET act == yy_find_shift_action(s, a)
            IN  \/ act \in 0 .. YYNSTATE - 1 /\ a # 0 /\ Continues(s, a, act)
                \/ /\ act \in YYNSTATE .. YY_ERROR_ACTION - 1
                   /\ <<act - YYNSTATE, yyRuleInfo[act - YYNSTATE + 1][2]>> \in Within[s + 1]
                \/ act = YY_ERROR_ACTION /\ \A r \in Calls : <<r, 1>> \notin Within[s + 1]
       /\ \A A \in 29 .. 32 :
            HasGoto(s, A) =>
              LET goto == yy_find_reduce_action(s, A)
              IN  \/ goto \in 0 .. YYNSTATE - 1 /\ Continues(s, A, goto)
                  \/ goto = YY_ACCEPT_ACTION /\ A = 31

(* The driver's assertions never fail, whatever was shifted, refused and   *)
(* emptied before: the end of the text is not shifted, a rule that is      *)
(* reduced lies on the stack as a whole, above its bottom, and what is     *)
(* below has a state to go on to.                                          *)
LiesOnTop(r) ==
  LET nrhs == yyRuleInfo[r + 1][2]
      below == Len(yystack) - nrhs
  IN  /\ below >= 1
      /\ \A j \in 1 .. nrhs : yystack[below + j].major = RightHandSide[r + 1][j]
      /\ HasGoto(yystack[below].stateno, Left(r))
      /\ LET goto == yy_find_reduce_action(yystack[below].stateno, Left(r))
         IN  goto \in 0 .. YYNSTATE - 1 \/ goto = YY_ACCEPT_ACTION
AssertionsHold ==
  phase = "parse" =>
    \/ yyact \in 0 .. YYNSTATE - 1 /\ yymajor # 0
    \/ yyact \in YYNSTATE .. YY_ERROR_ACTION - 1 /\ LiesOnTop(yyact - YYNSTATE)
    \/ yyact = YY_ERROR_ACTION

=============================================================================
