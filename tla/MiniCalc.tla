------------------------------ MODULE MiniCalc ------------------------------
(***************************************************************************)
(* The expression language of format templates.  An expression is its      *)
(* syntax tree, as the parser builds it:                                   *)
(*   [op |-> "num", value |-> n]       [op |-> "var", name |-> v]          *)
(*   [op |-> f, arg |-> e]             f in UnaryOps                       *)
(*   [op |-> f, lhs |-> e, rhs |-> e]  f in BinaryOps                      *)
(*   [op |-> "if", cond |-> e, then |-> e, else |-> e]                     *)
(*   [op |-> "bad"]                    text that does not parse            *)
(* It is evaluated in int, which wraps (signed overflow is undefined in    *)
(* C++; the operations are compiled apart from their callers, so it is     *)
(* the hardware's addition and multiplication that happen).  Evaluation    *)
(* ends in a value, a runtime_error, or a trapped division.                *)
(***************************************************************************)
EXTENDS MinicalcInt, Sequences

ASSUME MiniCalcWidths == DWord >= Word

UnaryOps  == {"neg", "abs", "not"}
BinaryOps == {"add", "sub", "mul", "div", "mod", "pow", "next_multiple", "gcd", "lcm",
              "eq", "ne", "lt", "gt", "le", "ge", "and", "or"}

Value(v) == [kind |-> "value", v |-> ToInt(v)]
Error    == [kind |-> "error", v |-> 0]
Trap     == [kind |-> "trap",  v |-> 0]

Abs(v)    == IF v < 0 THEN -v ELSE v
Truth(b)  == IF b THEN 1 ELSE 0
(* C++ division truncates towards zero. *)
CDiv(a, b) == IF (a < 0) = (b < 0) THEN Abs(a) \div Abs(b) ELSE -(Abs(a) \div Abs(b))
CMod(a, b) == a - b * CDiv(a, b)
(* The divisions an x86 processor refuses: by zero, and the one overflow.  *)
DivTraps(a, b) == b = 0 \/ (a = -(Word \div 2) /\ b = -1)

PowInt(base, exponent) ==
  LET result[n \in 0 .. exponent] == IF n = 0 THEN 1 ELSE ToInt(result[n - 1] * base)
  IN  IF exponent > 0 THEN result[exponent] ELSE 1

(* Subtraction until both are equal; both start positive. *)
GcdIntOnce(lhs, rhs) ==
  CASE lhs > rhs -> lhs - rhs
    [] lhs < rhs -> rhs - lhs
    [] OTHER     -> lhs

RECURSIVE GcdInt(_, _)
GcdInt(lhs, rhs) ==
  CASE lhs > rhs -> GcdInt(lhs - rhs, rhs)
    [] lhs < rhs -> GcdInt(lhs, rhs - lhs)
    [] OTHER     -> lhs

LcmInt(lhs, rhs) == CDiv(ToInt(lhs * rhs), GcdInt(lhs, rhs))

NextMultiple(base, multiplier) ==
  LET raised == ToInt(base + ToInt(multiplier - 1))
  IN  IF DivTraps(raised, multiplier) THEN Trap ELSE Value(CDiv(raised, multiplier) * multiplier)

(* The comparisons and connectives.                                        *)
Holds(op, a, b) ==
  CASE op = "eq" -> a = b
    [] op = "ne" -> a # b
    [] op = "lt" -> a < b
    [] op = "gt" -> a > b
    [] op = "le" -> a <= b
    [] op = "ge" -> a >= b
    [] op = "and" -> a # 0 /\ b # 0
    [] op = "or"  -> a # 0 \/ b # 0

ApplyUnary(op, a) ==
  CASE op = "neg" -> Value(-a)
    [] op = "abs" -> Value(Abs(a))
    [] op = "not" -> Value(Truth(a = 0))

ApplyBinary(op, a, b) ==
  CASE op = "add" -> Value(a + b)
    [] op = "sub" -> Value(a - b)
    [] op = "mul" -> Value(a * b)
    [] op = "div" -> CASE b = 0 -> Error [] b # 0 /\ DivTraps(a, b) -> Trap [] OTHER -> Value(CDiv(a, b))
    [] op = "mod" -> CASE b = 0 -> Error [] b # 0 /\ DivTraps(a, b) -> Trap [] OTHER -> Value(CMod(a, b))
    [] op = "pow" -> Value(PowInt(a, b))
    [] op = "next_multiple" -> NextMultiple(a, b)
    [] op = "gcd" -> IF a <= 0 \/ b <= 0 THEN Error ELSE Value(GcdInt(a, b))
    [] op = "lcm" -> IF a <= 0 \/ b <= 0 THEN Error ELSE Value(LcmInt(a, b))
    [] OTHER -> Value(Truth(Holds(op, a, b)))

(* vars maps the available variables to their uint64_t values.  A failing  *)
(* operand ends the evaluation; only the taken branch of an if is looked   *)
(* at.  (Should one operand throw and the other trap, the compiler's order *)
(* of evaluation decides; here the left one comes first.)                  *)
RECURSIVE EvaluateNode(_, _)
EvaluateNode(e, vars) ==
  CASE e.op = "num" -> Value(e.value)
    [] e.op = "var" -> IF e.name \in DOMAIN vars THEN Value(vars[e.name]) ELSE Error
    [] e.op \in UnaryOps ->
         LET a == EvaluateNode(e.arg, vars)
         IN  IF a.kind = "value" THEN ApplyUnary(e.op, a.v) ELSE a
    [] e.op \in BinaryOps ->
         LET a == EvaluateNode(e.lhs, vars)
             b == EvaluateNode(e.rhs, vars)
         IN  CASE a.kind # "value" -> a
               [] a.kind = "value" /\ b.kind # "value" -> b
               [] OTHER -> ApplyBinary(e.op, a.v, b.v)
    [] e.op = "if" ->
         LET c == EvaluateNode(e.cond, vars)
         IN  CASE c.kind # "value" -> c
               [] c.kind = "value" /\ c.v = 0 -> EvaluateNode(e.else, vars)
               [] OTHER -> EvaluateNode(e.then, vars)
    [] e.op = "bad" -> Error

(* minicalc_evaluate: the int, or -1 for any error, widened to uint64_t.   *)
Trapped == -1
MinicalcEvaluate(e, vars) ==
  LET r == EvaluateNode(e, vars)
  IN  CASE r.kind = "value" -> r.v % DWord
        [] r.kind = "error" -> DWord - 1
        [] r.kind = "trap"  -> Trapped

=============================================================================
