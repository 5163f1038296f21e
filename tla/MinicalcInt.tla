----------------------------- MODULE MinicalcInt ----------------------------
(***************************************************************************)
(* The int of expressions: a number that does not fit wraps, whether it is *)
(* read from the text, handed over in a variable or computed.              *)
(***************************************************************************)
EXTENDS IntegerWidths

(* As many are negative as are not.                                        *)
ASSUME IntAssumption == Word % 2 = 0

ToInt(v) == LET m == v % Word IN IF m >= Word \div 2 THEN m - Word ELSE m

=============================================================================
