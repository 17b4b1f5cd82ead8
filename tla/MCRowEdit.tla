----------------------------- MODULE MCRowEdit -----------------------------
(* Two rows.  "d" is a time that is printed, and then stored, in the       *)
(* format of "e", whose time zone is lost in a query string; "f" is a      *)
(* float64 that fmt prints with an exponent, "F", and strconv without;     *)
(* "u" is of a Go type that formatAny does not know; the name of column a  *)
(* has a backtick in it.                                                   *)
EXTENDS RowEdit, TLC

MCCells == {"", "d", "e", "f", "u"}
MCText == {"", "e", "f", "F", "u", "<nil>"}
MCGoType == [v \in MCCells |-> CASE v = "u" -> "uint64"
                                 [] v = "f" -> "float64"
                                 [] OTHER -> "string"]
MCPrinted == [v \in MCCells |-> CASE v = "d" -> "e" [] v = "f" -> "F" [] OTHER -> v]
MCPlain == [v \in MCCells |-> IF v = "d" THEN "e" ELSE v]
MCStored == [t \in MCText |-> CASE t = "<nil>" -> "e" [] t = "F" -> "f" [] OTHER -> t]
MCLinkText == [t \in MCText |-> IF t = "e" THEN "" ELSE t]
MCUnquotable == [k \in Kinds |-> IF k = "mysql" THEN {"a"} ELSE {}]

(* Bounds: what the user types, and what others write. *)
MCTyped == {"e"}
MCTheirs == {"d", "e"}

Symmetry == Permutations(Rows)
=============================================================================
