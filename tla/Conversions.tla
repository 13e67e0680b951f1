---------------------------- MODULE Conversions ------------------------------
(***************************************************************************)
(* pkg/agent/data/conversions.go: from a cell of a query result to a field. *)
(*                                                                         *)
(* A cell is [kind, half, text]: its Go type, its number counted in halves  *)
(* (5 is two and a half) and its text, a word that may be in upper case or  *)
(* in quotes. The kinds "number" and "string" hold their number as decimal  *)
(* text: godror.Number, and a string of digits; "text" is a string that is  *)
(* no number, "int" a signed type or an unsigned one of at most 32 bits.    *)
(* The printed complaint about a type that is not handled is left out.      *)
(***************************************************************************)
EXTENDS Integers, TLC

CONSTANT Width  \* bits of an int64

(* The last two conjuncts are arithmetic that the provers do not have: they    *)
(* follow from the first two.                                               *)
ASSUME WidthAssumption == /\ Width \in Nat /\ Width > 1
                          /\ 2 ^ (Width - 1) \in Nat \ {0}
                          /\ 2 ^ Width = 2 * 2 ^ (Width - 1)

MinInt == -(2 ^ (Width - 1))
MaxInt == 2 ^ (Width - 1) - 1
Fits(n) == n \in MinInt..MaxInt

Empty == "empty"  \* the word of the empty text

IsText(t) == /\ t = [word |-> t.word, upper |-> t.upper, quoted |-> t.quoted]
             /\ t.upper \in BOOLEAN /\ t.quoted \in BOOLEAN

Plain(w) == [word |-> w, upper |-> FALSE, quoted |-> FALSE]
Cell(k, h) == [kind |-> k, half |-> h, text |-> Plain(Empty)]
Null == Cell("nil", 0)
TextCell(t) == [kind |-> "text", half |-> 0, text |-> t]

Integral == {"int", "uint64"}
Decimal == {"number", "string"}
Numeric == Integral \cup Decimal \cup {"float"}
IsCell(v) == v.half \in Int /\ IsText(v.text)
IsString(v) == v.kind \in {"string", "text"}

Whole(v) == v.half % 2 = 0
Truncate(h) == IF h >= 0 THEN h \div 2 ELSE -((-h) \div 2)
Saturate(n) == IF n < MinInt THEN MinInt ELSE IF n > MaxInt THEN MaxInt ELSE n
Wrap(n) == ((n - MinInt) % 2 ^ Width) + MinInt

(* A slip: a number out of range is cut to its low bits. *)
ParseIntWraps(v) ==
  IF v.kind \in Decimal /\ Whole(v) THEN Wrap(v.half \div 2) ELSE 0

(* strconv.ParseInt with its error ignored: the nearest limit when a number  *)
(* is out of range, zero for a fraction and for anything else.              *)
ParseInt(v) ==
  IF v.kind \in Decimal /\ Whole(v) THEN Saturate(v.half \div 2) ELSE 0

(* The possible results: int64 of a float that is out of range is left to    *)
(* the processor (the lowest number on amd64, the nearest one on arm64).    *)
convert2Int64(v) ==
  CASE v.kind \in Integral -> {Wrap(v.half \div 2)}
    [] v.kind = "float" -> LET n == Truncate(v.half)
                           IN IF Fits(n) THEN {n} ELSE {MinInt, Saturate(n)}
    [] v.kind \in Decimal \cup {"text"} -> {ParseInt(v)}
    [] OTHER -> {0}

(* In halves; the rounding of large numbers is left out. *)
convert2Float(v) == IF v.kind \in Numeric THEN v.half ELSE 0

(* Of the texts here strconv.ParseBool takes "1" and "true" for true; its     *)
(* other spellings, t, T, TRUE and True, are left out. A float is never true. *)
convert2Bool(v) == \/ v.kind \in Integral /\ v.half > 0
                   \/ v.kind \in Decimal /\ v.half = 2
                   \/ v.kind = "text" /\ v.text.word = "true"
                   \/ v.kind = "bool" /\ v.half # 0

convert2String(v) == CASE v.kind = "text" -> v.text
                       [] v.kind \in Numeric -> Plain(ToString(v.half))
                       [] OTHER -> Plain(Empty)
=============================================================================
