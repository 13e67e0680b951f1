---------------------------- MODULE MCDataTable ------------------------------
(* Queries with and without fieldtoappend over the columns name and value,  *)
(* with numbers of every representation around the limits of four bits.     *)
EXTENDS DataTable

Upper(t) == [t EXCEPT !.upper = TRUE]
Quoted(t) == [t EXCEPT !.quoted = TRUE]
NameCol == Plain("name")
A == Plain("a")

MCHeaders == {<<>>, <<Upper(Value)>>, <<Upper(NameCol), Upper(Value)>>,
              <<Quoted(NameCol), Upper(NameCol)>>}

MCCells(t) ==
  IF t = Value
  THEN {Cell("number", 6), Cell("number", 5), Cell("number", 18), Cell("string", -20),
        Cell("int", -6), Cell("uint64", 18), Cell("float", -5), Cell("float", 18), Null}
  ELSE {TextCell(A), TextCell(Upper(A)), TextCell(Quoted(A)), TextCell(Plain("true")), Null}

MCTypes == {Value :> ty : ty \in Types \cup {"date"}}
           \cup {NameCol :> "string", A :> "bool", (NameCol :> "bool") @@ (Value :> "integer")}
MCAppends == {<<>>, <<NameCol>>, <<A>>}
MCLabels == {<<>>, <<NameCol>>, <<NameCol, NameCol>>, <<A>>}
MCExtra == (NameCol :> Plain("x")) @@ (Plain("host") :> Plain("h"))

MCConfigs == [labels : MCLabels, types : MCTypes, append : MCAppends, extra : {MCExtra}]
=============================================================================
