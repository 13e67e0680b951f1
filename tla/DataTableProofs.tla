-------------------------- MODULE DataTableProofs -----------------------------
(***************************************************************************)
(* Theorems of DataTable and Conversions, for every configuration, whatever  *)
(* and however many the columns and rows of a result, and for integers of    *)
(* any width.                                                              *)
(***************************************************************************)
EXTENDS DataTable, SlicesProofs

-----------------------------------------------------------------------------
(* Conversions *)

LEMMA Powers == /\ MinInt \in Int /\ MaxInt \in Int /\ MinInt < 0 /\ MaxInt >= 0
                /\ 2 ^ Width \in Nat /\ 2 ^ Width = MaxInt - MinInt + 1
  BY WidthAssumption DEF MinInt, MaxInt

(* int64 of a number that fits is that number, of any other one a number that fits. *)
LEMMA WrapFits ==
  ASSUME NEW n \in Int
  PROVE  Fits(Wrap(n)) /\ (Fits(n) => Wrap(n) = n)
  <1> DEFINE m == MinInt  w == 2 ^ Width
  <1>1. m \in Int /\ w \in Nat /\ w > 0 /\ MaxInt = m + w - 1
    BY Powers
  <1>2. Wrap(n) = ((n - m) % w) + m /\ \A k : Fits(k) <=> k \in m..(m + w - 1)
    BY <1>1 DEF Wrap, Fits
  <1> HIDE DEF m, w
  <1>3. (n - m) % w \in 0..(w - 1)
    BY <1>1
  <1>4. 0 <= n - m /\ n - m < w => (n - m) % w = n - m
    BY <1>1
  <1> QED
    BY <1>1, <1>2, <1>3, <1>4

LEMMA SaturateFits ==
  ASSUME NEW n \in Int
  PROVE  /\ Fits(Saturate(n)) /\ (Fits(n) => Saturate(n) = n)
         /\ (n >= 0 => Saturate(n) >= 0) /\ (n <= 0 => Saturate(n) <= 0)
  BY Powers DEF Saturate, Fits

LEMMA Halves ==
  ASSUME NEW h \in Int
  PROVE  /\ h \div 2 \in Int /\ Truncate(h) \in Int
         /\ (h % 2 = 0 => Truncate(h) = h \div 2)
         /\ (h >= 0 => h \div 2 >= 0) /\ (h <= 0 => h \div 2 <= 0)
  BY DEF Truncate

LEMMA SameSign ==
  ASSUME NEW a \in Int, NEW b \in Int, (a >= 0 /\ b >= 0) \/ (a <= 0 /\ b <= 0)
  PROVE  a * b >= 0
  OBVIOUS

(* What NumbersKept asks of a field, for one cell. *)
LEMMA Int64 ==
  ASSUME NEW v, v.half \in Int, NEW n \in convert2Int64(v)
  PROVE  /\ Fits(n)
         /\ v.kind \in Numeric /\ Whole(v) /\ Fits(v.half \div 2) => n = v.half \div 2
         /\ v.kind \in Decimal => n * v.half >= 0
  <1>0. Fits(0) /\ Fits(MinInt)
    BY Powers DEF Fits
  <1> DEFINE h == v.half
             q == h \div 2
  <1>1. /\ h \in Int /\ q \in Int /\ Truncate(h) \in Int
        /\ (h % 2 = 0 => Truncate(h) = q)
        /\ (h >= 0 => q >= 0) /\ (h <= 0 => q <= 0)
    BY Halves
  <1>2. ParseInt(v) = IF v.kind \in Decimal /\ h % 2 = 0 THEN Saturate(q) ELSE 0
    BY DEF ParseInt, Whole
  <1>3. /\ Fits(Wrap(q)) /\ (Fits(q) => Wrap(q) = q)
        /\ Fits(Saturate(q)) /\ (Fits(q) => Saturate(q) = q)
        /\ (q >= 0 => Saturate(q) >= 0) /\ (q <= 0 => Saturate(q) <= 0)
        /\ Saturate(q) \in Int /\ Fits(Saturate(Truncate(h)))
    BY <1>1, WrapFits, SaturateFits DEF Fits
  <1>4. Whole(v) <=> h % 2 = 0
    BY DEF Whole
  <1> HIDE DEF h, q
  <1>5. CASE v.kind \in Integral
    <2>1. n = Wrap(q)
      BY <1>5 DEF convert2Int64, Integral, Decimal, h, q
    <2> QED
      BY <1>3, <1>5, <2>1 DEF Integral, Decimal, h, q
  <1>6. CASE v.kind = "float"
    <2>1. n \in IF Fits(Truncate(h)) THEN {Truncate(h)} ELSE {MinInt, Saturate(Truncate(h))}
      BY <1>6 DEF convert2Int64, Integral, Decimal, h
    <2> QED
      BY <1>0, <1>1, <1>3, <1>4, <1>6, <2>1 DEF Decimal, h, q
  <1>7. CASE v.kind \in Decimal
    <2>1. n = ParseInt(v)
      BY <1>7 DEF convert2Int64, Integral, Decimal
    <2>2. Fits(n) /\ (h % 2 = 0 /\ Fits(q) => n = q)
      BY <1>0, <1>2, <1>3, <1>7, <2>1
    <2>3. n \in Int /\ ((n >= 0 /\ h >= 0) \/ (n <= 0 /\ h <= 0))
      BY <1>1, <1>2, <1>3, <1>7, <2>1
    <2>4. n * h >= 0
      BY <1>1, <2>3, SameSign
    <2> QED
      BY <1>4, <2>2, <2>4 DEF h, q
  <1>8. CASE v.kind \notin Numeric
    <2>1. n = 0
      BY <1>2, <1>8 DEF convert2Int64, Numeric, Integral, Decimal
    <2> QED
      BY <1>0, <1>8, <2>1 DEF Numeric
  <1> QED
    BY <1>5, <1>6, <1>7, <1>8 DEF Numeric

-----------------------------------------------------------------------------
(* The operators of the table *)

(* A set of numbers up to n that is not empty has a greatest element. *)
LEMMA GreatestElement ==
  ASSUME NEW n \in Nat, NEW S \in SUBSET (1..n), S # {}
  PROVE  LastOf(S) \in S
  <1> DEFINE R == {n - j : j \in S}
  <1>1. R \in SUBSET Nat /\ R # {}
    <2>1. \A j \in S : n - j \in Nat
      OBVIOUS
    <2> QED
      BY <2>1
  <1>2. PICK m \in R : \A k \in R : m <= k
    BY <1>1, LeastElement
  <1>3. PICK j \in S : m = n - j
    BY <1>2
  <1>4. \A k \in S : k <= j
    BY <1>2, <1>3
  <1> QED
    BY <1>4 DEF LastOf

LEMMA FirstElement ==
  ASSUME NEW S \in SUBSET Nat, S # {}
  PROVE  FirstOf(S) \in S
  BY LeastElement DEF FirstOf

LEMMA Record ==
  ASSUME NEW w, NEW u \in BOOLEAN, NEW q \in BOOLEAN
  PROVE  IsText([word |-> w, upper |-> u, quoted |-> q])
  <1> DEFINE t == [word |-> w, upper |-> u, quoted |-> q]
  <1>1. t.word = w /\ t.upper = u /\ t.quoted = q
    OBVIOUS
  <1> QED
    BY <1>1, Zenon DEF IsText

(* The two steps from a name to a column name, on texts. *)
LEMMA Texts ==
  ASSUME NEW t, IsText(t)
  PROVE  /\ IsText(Lower(t)) /\ IsText(Unquote(t))
         /\ ~Lower(t).upper /\ ~Unquote(t).quoted
         /\ Lower(t).quoted = t.quoted /\ Unquote(t).upper = t.upper
         /\ (~t.upper => Lower(t) = t) /\ (~t.quoted => Unquote(t) = t)
  <1>1. /\ t = [word |-> t.word, upper |-> t.upper, quoted |-> t.quoted]
        /\ t.upper \in BOOLEAN /\ t.quoted \in BOOLEAN
    BY DEF IsText
  <1>2. IsText(Lower(t)) /\ IsText(Unquote(t))
    <2>1. FALSE \in BOOLEAN
      OBVIOUS
    <2> QED
      BY <1>1, <2>1, Record, Zenon DEF Lower, Unquote
  <1>3. /\ ~Lower(t).upper /\ Lower(t).quoted = t.quoted
        /\ ~Unquote(t).quoted /\ Unquote(t).upper = t.upper
    BY DEF Lower, Unquote
  <1>4. ~t.upper => Lower(t) = t
    <2> SUFFICES ASSUME ~t.upper PROVE Lower(t) = t
      OBVIOUS
    <2>1. t.upper = FALSE
      BY <1>1
    <2> QED
      BY <1>1, <2>1, Zenon DEF Lower
  <1>5. ~t.quoted => Unquote(t) = t
    <2> SUFFICES ASSUME ~t.quoted PROVE Unquote(t) = t
      OBVIOUS
    <2>1. t.quoted = FALSE
      BY <1>1
    <2> QED
      BY <1>1, <2>1, Zenon DEF Unquote
  <1> QED
    BY <1>2, <1>3, <1>4, <1>5

LEMMA NameText ==
  ASSUME NEW v, IsText(v.text)
  PROVE  IsText(Lower(convert2String(v))) /\ ~Lower(convert2String(v)).upper
  <1>1. \A w : IsText(Plain(w))
    BY DEF IsText, Plain
  <1>2. convert2String(v) = v.text \/ \E w : convert2String(v) = Plain(w)
    BY DEF convert2String
  <1> QED
    BY <1>1, <1>2, Texts

-----------------------------------------------------------------------------
(* The rows of a result are sequences of cells, one for each column.        *)
Result == Picks(DOMAIN header, LAMBDA j : Cells(header[j]))

Shape == /\ pc \in {"query", "scan", "metrics", "done", "error", "panic"}
         /\ header \in Seq(ToSet(header))
         /\ \A j \in DOMAIN header : \A v \in Cells(header[j]) : IsCell(v)
         /\ row \in Seq(Result)
         /\ pc = "query" => row = <<>>
         /\ pc \in {"query", "scan"} => metrics = <<>>

(* What makes the properties inductive: the metrics so far are those of the   *)
(* first rows of the table, field by field, and the table is one that has    *)
(* its columns.                                                            *)
Converted(r) == Picks(Fields, LAMBDA f : Convert(Table.types[f], r[Index(f)]))

Made == /\ metrics \in Seq(ToSet(metrics))
        /\ metrics # <<>> => Usable
        /\ \A i \in DOMAIN metrics : /\ i \in DOMAIN Table.row
                                     /\ metrics[i].tags = Tags(Table.row[i])
                                     /\ metrics[i].fields \in Converted(Table.row[i])

Finished == pc = "done" => Usable /\ Len(metrics) = Len(Table.row)

Inv == Shape /\ Made /\ Finished

LEMMA OwnElements ==
  ASSUME NEW S, NEW s \in Seq(S)
  PROVE  s \in Seq(ToSet(s))
  <1>1. Len(s) \in Nat /\ s = [i \in 1..Len(s) |-> s[i]] /\ DOMAIN s = 1..Len(s)
    OBVIOUS
  <1>2. \A i \in 1..Len(s) : s[i] \in ToSet(s)
    BY <1>1 DEF ToSet
  <1> QED
    BY <1>1, <1>2

LEMMA Appended ==
  ASSUME NEW s, s \in Seq(ToSet(s)), NEW e
  PROVE  LET t == Append(s, e)
         IN /\ t \in Seq(ToSet(t)) /\ DOMAIN t = 1..(Len(s) + 1) /\ Len(s) \in Nat
            /\ \A i \in DOMAIN s : t[i] = s[i]
            /\ t[Len(s) + 1] = e /\ DOMAIN s = 1..Len(s)
  <1> DEFINE S == ToSet(s) \cup {e}
  <1>1. s \in Seq(S) /\ e \in S
    OBVIOUS
  <1> HIDE DEF S
  <1>2. Append(s, e) \in Seq(S)
    BY <1>1
  <1>3. Append(s, e) \in Seq(ToSet(Append(s, e)))
    BY <1>2, OwnElements
  <1> QED
    BY <1>1, <1>2, <1>3

LEMMA TableRow ==
  ASSUME Shape
  PROVE  Len(Table.row) \in Nat /\ DOMAIN Table.row = 1..Len(Table.row)
  <1>1. row \in Seq(Result)
    BY DEF Shape
  <1>2. CASE Transposed
    <2>1. \E x : Table.row = <<x>>
      BY <1>2 DEF Table, Transpose
    <2> QED
      BY <2>1
  <1>3. CASE ~Transposed
    <2>1. Table.row = row
      BY <1>3 DEF Table
    <2> QED
      BY <1>1, <2>1
  <1> QED
    BY <1>2, <1>3

LEMMA TableKept ==
  ASSUME UNCHANGED <<cfg, header, row>>
  PROVE  /\ Table' = Table /\ Usable' = Usable /\ Result' = Result
         /\ \A r : Tags(r)' = Tags(r) /\ Converted(r)' = Converted(r)
  <1>1. Table' = Table
    BY DEF Table, Transposed, Transpose, PivotTypes, ValueColumn, PivotColumn, Name
  <1>2. Fields' = Fields /\ \A t : Index(t)' = Index(t) /\ Found(t)' = Found(t)
    BY <1>1 DEF Fields, Index, Found
  <1>3. Usable' = Usable
    BY <1>2 DEF Usable, Transposable, Transposed, LabelsFound
  <1>4. Result' = Result
    BY DEF Result, Picks
  <1>5. \A r : Tags(r)' = Tags(r) /\ Converted(r)' = Converted(r)
    BY <1>1, <1>2 DEF Tags, Converted, Picks
  <1> QED
    BY <1>1, <1>3, <1>4, <1>5

LEMMA InvInit == Init => Inv
  BY DEF Init, Inv, Shape, Made, Finished, ToSet

LEMMA InvNext == Inv /\ Next => Inv'
  <1> SUFFICES ASSUME Inv, Next PROVE Inv'
    OBVIOUS
  <1> USE DEF Inv
  <1>1. CASE Columns
    <2>1. PICK h \in Headers : header' = SetHeader(h)
      BY <1>1 DEF Columns
    <2>2. h \in Seq(ToSet(h)) /\ \A j \in DOMAIN h : \A v \in Cells(Lower(Unquote(h[j]))) : IsCell(v)
      BY TableAssumption
    <2>3. /\ DOMAIN header' = DOMAIN h
          /\ \A j \in DOMAIN h : header'[j] = Lower(Unquote(h[j]))
      BY <2>1 DEF SetHeader
    <2>4. header' \in Seq(ToSet(header'))
      BY <2>1, <2>2, <2>3 DEF SetHeader, ToSet
    <2>5. row' = <<>> /\ metrics' = <<>> /\ pc' = "scan"
      BY <1>1 DEF Columns, Shape
    <2>6. row' \in Seq(Result')
      BY <2>5
    <2> QED
      BY <2>2, <2>3, <2>4, <2>5, <2>6 DEF Shape, Made, Finished, ToSet
  <1>2. CASE AppendEmptyRow
    <2>1. PICK r \in Result : row' = Append(row, r)
      BY <1>2 DEF AppendEmptyRow, Result
    <2>2. UNCHANGED <<header, metrics, pc, cfg>> /\ pc = "scan" /\ metrics = <<>>
      BY <1>2 DEF AppendEmptyRow, Shape
    <2>3. Result' = Result
      BY <2>2 DEF Result, Picks
    <2>4. row' \in Seq(Result')
      BY <2>1, <2>3 DEF Shape
    <2> QED
      BY <2>2, <2>4 DEF Shape, Made, Finished, ToSet
  <1>3. CASE QueryError \/ RowsEnd \/ TableError \/ Panic \/ Done
    <2>1. UNCHANGED <<cfg, header, row, metrics>>
      BY <1>3 DEF QueryError, RowsEnd, TableError, Panic, Done
    <2>2. pc' \in {"metrics", "done", "error", "panic"} /\ (pc' = "done" => Done)
      BY <1>3 DEF QueryError, RowsEnd, TableError, Panic, Done
    <2>3. Shape'
      BY <2>1, <2>2, TableKept DEF Shape
    <2>4. Made' /\ (Usable' <=> Usable) /\ Table' = Table
      BY <2>1, TableKept DEF Made
    <2>5. Finished'
      BY <2>1, <2>2, <2>4 DEF Finished, Done
    <2> QED
      BY <2>3, <2>4, <2>5
  <1>4. CASE Metric
    <2>1. PICK fields \in Converted(Current) :
            metrics' = Append(metrics, [tags |-> Tags(Current), fields |-> fields])
      BY <1>4 DEF Metric, Converted
    <2>2. UNCHANGED <<cfg, pc, header, row>> /\ pc = "metrics" /\ Usable /\ Len(metrics) < Len(Table.row)
      BY <1>4 DEF Metric, Working
    <2>3. Shape'
      BY <2>2, TableKept DEF Shape
    <2> DEFINE n == Len(metrics) + 1
               m == [tags |-> Tags(Current), fields |-> fields]
    <2>4. /\ metrics' \in Seq(ToSet(metrics')) /\ DOMAIN metrics' = 1..n
          /\ n - 1 \in Nat /\ DOMAIN metrics = 1..(n - 1)
          /\ \A i \in DOMAIN metrics : metrics'[i] = metrics[i]
          /\ metrics'[n] = m
      BY <2>1, Appended DEF Made
    <2>5. n \in DOMAIN Table.row /\ Current = Table.row[n]
      BY <2>2, <2>4, TableRow DEF Current
    <2>6. ASSUME NEW i \in DOMAIN metrics'
          PROVE  /\ i \in DOMAIN Table.row
                 /\ metrics'[i].tags = Tags(Table.row[i])
                 /\ metrics'[i].fields \in Converted(Table.row[i])
      <3>1. CASE i = n
        BY <2>1, <2>4, <2>5, <3>1
      <3>2. CASE i # n
        <4>1. i \in DOMAIN metrics
          BY <2>4, <3>2
        <4> QED
          BY <2>4, <4>1 DEF Made
      <3> QED
        BY <3>1, <3>2
    <2>7. Made'
      BY <2>2, <2>4, <2>6, TableKept DEF Made
    <2>8. Finished'
      BY <2>2 DEF Finished
    <2> QED
      BY <2>3, <2>7, <2>8
  <1> QED
    BY <1>1, <1>2, <1>3, <1>4 DEF Next

LEMMA InvAlways == Spec => []Inv
  <1>1. Inv /\ UNCHANGED vars => Inv'
    <2> SUFFICES ASSUME Inv, UNCHANGED vars PROVE Inv'
      OBVIOUS
    <2>1. UNCHANGED <<cfg, header, row, metrics, pc>>
      BY DEF vars
    <2> QED
      BY <2>1, TableKept DEF Inv, Shape, Made, Finished
  <1>2. QED
    BY <1>1, InvInit, InvNext, PTL DEF Spec

-----------------------------------------------------------------------------
(* Where the cell of a field stands *)

LEMMA CellOf ==
  ASSUME Shape, NEW k \in DOMAIN row, NEW j \in DOMAIN header
  PROVE  IsCell(row[k][j])
  <1>1. row[k] \in Result
    BY DEF Shape
  <1>2. row[k][j] \in Cells(header[j])
    BY <1>1 DEF Result, Picks
  <1> QED
    BY <1>2 DEF Shape

(* The column fieldtoappend is there, and the one of the values.            *)
LEMMA Columned ==
  ASSUME Shape, Usable, Transposed
  PROVE  PivotColumn \in DOMAIN header /\ ValueColumn \in DOMAIN header
  <1>1. \A t : Places(header, t) \in SUBSET Nat
    BY DEF Shape, Places
  <1>2. Places(header, cfg.append[1]) # {} /\ Places(header, Value) # {}
    BY DEF Usable, Transposable
  <1>3. PivotColumn \in Places(header, cfg.append[1]) /\ ValueColumn \in Places(header, Value)
    BY <1>1, <1>2, FirstElement DEF PivotColumn, ValueColumn
  <1> QED
    BY <1>3 DEF Places

(* The header of a transposed table is made of its names, without quotes.    *)
LEMMA Names ==
  ASSUME Shape, Usable, Transposed
  PROVE  /\ DOMAIN Table.header = DOMAIN row
         /\ \A k \in DOMAIN row : /\ IsText(Name(row[k])) /\ ~Name(row[k]).upper
                                  /\ Table.header[k] = Unquote(Name(row[k]))
  <1>1. Table.header = SetHeader([i \in DOMAIN row |-> Name(row[i])])
    BY DEF Table, Transpose
  <1>2. /\ DOMAIN Table.header = DOMAIN row
        /\ \A k \in DOMAIN row : Table.header[k] = Lower(Unquote(Name(row[k])))
    BY <1>1 DEF SetHeader
  <1>3. ASSUME NEW k \in DOMAIN row
        PROVE  /\ IsText(Name(row[k])) /\ ~Name(row[k]).upper
               /\ Lower(Unquote(Name(row[k]))) = Unquote(Name(row[k]))
    <2>1. IsText(row[k][PivotColumn].text)
      BY CellOf, Columned DEF IsCell
    <2>2. IsText(Name(row[k])) /\ ~Name(row[k]).upper
      BY <2>1, NameText DEF Name
    <2> QED
      BY <2>2, Texts
  <1> QED
    BY <1>2, <1>3

(* Of the places of a name Index is one. *)
LEMMA IndexPlace ==
  ASSUME Shape, Usable, NEW t, Found(t)
  PROVE  Index(t) \in Places(Table.header, t)
  <1>1. \E n \in Nat : DOMAIN Table.header = 1..n
    <2>1. CASE Transposed
      BY <2>1, Names DEF Shape
    <2>2. CASE ~Transposed
      BY <2>2 DEF Shape, Table
    <2> QED
      BY <2>1, <2>2
  <1>2. PICK n \in Nat : Places(Table.header, t) \in SUBSET (1..n)
    BY <1>1 DEF Places
  <1> QED
    BY <1>2, GreatestElement DEF Found, Index

LEMMA SourceCell ==
  ASSUME Shape, Usable, NEW i \in DOMAIN Table.row, NEW f, Found(f)
  PROVE  Table.row[i][Index(f)] = Source(i, f) /\ IsCell(Source(i, f))
  <1>1. CASE Transposed
    <2>1. Places(Table.header, f) = {k \in DOMAIN row : Unquote(Name(row[k])) = f}
      BY <1>1, Names DEF Places
    <2>2. Index(f) \in DOMAIN row
      BY <2>1, IndexPlace
    <2>3. Source(i, f) = row[Index(f)][ValueColumn]
      BY <1>1, <2>1 DEF Source, Index
    <2>4. Table.row = << [k \in DOMAIN row |-> row[k][ValueColumn]] >>
      BY <1>1 DEF Table, Transpose
    <2>5. i = 1
      BY <2>4
    <2>6. Table.row[i][Index(f)] = row[Index(f)][ValueColumn]
      BY <2>2, <2>4, <2>5
    <2> QED
      BY <1>1, <2>2, <2>3, <2>6, CellOf, Columned
  <1>2. CASE ~Transposed
    <2>1. Table.row = row /\ Table.header = header
      BY <1>2 DEF Table
    <2>2. Source(i, f) = row[i][Index(f)]
      BY <1>2, <2>1 DEF Source, Index
    <2>3. Index(f) \in DOMAIN header
      BY <2>1, IndexPlace DEF Places
    <2> QED
      BY <2>1, <2>2, <2>3, CellOf
  <1> QED
    BY <1>1, <1>2

(* So the field f of metric i is the conversion of the cell that a reader of  *)
(* the configuration expects there.                                        *)
LEMMA FieldOf ==
  ASSUME Inv, NEW i \in DOMAIN metrics
  PROVE  /\ Usable /\ i \in DOMAIN Table.row /\ DOMAIN metrics[i].fields = Fields
         /\ \A f \in Fields : /\ metrics[i].fields[f] \in Convert(Table.types[f], Source(i, f))
                              /\ IsCell(Source(i, f))
  <1>1. metrics # <<>> /\ i \in DOMAIN Table.row /\ metrics[i].fields \in Converted(Table.row[i])
    BY DEF Inv, Made
  <1>2. Usable
    BY <1>1 DEF Inv, Made
  <1>3. /\ DOMAIN metrics[i].fields = Fields
        /\ \A f \in Fields :
             metrics[i].fields[f] \in Convert(Table.types[f], Table.row[i][Index(f)])
    BY <1>1 DEF Converted, Picks
  <1>4. \A f \in Fields : Table.row[i][Index(f)] = Source(i, f) /\ IsCell(Source(i, f))
    BY <1>1, <1>2, SourceCell DEF Inv, Fields
  <1> QED
    BY <1>1, <1>2, <1>3, <1>4

(* NumbersKept: an integer field is an int64 for every cell, the number of    *)
(* the cell whenever that fits, and of its sign if it is decimal text        *)
(* (conversions.go, table.go:196-204).                                      *)
THEOREM NumbersKeptHolds == Spec => []NumbersKept
  <1>1. Inv => NumbersKept
    <2> SUFFICES ASSUME Inv, NEW i \in DOMAIN metrics, NEW f \in DOMAIN metrics[i].fields,
                        metrics[i].fields[f][1] = "integer"
                 PROVE  LET n == metrics[i].fields[f][2]
                            v == Source(i, f)
                        IN /\ Fits(n)
                           /\ v.kind \in Numeric /\ Whole(v) /\ Fits(v.half \div 2)
                                => n = v.half \div 2
                           /\ v.kind \in Decimal => n * v.half >= 0
      BY DEF NumbersKept
    <2> DEFINE v == Source(i, f)
               field == metrics[i].fields[f]
    <2>1. field \in Convert(Table.types[f], v) /\ v.half \in Int
      BY FieldOf DEF IsCell
    <2>2. PICK n \in convert2Int64(v) : field = <<"integer", n>>
      BY <2>1 DEF Convert
    <2> QED
      BY <2>1, <2>2, Int64
  <1>2. QED
    BY <1>1, InvAlways, PTL

(* TagsComplete: a metric for every row, each with the labels of its own row  *)
(* over the extra labels of the instance (table.go:180-193).                *)
THEOREM TagsCompleteHolds == Spec => []TagsComplete
  <1>1. Inv => TagsComplete
    <2> SUFFICES ASSUME Inv, ~Transposed
                 PROVE  /\ pc = "done" => Len(metrics) = Len(row)
                        /\ \A i \in DOMAIN metrics :
                             LET tags == metrics[i].tags
                             IN /\ DOMAIN tags = ToSet(cfg.labels) \cup DOMAIN cfg.extra
                                /\ \A l \in ToSet(cfg.labels) :
                                     \E j \in Places(header, l) : tags[l] = row[i][j].text
                                /\ \A l \in DOMAIN cfg.extra \ ToSet(cfg.labels) :
                                     tags[l] = cfg.extra[l]
      BY DEF TagsComplete
    <2>1. Table.row = row /\ Table.header = header
      BY DEF Table
    <2>2. pc = "done" => Len(metrics) = Len(row)
      BY <2>1 DEF Inv, Finished
    <2>3. ASSUME NEW i \in DOMAIN metrics
          PROVE  LET tags == metrics[i].tags
                 IN /\ DOMAIN tags = ToSet(cfg.labels) \cup DOMAIN cfg.extra
                    /\ \A l \in ToSet(cfg.labels) :
                         \E j \in Places(header, l) : tags[l] = row[i][j].text
                    /\ \A l \in DOMAIN cfg.extra \ ToSet(cfg.labels) : tags[l] = cfg.extra[l]
      <3>1. metrics[i].tags = Tags(row[i]) /\ Usable
        BY <2>1, FieldOf DEF Inv, Made
      <3>2. \A l \in ToSet(cfg.labels) : Index(l) \in Places(header, l)
        BY <2>1, <3>1, IndexPlace DEF Inv, Usable, LabelsFound
      <3> QED
        BY <3>1, <3>2 DEF Tags
    <2> QED
      BY <2>2, <2>3
  <1>2. QED
    BY <1>1, InvAlways, PTL

(* Pivoted: transposed rows give one metric, whose fields are the names that  *)
(* are written without quotes, each with the value beside its last mention    *)
(* (table.go:79-136).                                                       *)
THEOREM PivotedHolds == Spec => []Pivoted
  <1>1. Inv => Pivoted
    <2> SUFFICES ASSUME Inv, pc = "done", Transposed
                 PROVE  /\ Len(metrics) = 1
                        /\ DOMAIN metrics[1].fields
                             = {t \in {Name(row[k]) : k \in DOMAIN row} : ~t.quoted}
                        /\ Value \in DOMAIN cfg.types =>
                             \A f \in DOMAIN metrics[1].fields :
                               metrics[1].fields[f] \in Convert(cfg.types[Value], Source(1, f))
      BY DEF Pivoted
    <2>1. \E x : Table.row = <<x>>
      BY DEF Table, Transpose
    <2>2. Len(metrics) = 1 /\ 1 \in DOMAIN metrics /\ Usable
      BY <2>1 DEF Inv, Finished, Made
    <2>3. /\ DOMAIN metrics[1].fields = Fields
          /\ \A f \in Fields : metrics[1].fields[f] \in Convert(Table.types[f], Source(1, f))
      BY <2>2, FieldOf
    <2> DEFINE names == {Name(row[k]) : k \in DOMAIN row}
    <2>4. /\ DOMAIN Table.types = names
          /\ \A f \in names : Value \in DOMAIN cfg.types => Table.types[f] = cfg.types[Value]
      BY DEF Table, Transpose, PivotTypes
    <2>5. \A t \in names : Found(t) <=> ~t.quoted
      <3> SUFFICES ASSUME NEW m \in DOMAIN row
                   PROVE  Found(Name(row[m])) <=> ~Name(row[m]).quoted
        OBVIOUS
      <3> DEFINE t == Name(row[m])
      <3>1. ASSUME Found(t) PROVE ~t.quoted
        <4>1. PICK k \in DOMAIN row : Unquote(Name(row[k])) = t
          BY <2>2, <3>1, Names DEF Inv, Found, Places
        <4> QED
          BY <2>2, <4>1, Names, Texts DEF Inv
      <3>2. ASSUME ~t.quoted PROVE Found(t)
        <4>1. Unquote(t) = t
          BY <2>2, <3>2, Names, Texts DEF Inv
        <4> QED
          BY <2>2, <4>1, Names DEF Inv, Found, Places
      <3> QED
        BY <3>1, <3>2
    <2>6. Fields = {t \in names : ~t.quoted}
      BY <2>4, <2>5 DEF Fields
    <2> QED
      BY <2>2, <2>3, <2>4, <2>6
  <1>2. QED
    BY <1>1, InvAlways, PTL
=============================================================================
