----------------------------- MODULE DataTable -------------------------------
(***************************************************************************)
(* From the rows of a query to its metrics: pkg/agent/data/table.go, with   *)
(* Query (oracle-instance.go:163-192), which fills the table, and what      *)
(* Validate accepts of its configuration (pkg/config/mainconfig.go:128-148). *)
(*                                                                         *)
(* Column names, labels and names of fields are texts. The database answers *)
(* with names in upper case and, if the query gives them so, in quotes; the *)
(* configuration writes them in lower case. The spaces that Transpose turns *)
(* into underscores are treated as upper case is.                          *)
(***************************************************************************)
EXTENDS Conversions, Sequences, FiniteSets, SequencesExt

CONSTANTS Configs,   \* the metrics configured: [labels, types, append, extra],
                     \* append being <<fieldtoappend>> or <<>>, and extra the
                     \* extra labels of the instance
          Headers,   \* the column names a query may answer with
          Cells(_),  \* what a column of that name may contain
          MaxRows    \* bound: rows of a result

Lower(t) == [word |-> t.word, upper |-> FALSE, quoted |-> t.quoted]
Unquote(t) == [word |-> t.word, upper |-> t.upper, quoted |-> FALSE]

(* A header is a sequence, and what stands below a column name are cells.   *)
ASSUME TableAssumption ==
  /\ MaxRows \in Nat
  /\ \A h \in Headers :
       /\ h \in Seq(ToSet(h))
       /\ \A j \in DOMAIN h : \A v \in Cells(Lower(Unquote(h[j]))) : IsCell(v)

VARIABLES cfg,     \* the metric's configuration
          pc,      \* "query", "scan", "metrics", "done", "error" or "panic"
          header,  \* dt.Header
          row,     \* dt.Row
          metrics  \* the metrics so far, one [tags, fields] for each row

vars == <<cfg, pc, header, row, metrics>>

-----------------------------------------------------------------------------
(* The configuration *)

Types == {"integer", "float", "bool", "string"}

(* A query with no field, or one of an unknown type, ends the program at    *)
(* its start.                                                              *)
Validate(c) == /\ DOMAIN c.types # {}
               /\ \A f \in DOMAIN c.types : c.types[f] \in Types

Init == /\ cfg \in {c \in Configs : Validate(c)}
        /\ pc = "query"
        /\ header = <<>> /\ row = <<>>
        /\ metrics = <<>>

-----------------------------------------------------------------------------
(* Query *)

SetHeader(h) == [j \in DOMAIN h |-> Lower(Unquote(h[j]))]

Columns == /\ pc = "query" /\ pc' = "scan"
           /\ \E h \in Headers : header' = SetHeader(h)
           /\ UNCHANGED <<cfg, row, metrics>>

Picks(D, S(_)) == {c \in [D -> UNION {S(d) : d \in D}] : \A d \in D : c[d] \in S(d)}

AppendEmptyRow == /\ pc = "scan" /\ Len(row) < MaxRows
                  /\ \E r \in Picks(DOMAIN header, LAMBDA j : Cells(header[j])) :
                       row' = Append(row, r)
                  /\ UNCHANGED <<cfg, pc, header, metrics>>

(* An error drops the table with the rows it has. *)
QueryError == /\ pc \in {"query", "scan"} /\ pc' = "error"
              /\ UNCHANGED <<cfg, header, row, metrics>>

RowsEnd == /\ pc = "scan" /\ pc' = "metrics"
           /\ UNCHANGED <<cfg, header, row, metrics>>

-----------------------------------------------------------------------------
(* GetMetrics *)

Places(h, t) == {j \in DOMAIN h : h[j] = t}
FirstOf(S) == CHOOSE j \in S : \A k \in S : j <= k
LastOf(S) == CHOOSE j \in S : \A k \in S : k <= j

Value == Plain("value")
Transposed == cfg.append # <<>>

PivotColumn == FirstOf(Places(header, cfg.append[1]))
ValueColumn == FirstOf(Places(header, Value))
Name(r) == Lower(convert2String(r[PivotColumn]))

(* Every name gets the type configured for the column "value", and none if  *)
(* there is no such type.                                                  *)
PivotTypes == [t \in {Name(row[i]) : i \in DOMAIN row} |->
                 IF Value \in DOMAIN cfg.types THEN cfg.types[Value] ELSE "none"]

(* A slip: the names in the order of the rows, the values in reverse. *)
TransposeReversed ==
  [header |-> SetHeader([i \in DOMAIN row |-> Name(row[i])]),
   row |-> << [i \in DOMAIN row |-> row[Len(row) + 1 - i][ValueColumn]] >>,
   types |-> PivotTypes]

(* One row: the names become the header, the values the cells. The quotes   *)
(* are taken off the header, not off the names that have a type.            *)
Transpose == [header |-> SetHeader([i \in DOMAIN row |-> Name(row[i])]),
              row |-> << [i \in DOMAIN row |-> row[i][ValueColumn]] >>,
              types |-> PivotTypes]

Table == IF Transposed THEN Transpose
         ELSE [header |-> header, row |-> row, types |-> cfg.types]

(* Of several columns with one name the last one counts. *)
Index(t) == LastOf(Places(Table.header, t))

Found(t) == Places(Table.header, t) # {}
Fields == {f \in DOMAIN Table.types : Found(f)}

(* len(tagIndexes) # len(Labels): a label is missing, or given twice.       *)
LabelsFound == /\ \A l \in ToSet(cfg.labels) : Found(l)
               /\ Cardinality(ToSet(cfg.labels)) = Len(cfg.labels)

Transposable == Transposed => /\ Places(header, cfg.append[1]) # {}
                              /\ Places(header, Value) # {}

Usable == Transposable /\ LabelsFound /\ Fields # {}

(* No column to transpose by, no label or no field: no metric of this query. *)
TableError == /\ pc = "metrics" /\ ~Usable
              /\ pc' = "error"
              /\ UNCHANGED <<cfg, header, row, metrics>>

(* The field of each type; metric.New leaves out a value that is nil.       *)
Convert(type, v) ==
  CASE type = "integer" -> {<<type, n>> : n \in convert2Int64(v)}
    [] type = "float" -> {<<type, convert2Float(v)>>}
    [] type = "bool" -> {<<type, convert2Bool(v)>>}
    [] type = "string" -> {<<type, convert2String(v)>>}
    [] OTHER -> {<<"none">>}

Current == Table.row[Len(metrics) + 1]
Working == pc = "metrics" /\ Usable /\ Len(metrics) < Len(Table.row)

(* A slip: the extra labels go over the labels of the query. *)
TagsExtraLast(r) == [l \in ToSet(cfg.labels) \cup DOMAIN cfg.extra |->
                       IF l \in DOMAIN cfg.extra THEN cfg.extra[l] ELSE r[Index(l)].text]

(* The labels of the query go over the extra labels of the instance. *)
Tags(r) == [l \in ToSet(cfg.labels) \cup DOMAIN cfg.extra |->
              IF l \in ToSet(cfg.labels) THEN r[Index(l)].text ELSE cfg.extra[l]]

Metric ==
  /\ Working
  /\ \A l \in ToSet(cfg.labels) : IsString(Current[Index(l)])
  /\ \E fields \in Picks(Fields, LAMBDA f : Convert(Table.types[f], Current[Index(f)])) :
       metrics' = Append(metrics, [tags |-> Tags(Current), fields |-> fields])
  /\ UNCHANGED <<cfg, pc, header, row>>

(* The type assertion of a label column: a NULL or a number ends the program. *)
Panic == /\ Working
         /\ \E l \in ToSet(cfg.labels) : ~IsString(Current[Index(l)])
         /\ pc' = "panic"
         /\ UNCHANGED <<cfg, header, row, metrics>>

Done == /\ pc = "metrics" /\ Usable
        /\ Len(metrics) = Len(Table.row)
        /\ pc' = "done"
        /\ UNCHANGED <<cfg, header, row, metrics>>

Next == \/ Columns \/ AppendEmptyRow \/ QueryError \/ RowsEnd
        \/ TableError \/ Metric \/ Panic \/ Done

Spec == Init /\ [][Next]_vars

-----------------------------------------------------------------------------
(* Properties *)

(* The cell a reader of the configuration expects in field f of metric i.   *)
Source(i, f) ==
  IF Transposed THEN row[LastOf({k \in DOMAIN row : Unquote(Name(row[k])) = f})][ValueColumn]
  ELSE row[i][LastOf(Places(header, f))]

(* A query with fieldtoappend gives one metric, with a field for every name  *)
(* in that column that is written without quotes; and a field holds the     *)
(* value that stands beside its name, the last one if the name is repeated. *)
Pivoted ==
  pc = "done" /\ Transposed =>
    /\ Len(metrics) = 1
    /\ DOMAIN metrics[1].fields = {t \in {Name(row[k]) : k \in DOMAIN row} : ~t.quoted}
    /\ Value \in DOMAIN cfg.types =>
         \A f \in DOMAIN metrics[1].fields :
           metrics[1].fields[f] \in Convert(cfg.types[Value], Source(1, f))

(* An integer field is an int64: a whole number that fits is the same however *)
(* the driver represents it, and one given as text never changes its sign.   *)
NumbersKept ==
  \A i \in DOMAIN metrics : \A f \in DOMAIN metrics[i].fields :
    LET field == metrics[i].fields[f]
        v == Source(i, f)
    IN field[1] = "integer" =>
         /\ Fits(field[2])
         /\ v.kind \in Numeric /\ Whole(v) /\ Fits(v.half \div 2) => field[2] = v.half \div 2
         /\ v.kind \in Decimal => field[2] * v.half >= 0

(* A query without fieldtoappend gives a metric for every row, tagged with   *)
(* all its labels, with those of that row; and the extra labels of the      *)
(* instance are on each, unless the query has a label of that name.         *)
TagsComplete ==
  ~Transposed =>
    /\ pc = "done" => Len(metrics) = Len(row)
    /\ \A i \in DOMAIN metrics :
         LET tags == metrics[i].tags
         IN /\ DOMAIN tags = ToSet(cfg.labels) \cup DOMAIN cfg.extra
            /\ \A l \in ToSet(cfg.labels) : \E j \in Places(header, l) : tags[l] = row[i][j].text
            /\ \A l \in DOMAIN cfg.extra \ ToSet(cfg.labels) : tags[l] = cfg.extra[l]
=============================================================================
