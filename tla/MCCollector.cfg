CONSTANTS
  Inst = {"a", "b"}
  Proc = {"all", "some"}
  Filtered = {"some"}
  Accepts <- MCAccepts
  Queries = 2
  MaxConns = 1
  Sick = {"b"}
  Discovery = "discovery"
  Nil = "nil"
SPECIFICATION Spec
INVARIANTS TypeOK AtMostOneLate
PROPERTIES RoundsGoOn Served
