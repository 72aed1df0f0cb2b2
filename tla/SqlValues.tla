----------------------------- MODULE SqlValues ------------------------------
(***************************************************************************)
(* What becomes of a value between the script and SQLite and back          *)
(* (src/modules/store_convert.hpp, src/storage/database.cpp): the steps of *)
(* a transaction are decoded from JS objects before anything runs, their   *)
(* parameters bound to a statement that later steps of the same text use   *)
(* again, and the cells of the row encoded for the script.                 *)
(*                                                                         *)
(* The integers are the code's, scaled down: SafeMax for 2^53 - 1, IntMax  *)
(* for 2^63 - 1.  A run step inserts the row of its parameters, which the  *)
(* script reads back later, a query step is SELECT ?1, ?2; the columns     *)
(* have no affinity.  What a step expects of the rows it changes or reads  *)
(* is enforced in module Store.                                            *)
(***************************************************************************)
EXTENDS Integers, Sequences, FiniteSets, SequencesExt

CONSTANTS
  SafeMax, IntMax,
  Columns,   \* of each SQL text, the names of its columns: one for each ?
  Scripts    \* the calls of transaction(steps)

NoText == "none"
(* Numbers are integral, or n and a half; n is the length of a text.       *)
JsTypes == {"undefined", "null", "boolean", "object", "nan", "infinite",
            "number", "fraction", "bigint", "string", "bytes"}
Js(type, n) == [type |-> type, n |-> n]
Sql(type, n) == [type |-> type, n |-> n]
Null == Sql("null", 0)
NoValue == Sql("refused", 0)

(* What a script can write: n says something of some types only. *)
Numeric == {"number", "fraction", "bigint"}
Sized == {"string", "bytes"}
JsValue == [type : Numeric, n : Int] \cup [type : Sized, n : Nat]
           \cup [type : JsTypes \ (Numeric \cup Sized), n : {0}]
Expectations == {"exactly", "atLeast", "atMost"}
Limits == {"maxRows", "maxBytes"}
HasFields(object, names) == DOMAIN object \subseteq names /\ \A f \in DOMAIN object : object[f] \in JsValue
(* A step of a call; its expectedChanges are none or one object. *)
IsStep(o) ==
  /\ o.sql \in DOMAIN Columns \cup {NoText} /\ o.params \in Seq(JsValue)
  /\ \A fields \in o.expects : HasFields(fields, Expectations) /\ o.expects = {fields}
  /\ HasFields(o.limits, Limits)

(* What the constants are assumed to be. *)
SqlConstantsOK ==
  /\ SafeMax \in Nat /\ IntMax \in Nat
  /\ \A text \in DOMAIN Columns : Columns[text] \in Seq(STRING)
  /\ \A script \in Scripts : script \in Seq(ToSet(script)) /\ \A i \in DOMAIN script : IsStep(script[i])

VARIABLES
  asked,    \* the steps, as the script wrote them
  state,    \* decoding, running, done, refused or failed
  steps,    \* the steps decoded
  bindings, \* of each prepared statement
  results   \* of each step run, what it gives to the script

sqlVars == <<asked, state, steps, bindings, results>>

Cleared(sql) == [h \in DOMAIN Columns[sql] |-> Null]
SqlInit ==
  /\ asked \in Scripts /\ state = "decoding" /\ steps = <<>> /\ results = <<>>
  /\ bindings = [sql \in DOMAIN Columns |-> Cleared(sql)]

-----------------------------------------------------------------------------
IsNullish(v) == v.type \in {"undefined", "null"}
InSafeRange(n) == -SafeMax =< n /\ n =< SafeMax

(* A Number: an integer when it is integral and safe, else a real. *)
SqlNumber(v) ==
  IF v.type = "fraction" THEN Sql("real", v.n)
  ELSE IF InSafeRange(v.n) THEN Sql("integer", v.n) ELSE NoValue

(* JS_ToBigInt64 keeps the low bits. *)
Truncated(n) == ((n + IntMax + 1) % (2 * (IntMax + 1))) - (IntMax + 1)

(* Mutant: the bits kept are taken for the value. *)
BigIntUnchecked(v) == Sql("integer", Truncated(v.n))

(* A BigInt is compared with what was kept of it. *)
SqlBigInt(v) == IF Truncated(v.n) = v.n THEN Sql("integer", Truncated(v.n)) ELSE NoValue

(* An ArrayBuffer, or the part of one a TypedArray shows, is copied. *)
BlobFromJs(v) == Sql("blob", v.n)

SqlFromJs(v) ==
  CASE v.type = "null" -> Null
    [] v.type \in {"number", "fraction"} -> SqlNumber(v)
    [] v.type = "bigint" -> SqlBigInt(v)
    [] v.type = "string" -> Sql("text", v.n)
    [] v.type = "bytes" -> BlobFromJs(v)
    [] OTHER -> NoValue

(* maxRows, maxBytes and the bounds of expectedChanges. *)
SizeFromJs(v) == v.type = "number" /\ InSafeRange(v.n) /\ v.n >= 0

Given(fields) == {f \in DOMAIN fields : ~IsNullish(fields[f])}
StepType(o) == IF o.type = "absent" THEN "run" ELSE o.type

(* Exactly one of exactly, atLeast and atMost. *)
ExpectedFromJs(fields) ==
  /\ Cardinality(Given(fields)) = 1
  /\ \A f \in Given(fields) : SizeFromJs(fields[f])

(* Mutant: the fields of the other type are read and dropped. *)
AnyFields(o) == TRUE

(* Only a run step has expectedChanges, only a query step has limits. *)
FieldsFit(o) == IF StepType(o) = "query" THEN o.expects = {} ELSE Given(o.limits) = {}

StepDecodes(o) ==
  /\ o.sql # NoText /\ o.type \in {"absent", "run", "query"}
  /\ \A i \in DOMAIN o.params : SqlFromJs(o.params[i]) # NoValue
  /\ \A fields \in o.expects : ExpectedFromJs(fields)
  /\ \A f \in Given(o.limits) : SizeFromJs(o.limits[f])
  /\ FieldsFit(o)

StepFromJs(o) ==
  [sql |-> o.sql, type |-> StepType(o),
   params |-> [i \in DOMAIN o.params |-> SqlFromJs(o.params[i])]]

(* Store.transaction: all its steps are decoded before the call. *)
Decode ==
  /\ state = "decoding"
  /\ IF asked # <<>> /\ \A i \in DOMAIN asked : StepDecodes(asked[i])
     THEN state' = "running" /\ steps' = [i \in DOMAIN asked |-> StepFromJs(asked[i])]
     ELSE state' = "refused" /\ UNCHANGED steps
  /\ UNCHANGED <<asked, bindings, results>>

-----------------------------------------------------------------------------
(* sqlite3_bind_blob takes the null data pointer of an empty vector for    *)
(* SQL NULL; std::string has no such pointer.                              *)
BoundTo(value) == IF value = Sql("blob", 0) THEN Null ELSE value

IntegerToJs(n) == Js(IF InSafeRange(n) THEN "number" ELSE "bigint", n)
SqlToJs(value) ==
  CASE value.type = "null" -> Js("null", 0)
    [] value.type = "integer" -> IntegerToJs(value.n)
    [] value.type = "real" -> Js("fraction", value.n)
    [] value.type = "text" -> Js("string", value.n)
    [] value.type = "blob" -> Js("bytes", value.n)

(* A row is an object: of the columns of one name, the last is kept. *)
HoleOf(sql, column) == CHOOSE h \in DOMAIN Columns[sql] :
  Columns[sql][h] = column /\ \A k \in h + 1 .. Len(Columns[sql]) : Columns[sql][k] # column
RowToJs(sql, cells) == [c \in ToSet(Columns[sql]) |-> SqlToJs(cells[HoleOf(sql, c)])]

(* Mutant: the statement keeps what was bound to it. *)
KeepsBindings(sql, bound) == [bindings EXCEPT ![sql] = bound]

(* StatementReset: the statement is ready for the next step of its text. *)
ResetStatement(sql, bound) == [bindings EXCEPT ![sql] = Cleared(sql)]

(* A step binds its parameters, as many as it has: those the text has      *)
(* besides are what the statement holds, a surplus one is an error.        *)
ExecuteStep ==
  LET step == steps[Len(results) + 1]
      bound == [h \in DOMAIN Columns[step.sql] |->
                 IF h \in DOMAIN step.params THEN BoundTo(step.params[h]) ELSE bindings[step.sql][h]] IN
  /\ state = "running" /\ Len(results) < Len(steps)
  /\ bindings' = ResetStatement(step.sql, bound)
  /\ IF Len(step.params) > Len(Columns[step.sql])
     THEN state' = "failed" /\ results' = <<>>
     ELSE results' = Append(results, RowToJs(step.sql, bound)) /\ UNCHANGED state
  /\ UNCHANGED <<asked, steps>>

AnswerAll ==
  /\ state = "running" /\ Len(results) = Len(steps) /\ state' = "done"
  /\ UNCHANGED <<asked, steps, bindings, results>>

SqlNext == Decode \/ ExecuteStep \/ AnswerAll
SqlSpec == SqlInit /\ [][SqlNext]_sqlVars

-----------------------------------------------------------------------------
(* A step sees its own parameters: a ? it gives none for is NULL, though a *)
(* step before it bound a value to the same statement.                     *)
OwnParameters ==
  \A i \in DOMAIN results : \A c \in DOMAIN results[i] :
    HoleOf(asked[i].sql, c) > Len(asked[i].params) => results[i][c].type = "null"

Same(v, w) ==
  IF v.type \in Numeric
  THEN /\ w.type \in Numeric /\ w.n = v.n
       /\ (v.type = "fraction") = (w.type = "fraction")
  ELSE w = v
Sent(i, c) == asked[i].params[HoleOf(asked[i].sql, c)]
Returned(i) == {c \in DOMAIN results[i] : HoleOf(asked[i].sql, c) =< Len(asked[i].params)}

(* What was accepted comes back: the same number, never one wrapped at the *)
(* end of int64 nor one that a Number cannot tell from its neighbour, the  *)
(* same text, the same bytes unless there are none (sql_int64_to_js).      *)
RoundTrip ==
  \A i \in DOMAIN results : \A c \in Returned(i) :
    /\ Sent(i, c) # Js("bytes", 0) => Same(Sent(i, c), results[i][c])
    /\ results[i][c].type = "number" => InSafeRange(results[i][c].n)

(* Nothing a script asks of a step is dropped in silence: of the fields it *)
(* wrote, a step that runs has those its type is held to, and one          *)
(* expectation at most.                                                    *)
HeldTo(type) == IF type = "run" THEN Expectations ELSE Limits
Wrote(o) == Given(o.limits) \cup UNION {Given(fields) : fields \in o.expects}
NothingIgnored ==
  \A i \in DOMAIN results :
    /\ Wrote(asked[i]) \subseteq HeldTo(steps[i].type)
    /\ Cardinality(Wrote(asked[i]) \ Limits) =< 1
=============================================================================
