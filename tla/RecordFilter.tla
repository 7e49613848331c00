---------------------------- MODULE RecordFilter ----------------------------
(***************************************************************************)
(* Which records a filter selects: in the database (TracingService::       *)
(* list_records) and live (TracingRecordVariant::filter), TracingRecord-   *)
(* Filter written down twice.                                              *)
(*                                                                         *)
(* What a record or a filter may lack is a set of one element or none; a   *)
(* list of a filter is a set in such a set.  A text is the set of its      *)
(* parts, which is what `contains` asks for; of the operators there are    *)
(* those that a filter of the web pages or their search can mean.          *)
(***************************************************************************)
EXTENDS Integers, FiniteSets

\* The kinds that the program makes records of: TracingKind has two more,
\* RepEvent and DataUpdate.
Kinds == {"SpanCreate", "SpanEnter", "SpanLeave", "SpanClose", "SpanRecord", "Event",
          "RelatedEvent", "AppStart", "AppStop"}

\* The id that stands for "no parent" in a filter, of a span run or of a span.
Nil == 0

\* A filter that selects everything, TracingRecordFilter::default().
Default ==
  [scene |-> {}, app_build_ids |-> {}, node_ids |-> {}, app_run_ids |-> {}, parent_id |-> {},
   parent_span_t_ids |-> {}, start_time |-> {}, end_time |-> {}, kinds |-> {}, span_ids |-> {},
   targets |-> {}, name |-> {}, span_t_id |-> {}, levels |-> {}, search |-> {}]

\* A record, as a row of tracing_record has it; of a related event also the
\* parents of its span, which the row has not.
Record ==
  [kind |-> "Event", app |-> 1, version |-> 1, node |-> 1, run |-> 1, parent_id |-> {},
   parent_span_t_id |-> {}, outer_id |-> {}, outer_span_t_id |-> {}, time |-> 1,
   span_id |-> {}, target |-> {}, name |-> {}, span_t_id |-> {}, level |-> {}]

BuiltAs(m, b) == m.app = b.app /\ b.version \in {{}, {m.version}}

-----------------------------------------------------------------------------
(* In the database.                                                        *)

\* Expr::binary on a column, which may be null.
SqlOp(op, column, value) ==
  \E x \in column : IF op = "NotEqual" THEN x # value ELSE x = value

\* A list of one element means equality; of none, no condition.
SqlIn(column, list) == list = {} \/ \E x \in column : x \in list

\* Parents are asked for one by one in the trees of the web pages: 0 means none,
\* but in a list of several it is an id like any other.
SqlParent(f, m, ids) ==
  IF ids = {Nil}
  THEN /\ m.parent_span_t_id = {}
       /\ f.app_run_ids \notin {{}, {{}}} => m.kind # "AppStart"
  ELSE SqlIn(m.parent_span_t_id, ids)

\* Of several levels, or of one: several admit a record without a level.
SqlLevels(m, levels) == SqlIn(m.level, levels) \/ (Cardinality(levels) > 1 /\ m.level = {})

\* list_records: the conditions of the select.
SqlSelects(f, m) ==
  /\ \A p \in f.parent_id :
       IF p = Nil THEN m.parent_id = {} /\ m.kind # "AppStart" ELSE m.parent_id = {p}
  /\ \A ids \in f.parent_span_t_ids : SqlParent(f, m, ids)
  /\ \A t \in f.start_time : m.time > t
  /\ \A t \in f.end_time : m.time < t
  /\ \A n \in f.name : SqlOp(n.op, {m.name}, n.value)
  /\ f.scene = {"Tree"} => m.kind \in {"Event", "AppStart", "SpanCreate"}
  /\ f.app_run_ids \in {{}, {{}}} =>
       /\ \A builds \in f.app_build_ids : builds = {} \/ \E b \in builds : BuiltAs(m, b)
       /\ \A nodes \in f.node_ids : SqlIn({m.node}, nodes)
  /\ \A runs \in f.app_run_ids : SqlIn({m.run}, runs)
  /\ \A levels \in f.levels : SqlLevels(m, levels)
  /\ \A ids \in f.span_ids : SqlIn(m.span_id, ids)
  /\ \A ts \in f.targets : ts = {} \/ \E t \in ts : SqlOp(t.op, m.target, t.value)
  /\ \A kinds \in f.kinds : SqlIn({m.kind}, kinds)
  /\ \A v \in f.span_t_id : m.span_t_id = {v}
  /\ \A pattern \in f.search : m.name \in pattern

-----------------------------------------------------------------------------
(* Live.                                                                   *)

\* ApplyFilterOp for texts.
LiveOp(op, x, value) ==
  CASE op = "Like" -> value \subseteq x
    [] op = "NotEqual" -> x # value
    [] OTHER -> x = value

\* What a record lacks is not held against it.
LiveIn(column, list) == list = {} \/ \A x \in column : x \in list

\* A related event goes where its span is, not below it.
LiveParent(m) == IF m.kind = "RelatedEvent" THEN m.outer_span_t_id ELSE m.parent_span_t_id

LiveParentId(m) == IF m.kind = "RelatedEvent" THEN m.outer_id ELSE m.parent_id

LiveParents(m, ids) ==
  IF LiveParent(m) = {} THEN ids \subseteq {Nil} ELSE LiveIn(LiveParent(m), ids)

\* TracingRecordVariant::filter.
LiveSelects(f, m) ==
  /\ f.scene = {"Tree"} => m.kind \notin {"SpanEnter", "SpanLeave"}
  /\ f.scene = {"SpanField"} => m.kind = "SpanRecord"
  /\ f.scene = {"SpanEnter"} => m.kind \in {"SpanEnter", "SpanLeave"}
  /\ \A builds \in f.app_build_ids : \E b \in builds : BuiltAs(m, b)
  /\ \A nodes \in f.node_ids : m.node \in nodes
  /\ \A runs \in f.app_run_ids : m.run \in runs
  /\ \A t \in f.start_time : m.time >= t
  /\ \A t \in f.end_time : m.time <= t
  /\ \A p \in f.parent_id : LiveParentId(m) = IF p = Nil THEN {} ELSE {p}
  /\ \A ids \in f.parent_span_t_ids : LiveParents(m, ids)
  /\ \A kinds \in f.kinds : kinds = {} \/ m.kind \in kinds
  /\ \A ids \in f.span_ids : LiveIn(m.span_id, ids)
  /\ \A ts \in f.targets : \A t \in ts : \A x \in m.target : LiveOp(t.op, x, t.value)
  /\ \A levels \in f.levels : LiveIn(m.level, levels)
  /\ \A n \in f.name : LiveOp(n.op, m.name, n.value)
  /\ \A v \in f.span_t_id : m.span_t_id = {v}
=============================================================================
