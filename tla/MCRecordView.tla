---------------------------- MODULE MCRecordView ----------------------------
(***************************************************************************)
(* Small instances of RecordView, with windows of two: the top of a run's  *)
(* tree, with a span that closes; the tree below a span, of one level; a   *)
(* search; the enters of a span; records of two threads, of which one has  *)
(* an earlier time than the record before it; and two other applications   *)
(* that start, with a node page that holds one event.                      *)
(***************************************************************************)
EXTENDS RecordView

MCStart == [Record EXCEPT !.kind = "AppStart", !.run = 2]

Of(span, kind) == [Record EXCEPT !.kind = kind, !.span_t_id = {span}, !.level = {3}]
Event == [Record EXCEPT !.level = {3}]
Within(m, span) == [m EXCEPT !.parent_span_t_id = {span}, !.outer_span_t_id = {}]
Named(m, name) == [m EXCEPT !.name = name]
AtLevel(m, level) == [m EXCEPT !.level = {level}]

Tree(parent) == [Default EXCEPT !.scene = {"Tree"}, !.app_run_ids = {{1}},
                                !.parent_span_t_ids = {{parent}}]
Case(f, script, starts) == [filter |-> f, script |-> script, starts |-> starts]

\* The records of a script in the order of their times, or with given times.
InOrder(script) == [i \in DOMAIN script |-> [script[i] EXCEPT !.time = i]]
At(script, times) == [i \in DOMAIN script |-> [script[i] EXCEPT !.time = times[i]]]

MCCases ==
  {Case([Tree(Nil) EXCEPT !.levels = {1..5}],
        InOrder(<<Of(1, "SpanCreate"), Event, Of(1, "SpanClose"), Event>>), 0),
   Case([Tree(1) EXCEPT !.levels = {{3}}],
        InOrder(<<Within(Event, 1), Within(AtLevel(Event, 2), 1), Event, Within(Event, 1)>>), 0),
   Case([Tree(Nil) EXCEPT !.search = {{{"found"}}}],
        InOrder(<<Named(Event, {"found"}), Event, Named(Event, {"found"})>>), 0),
   Case([Tree(1) EXCEPT !.scene = {"SpanEnter"}, !.kinds = {{"SpanEnter", "SpanLeave"}}],
        InOrder(<<Within(Of(2, "SpanCreate"), 1), Within(Of(2, "SpanEnter"), 1),
                  Within(Of(2, "SpanLeave"), 1)>>), 0),
   Case(Tree(Nil), At(<<Event, Event, Event, Event>>, <<2, 1, 3, 4>>), 0),
   Case(Tree(Nil), <<Event>>, 2)}

\* What a tree of a run lists of events and spans, its subscription is told of.
\* (They differ where a search is on, for records without a level and a filter of
\* one level, at the bounds of a time, and for a list of nodes or of builds, that
\* the database does not ask for if there is a run: RecordFilter.)
ASSUME FiltersAgree ==
  \A f \in {[Tree(p) EXCEPT !.levels = levels, !.targets = targets, !.name = names] :
              p \in {Nil, 1, 2}, levels \in {{}, {{}}, {{2}}, {{3}}, {2..4}},
              targets \in {{}, {{[op |-> "Equal", value |-> {"t"}]}}},
              names \in {{}, {[op |-> "NotEqual", value |-> {"n"}]}}},
     m \in {[Record EXCEPT !.kind = kind, !.run = r, !.parent_span_t_id = p, !.level = {l},
                           !.target = {t}, !.name = n] :
              kind \in {"Event", "SpanCreate"}, r \in 1..2, p \in {{}, {1}, {2}}, l \in 1..5,
              t \in {{"t"}, {"u"}}, n \in {{"n"}, {"t", "n"}}} :
    SqlSelects(f, m) <=> LiveSelects(f, m)
=============================================================================
