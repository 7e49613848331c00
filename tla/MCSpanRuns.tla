----------------------------- MODULE MCSpanRuns -----------------------------
(***************************************************************************)
(* Small instances of SpanRuns with two threads.  The largest numbers of   *)
(* spans, of enters and of notes do not come together: three spans, of     *)
(* which one may be entered, for parents and children; two spans and two   *)
(* enters for a span that two threads share; fields and events with fewer  *)
(* of these; and spans of each kind beside a plain one.                    *)
(***************************************************************************)
EXTENDS SpanRuns

CONSTANTS t1, t2

MCThreads == {t1, t2}
Does(kinds, n, e) == [kinds |-> kinds, notes |-> n, enters |-> e]
MCApps == {Does(<<"plain", "plain", "plain">>, 0, 1), Does(<<"plain", "plain">>, 0, 2),
           Does(<<"plain">>, 2, 1), Does(<<"plain", "plain">>, 1, 0),
           Does(<<"hidden", "plain">>, 1, 1), Does(<<"uuid", "plain">>, 0, 1),
           Does(<<"text", "plain">>, 0, 1), Does(<<"number", "plain">>, 0, 1)}
=============================================================================
