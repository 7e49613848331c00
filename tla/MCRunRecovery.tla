--------------------------- MODULE MCRunRecovery ---------------------------
(***************************************************************************)
(* Small instances of RunRecovery: an application that opens and closes a  *)
(* span, with an event in it, and comes back, before and after a crash; an *)
(* application beside the server's own run, which opens a span; and two    *)
(* runs of one application that open the same span.                        *)
(***************************************************************************)
EXTENDS RunRecovery, TLC

CONSTANTS app, other

MCRuns == {app, other}
Makes(type) == [type |-> type, span |-> 1]
Open == <<Makes("Create")>>
OpenAndClose == <<Makes("Create"), Makes("Event"), Makes("Close")>>
Case(appScript, appConns, otherScript, otherConns, self, fresh, breaks, c) ==
  [script |-> app :> appScript @@ other :> otherScript, self |-> self,
   conns |-> app :> appConns @@ other :> otherConns, fresh |-> fresh, breaks |-> breaks, crashes |-> c]
MCCases == {Case(OpenAndClose, 2, <<>>, 0, {}, TRUE, TRUE, 1),
            Case(<<>>, 1, Open, 1, {other}, TRUE, TRUE, 1),
            Case(Open, 1, Open, 1, {}, FALSE, FALSE, 0)}
=============================================================================
