--------------------------- MODULE SpanRunsProofs ---------------------------
(***************************************************************************)
(* What SpanRuns keeps for any threads, spans and applications.            *)
(*                                                                         *)
(* What the messages have told of the spans is a view.  The inductive      *)
(* invariant says that there are three of them: what the run's task has    *)
(* been told, of which its bookkeeping and its rows are the record; what   *)
(* the connection has taken, to which the messages in the task's channel   *)
(* lead from the first; and what the application has sent, to which those  *)
(* in the client's channel lead from the second, and which is what it did, *)
(* but for spans of which messages never reached the server.  Each message *)
(* on the way fits the view before it (Run): a span is created once,       *)
(* before all else that is said of it, and closed last and after those it  *)
(* is the parent of; it is left when it is entered.                        *)
(***************************************************************************)
EXTENDS SpanRuns, TLAPS, SequenceTheorems, FiniteSetTheorems, WellFoundedInduction

\* What messages tell: the spans created, closed and entered, the last field
\* recorded of each, and how many enters there were.
View == [made : SUBSET Spans, gone : SUBSET Spans, on : SUBSET Spans,
         field : [Spans -> 0..MaxNotes], enters : Nat]

\* What messages are to fit: what the application did so far, and the spans of
\* which there may be messages.
World(known) ==
  [known |-> known, reg |-> regParent, tl |-> tlParent, shared |-> shared,
   enters |-> enters, hidden |-> {s \in born : Hidden(s)}]

\* What may become of w while messages are on their way.
Grown(w, x) ==
  /\ w.enters \in Nat /\ x.enters \in Nat /\ w.enters <= x.enters
  /\ w.known \subseteq x.known /\ w.shared \subseteq x.shared /\ w.hidden \subseteq x.hidden
  /\ \A s \in w.known : w.reg[s] = x.reg[s] /\ w.tl[s] = x.tl[s]

\* A message in one of the two channels; an event that the connection passed on
\* has the span it was found to be in.
Seen == [type : {"Event"}, asked : Spans \cup {NoSpan}, span : Spans \cup {NoSpan}]

\* Anything that is in a channel.
Stuff == Msg \cup {AppStop} \cup Seen

\* The messages whose span must be created and not closed.
About == {"Record", "Enter", "Leave", "Close"}

\* What a message adds to a view.
Told(v, m) ==
  CASE m.type = "Create" -> [v EXCEPT !.made = v.made \cup {m.span}]
    [] m.type = "Close" -> [v EXCEPT !.gone = v.gone \cup {m.span}]
    [] m.type = "Record" -> [v EXCEPT !.field = [v.field EXCEPT ![m.span] = m.field]]
    [] m.type = "Enter" -> [v EXCEPT !.on = v.on \cup {m.span}, !.enters = v.enters + 1]
    [] m.type = "Leave" -> [v EXCEPT !.on = v.on \ {m.span}]
    [] OTHER -> v

\* A view is of spans that are known, and of as many enters as there were at most.
Sound(v, w) ==
  /\ v.made \subseteq w.known /\ v.gone \subseteq v.made /\ v.on \subseteq v.made
  /\ \A s \in Spans \ v.made : v.field[s] = 0
  /\ v.enters <= w.enters

\* A message is one that may come when the others have told v.
Fits(m, v, w) ==
  /\ m.type = "Create" => m.span \notin v.made /\ m.parent = w.tl[m.span]
  /\ m.type \in About => m.span \in v.made \ v.gone
  /\ m.type = "Enter" => m.span \notin v.on \/ m.span \in w.shared
  /\ m.type = "Leave" => m.span \in v.on \/ m.span \in w.shared
  /\ m.type = "Close" =>
       \A y \in v.made \ v.gone : ~(w.reg[y] = m.span /\ w.tl[y] = m.span)
  /\ m.type = "Event" => m.span \in {NoSpan} \cup w.hidden \cup v.made

\* The views f, one before each message of q and one behind the last.
Path(q, f, w) ==
  /\ f \in [0..Len(q) -> View]
  /\ \A i \in 0..Len(q) : Sound(f[i], w)
  /\ \A i \in 1..Len(q) : Fits(q[i], f[i - 1], w) /\ f[i] = Told(f[i - 1], q[i])

\* The messages of q lead from view v to view u.
Run(q, v, u, w) == \E f : Path(q, f, w) /\ f[0] = v /\ f[Len(q)] = u

-----------------------------------------------------------------------------
(* The parts of the invariant.                                             *)

\* Types that TypeOK does not get from the other parts; and that spans are born in
\* order, so that the layer's parent of a span is older.
Shapes ==
  /\ app \in Apps
  /\ dead \subseteq born /\ born \subseteq Spans
  /\ regParent \in [Spans -> Spans \cup {NoSpan}]
  /\ tlParent \in [Spans -> Spans \cup {NoSpan}]
  /\ inside \in [Threads -> Seq(Open)]
  /\ notes \in 0..MaxNotes
  /\ field \in [Spans -> 0..MaxNotes]
  /\ enters \in 0..MaxEnters
  /\ stopped \in BOOLEAN
  /\ channel \in Seq(Msg \cup {AppStop})
  /\ client \in {"stream", "stopping", "ended"}
  /\ lifetime \in {"on", "normal", "exception", "panicked"}
  /\ refused \subseteq Msg
  /\ inbox \in Seq(Msg \cup Seen)
  /\ task \in {"running", "finished"}
  /\ shared \subseteq Spans
  /\ missed \subseteq Spans \cup {NoSpan}
  /\ \A b \in born : \A r \in Spans : r < b => r \in born
  /\ \A s \in Spans : tlParent[s] < s

\* The threads in a span: a thread is in it once, and if threads never shared it,
\* only one is.  A span not born has no parent and no field.
ThreadsInv ==
  /\ \A t \in Threads : \A i, j \in 1..Len(inside[t]) : inside[t][i] = inside[t][j] => i = j
  /\ \A s \in Spans \ shared : \A t, u \in Threads : s \in Inside(t) /\ s \in Inside(u) => t = u
  /\ \A s \in Spans \ born : regParent[s] = NoSpan /\ tlParent[s] = NoSpan /\ field[s] = 0

\* The view u says what the application did with span s.
Says(u, s) ==
  /\ s \in u.made <=> s \in born /\ ~Hidden(s)
  /\ s \in u.gone <=> s \in dead /\ ~Hidden(s)
  /\ s \in u.made => u.field[s] = field[s]
  /\ EnableEnter /\ s \in u.made /\ s \notin shared =>
       (s \in u.on <=> \E t \in Threads : s \in Inside(t))

\* The view u of all that was sent is what the application did, but for the spans
\* of messages that were lost with the connection.
SentInv(u) ==
  /\ client # "ended" => missed = {}
  /\ lifetime = "on" => client # "ended"
  /\ client = "ended" => channel = <<>>
  /\ \A s \in Spans \ missed : Says(u, s)

\* The view m of what the connection took is what it knows.
TakenInv(m) ==
  /\ running = m.made
  /\ \A i \in 1..Len(inbox) : inbox[i].type = "Event" =>
       /\ inbox[i] \in Seen
       /\ inbox[i].span = inbox[i].asked \/ (inbox[i].span = NoSpan /\ Hidden(inbox[i].asked))

\* The view v of what the task was told is in its bookkeeping.
TaskInv(v) ==
  /\ created = v.made \ v.gone
  /\ subs \in [Spans -> SUBSET created]
  /\ \A x \in Spans : \A y \in subs[x] : tlParent[y] = x
  /\ enterIds = v.enters
  /\ entered \in [Spans -> 0..enterIds]
  /\ \A s \in Spans : s \in v.on <=> entered[s] # 0
  /\ \A s, b \in Spans : entered[s] = entered[b] /\ entered[s] # 0 => s = b
  /\ busy \in [Spans -> Nat]
  /\ \A s \in Spans : IF s \in v.on THEN busy[s] < enterIds ELSE busy[s] <= enterIds
  /\ skipped \subseteq Msg
  /\ events \subseteq [asked : Spans \cup {NoSpan}, span : Spans \cup {NoSpan}]
  /\ \A e \in 1..MaxEnters : draft.enter[e].span \in v.made \cup {NoSpan}

\* The enter rows of span s.
DraftRows(s) == {e \in 1..MaxEnters : draft.enter[e].span = s}

\* Those of them that are left.
DraftLeft(s) == {e \in DraftRows(s) : draft.enter[e].left}

\* Rows by their types; the enter rows are those that the task has made; and what
\* the batch would change is of spans it has a statement of, but for marks.
RowsInv ==
  /\ rows \in Rows /\ draft \in Rows
  /\ batch \subseteq Spans /\ victims \subseteq Spans
  /\ \A e \in 1..MaxEnters : e > enterIds => draft.enter[e] = NoEnter /\ rows.enter[e] = NoEnter
  /\ \A e \in 1..MaxEnters :
       /\ draft.enter[e].span = NoSpan => draft.enter[e] = NoEnter
       /\ rows.enter[e].span = NoSpan => rows.enter[e] = NoEnter
  /\ \A s \in Spans : entered[s] # 0 =>
       /\ draft.enter[entered[s]].span \in {s, NoSpan}
       /\ rows.enter[entered[s]].span \in {s, NoSpan}
  /\ \A s \in Spans \ batch :
       /\ draft.run[s].made <=> rows.run[s].made
       /\ draft.run[s].closed <=> rows.run[s].closed
       /\ draft.run[s].field = rows.run[s].field
       /\ draft.run[s].busy = rows.run[s].busy
  /\ \A e \in 1..MaxEnters : draft.enter[e] # rows.enter[e] =>
       /\ draft.enter[e].span \in batch
       /\ rows.enter[e].span \in {NoSpan, draft.enter[e].span}

\* The rows say what the task was told, but for spans with statements that failed.
ToldInv(v) ==
  \A s \in Spans \ victims :
    /\ draft.run[s].made <=> s \in v.made
    /\ draft.run[s].closed <=> s \in v.gone
    /\ draft.run[s].field = v.field[s]
    /\ entered[s] # 0 => entered[s] \in DraftRows(s) \ DraftLeft(s)
    /\ s \notin shared => DraftRows(s) \ DraftLeft(s) \subseteq {entered[s]}
    /\ busy[s] = Cardinality(DraftLeft(s))
    /\ s \in v.gone => draft.run[s].busy = busy[s]

\* The spans that are a root inside another span, or under such a span.
Rooted(s) == \E a \in Above(s) : regParent[a] # tlParent[a]

\* Only these are marked.
MarksInv == \A s \in Spans : draft.run[s].marked \/ rows.run[s].marked => Rooted(s)

\* What the task was told, what the connection took and what was sent are v, m and u.
Views(v, m, u) ==
  /\ v \in View /\ m \in View /\ u \in View
  /\ Run(inbox, v, m, World(running))
  /\ Run(channel, m, u, World(born))
  /\ SentInv(u) /\ TakenInv(m) /\ TaskInv(v) /\ ToldInv(v)

\* The inductive invariant.
IInv ==
  /\ Shapes /\ ThreadsInv /\ RowsInv /\ MarksInv /\ OnlySidRefused /\ OnlySharedSkipped
  /\ \E v, m, u : Views(v, m, u)

-----------------------------------------------------------------------------
(* Messages and views.                                                     *)

\* NoSpan is the id of no span.
LEMMA NoSpanIsNone == NoSpan \notin Spans
BY ConstantsAssumption DEF NoSpan, Spans

\* The messages of a span are messages.
LEMMA MessageTypes ==
  ASSUME NEW s \in Spans
  PROVE  /\ [type |-> "Enter", span |-> s] \in Msg
         /\ [type |-> "Leave", span |-> s] \in Msg
         /\ [type |-> "Close", span |-> s] \in Msg
         /\ \A n \in 1..MaxNotes : [type |-> "Record", span |-> s, field |-> n] \in Msg
         /\ \A p \in Spans \cup {NoSpan} : [type |-> "Create", span |-> s, parent |-> p] \in Msg
BY DEF Msg

\* What a message has, by its type.
LEMMA MessageKinds ==
  ASSUME NEW m \in Stuff
  PROVE  /\ m = AppStop \/ m \in Msg \/ m \in Seen
         /\ m = AppStop <=> m.type = "AppStop"
         /\ m.type \in {"Create", "Event", "AppStop"} \cup About
         /\ m.type \in {"Create"} \cup About => m.span \in Spans /\ m \in Msg
         /\ m.type = "Event" => m.span \in Spans \cup {NoSpan}
         /\ m.type = "Record" => m.field \in 1..MaxNotes
         /\ m.type = "Create" => m.parent \in Spans \cup {NoSpan}
<1>1. CASE m \in Msg
  BY <1>1 DEF Msg, About, AppStop
<1>2. CASE m = AppStop
  BY <1>2 DEF AppStop, About
<1>3. CASE m \in Seen
  BY <1>3 DEF Seen, About, AppStop
<1>4. QED
  BY <1>1, <1>2, <1>3 DEF Stuff

\* The parts of a view.
LEMMA ViewIs ==
  ASSUME NEW v \in View
  PROVE  /\ v.made \subseteq Spans /\ v.gone \subseteq Spans /\ v.on \subseteq Spans
         /\ v.field \in [Spans -> 0..MaxNotes] /\ v.enters \in Nat
BY DEF View

\* What a message changes in a view, part by part.
LEMMA TellsOf ==
  ASSUME NEW v \in View, NEW m \in Stuff
  PROVE  /\ Told(v, m) \in View
         /\ Told(v, m).made = IF m.type = "Create" THEN v.made \cup {m.span} ELSE v.made
         /\ Told(v, m).gone = IF m.type = "Close" THEN v.gone \cup {m.span} ELSE v.gone
         /\ Told(v, m).on = IF m.type = "Enter" THEN v.on \cup {m.span}
                            ELSE IF m.type = "Leave" THEN v.on \ {m.span} ELSE v.on
         /\ Told(v, m).enters = IF m.type = "Enter" THEN v.enters + 1 ELSE v.enters
         /\ Told(v, m).field = IF m.type = "Record"
                               THEN [v.field EXCEPT ![m.span] = m.field] ELSE v.field
         /\ m.type \in {"Event", "AppStop"} => Told(v, m) = v
<1>1. /\ m.type \in {"Create", "Event", "AppStop"} \cup About
      /\ m.type \in {"Create"} \cup About => m.span \in Spans
      /\ m.type = "Record" => m.field \in 1..MaxNotes
  BY MessageKinds
<1>2. CASE m.type = "Create"
  <2>1. Told(v, m) = [v EXCEPT !.made = v.made \cup {m.span}]
    BY <1>2 DEF Told
  <2>2. QED
    BY <1>1, <1>2, <2>1 DEF View
<1>3. CASE m.type = "Close"
  <2>1. Told(v, m) = [v EXCEPT !.gone = v.gone \cup {m.span}]
    BY <1>3 DEF Told
  <2>2. QED
    BY <1>1, <1>3, <2>1 DEF View, About
<1>4. CASE m.type = "Record"
  <2>1. Told(v, m) = [v EXCEPT !.field = [v.field EXCEPT ![m.span] = m.field]]
    BY <1>4 DEF Told
  <2>2. v.field \in [Spans -> 0..MaxNotes] /\ m.field \in 0..MaxNotes
    BY <1>1, <1>4 DEF View
  <2>3. [v.field EXCEPT ![m.span] = m.field] \in [Spans -> 0..MaxNotes]
    BY <2>2
  <2>4. QED
    BY <1>4, <2>1, <2>3 DEF View
<1>5. CASE m.type = "Enter"
  <2>1. Told(v, m) = [v EXCEPT !.on = v.on \cup {m.span}, !.enters = v.enters + 1]
    BY <1>5 DEF Told
  <2>2. v.on \cup {m.span} \in SUBSET Spans /\ v.enters + 1 \in Nat
    BY <1>1, <1>5, ViewIs DEF About
  <2>3. Told(v, m) \in View
    BY <2>1, <2>2 DEF View
  <2>4. /\ Told(v, m).made = v.made /\ Told(v, m).gone = v.gone /\ Told(v, m).field = v.field
        /\ Told(v, m).on = v.on \cup {m.span} /\ Told(v, m).enters = v.enters + 1
    BY <2>1 DEF View
  <2>5. QED
    BY <1>5, <2>3, <2>4
<1>6. CASE m.type = "Leave"
  <2>1. Told(v, m) = [v EXCEPT !.on = v.on \ {m.span}]
    BY <1>6 DEF Told
  <2>2. QED
    BY <1>6, <2>1 DEF View
<1>7. CASE m.type \in {"Event", "AppStop"}
  <2>1. Told(v, m) = v
    BY <1>7 DEF Told
  <2>2. QED
    BY <1>7, <2>1
<1>8. QED
  BY <1>1, <1>2, <1>3, <1>4, <1>5, <1>6, <1>7 DEF About

\* A view stays sound when a message is told that fits it, is of a known span if it
\* creates one, and is not of more enters than there were.
LEMMA ToldIsSound ==
  ASSUME NEW w, NEW v \in View, NEW m \in Stuff, Sound(v, w), Fits(m, v, w),
         m.type = "Create" => m.span \in w.known,
         m.type = "Enter" => v.enters + 1 <= w.enters
  PROVE  Told(v, m) \in View /\ Sound(Told(v, m), w)
<1>1. /\ m.type \in About => m.span \in v.made
      /\ m.type \in {"Create"} \cup About => m.span \in Spans
  BY MessageKinds DEF Fits
<1>2. /\ Told(v, m).made = IF m.type = "Create" THEN v.made \cup {m.span} ELSE v.made
      /\ Told(v, m).gone = IF m.type = "Close" THEN v.gone \cup {m.span} ELSE v.gone
      /\ Told(v, m).on = IF m.type = "Enter" THEN v.on \cup {m.span}
                         ELSE IF m.type = "Leave" THEN v.on \ {m.span} ELSE v.on
  BY TellsOf
<1>3. Told(v, m).made \subseteq w.known /\ v.made \subseteq Told(v, m).made
  BY <1>2 DEF Sound
<1>4. Told(v, m).gone \subseteq Told(v, m).made /\ Told(v, m).on \subseteq Told(v, m).made
  BY <1>1, <1>2, <1>3 DEF Sound, About
<1>5. ASSUME NEW s \in Spans \ Told(v, m).made
      PROVE  Told(v, m).field[s] = 0
  <2>1. s \notin v.made /\ v.field[s] = 0
    BY <1>3 DEF Sound
  <2>2. m.type = "Record" => m.span # s
    BY <1>1, <2>1 DEF About
  <2>3. Told(v, m).field[s] = v.field[s]
    BY <2>2, TellsOf, ViewIs
  <2>4. QED
    BY <2>1, <2>3
<1>6. Told(v, m).enters <= w.enters
  BY TellsOf DEF Sound
<1>7. QED
  BY <1>3, <1>4, <1>5, <1>6, TellsOf DEF Sound

\* What fits and what is sound stays so while the world grows.
LEMMA GrownKeeps ==
  ASSUME NEW w, NEW x, Grown(w, x), NEW v \in View, Sound(v, w)
  PROVE  /\ Sound(v, x)
         /\ \A m \in Stuff : Fits(m, v, w) /\ Sound(Told(v, m), w) => Fits(m, v, x)
<1>1. Sound(v, x)
  BY ViewIs DEF Sound, Grown
<1>2. ASSUME NEW m \in Stuff, Fits(m, v, w), Sound(Told(v, m), w)
      PROVE  Fits(m, v, x)
  <2>1. m.type = "Create" => m.span \in w.known
    BY <1>2, TellsOf DEF Sound
  <2>2. m.type = "Create" => m.span \notin v.made /\ m.parent = x.tl[m.span]
    BY <1>2, <2>1 DEF Fits, Grown
  <2>3. m.type = "Close" =>
          \A y \in v.made \ v.gone : ~(x.reg[y] = m.span /\ x.tl[y] = m.span)
    BY <1>2 DEF Fits, Grown, Sound
  <2>4. QED
    BY <1>2, <2>2, <2>3 DEF Fits, Grown
<1>3. QED
  BY <1>1, <1>2

-----------------------------------------------------------------------------
(* Runs of messages.                                                       *)

\* Both ends of a run are views that are sound.
LEMMA RunEnds ==
  ASSUME NEW q \in Seq(Stuff), NEW v, NEW u, NEW w, Run(q, v, u, w)
  PROVE  v \in View /\ u \in View /\ Sound(v, w) /\ Sound(u, w)
<1>1. PICK f : Path(q, f, w) /\ f[0] = v /\ f[Len(q)] = u
  BY DEF Run
<1>2. Len(q) \in Nat /\ 0 \in 0..Len(q) /\ Len(q) \in 0..Len(q)
  OBVIOUS
<1>3. QED
  BY <1>1, <1>2 DEF Path

\* No message leads from a view to itself and nowhere else.
LEMMA RunEmpty ==
  ASSUME NEW v \in View, NEW u, NEW w, Sound(v, w)
  PROVE  Run(<<>>, v, u, w) <=> v = u
<1>1. ASSUME Run(<<>>, v, u, w)
      PROVE  v = u
  <2>1. PICK f : f[0] = v /\ f[Len(<<>>)] = u
    BY <1>1 DEF Run
  <2>2. Len(<<>>) = 0
    OBVIOUS
  <2>3. QED
    BY <2>1, <2>2
<1>2. ASSUME v = u
      PROVE  Run(<<>>, v, u, w)
  <2>1. PICK f : f = [i \in 0..0 |-> v]
    OBVIOUS
  <2>2. Len(<<>>) = 0 /\ f[0] = v /\ f \in [0..0 -> View] /\ \A i \in 0..0 : i = 0
    BY <2>1
  <2>3. Path(<<>>, f, w)
    BY <2>2 DEF Path
  <2>4. QED
    BY <1>2, <2>2, <2>3 DEF Run
<1>3. QED
  BY <1>1, <1>2

\* A message that fits behind a run makes it longer by one.
LEMMA RunAppend ==
  ASSUME NEW q \in Seq(Stuff), NEW v, NEW u, NEW w, NEW m \in Stuff,
         Run(q, v, u, w), Fits(m, u, w), Sound(Told(u, m), w)
  PROVE  Run(Append(q, m), v, Told(u, m), w)
<1>1. PICK f : Path(q, f, w) /\ f[0] = v /\ f[Len(q)] = u
  BY DEF Run
<1>2. PICK n \in Nat : n = Len(q)
  OBVIOUS
<1>3. PICK r : r = Append(q, m)
  OBVIOUS
<1>4. Len(r) = n + 1 /\ (\A i \in 1..n : r[i] = q[i]) /\ r[n + 1] = m
  BY <1>2, <1>3
<1>5. PICK g : g = [i \in 0..(n + 1) |-> IF i = n + 1 THEN Told(u, m) ELSE f[i]]
  OBVIOUS
<1>6. (\A i \in 0..n : g[i] = f[i]) /\ g[n + 1] = Told(u, m)
  BY <1>2, <1>5
<1>7. Told(u, m) \in View
  BY RunEnds, TellsOf
<1>8. g \in [0..(n + 1) -> View]
  <2>1. \A i \in 0..n : f[i] \in View
    BY <1>1, <1>2 DEF Path
  <2>2. QED
    BY <1>5, <1>7, <2>1
<1>9. \A i \in 0..(n + 1) : Sound(g[i], w)
  <2>1. \A i \in 0..n : Sound(f[i], w)
    BY <1>1, <1>2 DEF Path
  <2>2. QED
    BY <1>6, <2>1
<1>10. ASSUME NEW i \in 1..(n + 1)
       PROVE  Fits(r[i], g[i - 1], w) /\ g[i] = Told(g[i - 1], r[i])
  <2>1. CASE i = n + 1
    <3>1. r[i] = m /\ g[i - 1] = u /\ g[i] = Told(u, m)
      BY <1>1, <1>2, <1>4, <1>6, <2>1
    <3>2. QED
      BY <3>1
  <2>2. CASE i # n + 1
    <3>1. i \in 1..n /\ i - 1 \in 0..n /\ i \in 0..n
      BY <2>2
    <3>2. Fits(q[i], f[i - 1], w) /\ f[i] = Told(f[i - 1], q[i])
      BY <1>1, <1>2, <3>1 DEF Path
    <3>3. QED
      BY <1>4, <1>6, <3>1, <3>2
  <2>3. QED
    BY <2>1, <2>2
<1>11. Path(r, g, w) /\ g[0] = v /\ g[Len(r)] = Told(u, m)
  BY <1>1, <1>4, <1>6, <1>8, <1>9, <1>10 DEF Path
<1>12. QED
  BY <1>3, <1>11 DEF Run

\* The first message of a run fits, and the others lead on from what it tells.
LEMMA RunTail ==
  ASSUME NEW q \in Seq(Stuff), NEW v, NEW u, NEW w, q # <<>>, Run(q, v, u, w)
  PROVE  /\ Head(q) \in Stuff /\ Tail(q) \in Seq(Stuff)
         /\ Fits(Head(q), v, w) /\ Sound(Told(v, Head(q)), w)
         /\ Run(Tail(q), Told(v, Head(q)), u, w)
<1>1. PICK f : Path(q, f, w) /\ f[0] = v /\ f[Len(q)] = u
  BY DEF Run
<1>2. PICK n \in Nat : n = Len(q) /\ n # 0
  OBVIOUS
<1>3. PICK r : r = Tail(q)
  OBVIOUS
<1>4. /\ Head(q) = q[1] /\ q[1] \in Stuff /\ r \in Seq(Stuff) /\ Len(r) = n - 1
      /\ \A i \in 1..(n - 1) : r[i] = q[i + 1]
  BY <1>2, <1>3
<1>5. \A i \in 1..n : Fits(q[i], f[i - 1], w) /\ f[i] = Told(f[i - 1], q[i])
  BY <1>1, <1>2 DEF Path
<1>6. \A i \in 0..n : f[i] \in View /\ Sound(f[i], w)
  BY <1>1, <1>2 DEF Path
<1>7. Fits(q[1], v, w) /\ f[1] = Told(v, q[1])
  <2>1. 1 \in 1..n /\ 1 - 1 = 0
    BY <1>2
  <2>2. QED
    BY <1>1, <1>5, <2>1
<1>8. PICK g : g = [i \in 0..(n - 1) |-> f[i + 1]]
  OBVIOUS
<1>9. /\ \A i \in 0..(n - 1) : i + 1 \in 0..n /\ g[i] = f[i + 1]
      /\ g \in [0..(n - 1) -> View]
  BY <1>2, <1>6, <1>8
<1>10. ASSUME NEW i \in 1..(n - 1)
       PROVE  Fits(r[i], g[i - 1], w) /\ g[i] = Told(g[i - 1], r[i])
  <2>1. i + 1 \in 1..n /\ i - 1 \in 0..(n - 1) /\ i \in 0..(n - 1) /\ (i + 1) - 1 = i
        /\ (i - 1) + 1 = i
    BY <1>2
  <2>2. g[i - 1] = f[i] /\ g[i] = f[i + 1] /\ r[i] = q[i + 1]
    BY <1>4, <1>9, <2>1
  <2>3. QED
    BY <1>5, <2>1, <2>2
<1>11. Path(r, g, w)
  <2>1. \A i \in 0..(n - 1) : Sound(g[i], w)
    BY <1>6, <1>9
  <2>2. QED
    BY <1>4, <1>9, <1>10, <2>1 DEF Path
<1>12. g[0] = f[1] /\ g[n - 1] = f[n]
  <2>1. 0 \in 0..(n - 1) /\ n - 1 \in 0..(n - 1) /\ (n - 1) + 1 = n /\ 0 + 1 = 1
    BY <1>2
  <2>2. QED
    BY <1>9, <2>1
<1>13. Sound(f[1], w)
  BY <1>2, <1>6
<1>14. QED
  BY <1>1, <1>2, <1>3, <1>4, <1>7, <1>11, <1>12, <1>13 DEF Run

\* A run stays one while the world grows.
LEMMA RunGrown ==
  ASSUME NEW q \in Seq(Stuff), NEW v, NEW u, NEW w, NEW x, Grown(w, x), Run(q, v, u, w)
  PROVE  Run(q, v, u, x)
<1>1. PICK f : Path(q, f, w) /\ f[0] = v /\ f[Len(q)] = u
  BY DEF Run
<1>2. \A i \in 0..Len(q) : f[i] \in View /\ Sound(f[i], w)
  BY <1>1 DEF Path
<1>3. \A i \in 0..Len(q) : Sound(f[i], x)
  BY <1>2, GrownKeeps
<1>4. ASSUME NEW i \in 1..Len(q)
      PROVE  Fits(q[i], f[i - 1], x)
  <2>1. i - 1 \in 0..Len(q) /\ i \in 0..Len(q) /\ q[i] \in Stuff
    BY LenProperties, ElementOfSeq
  <2>2. Fits(q[i], f[i - 1], w) /\ f[i] = Told(f[i - 1], q[i])
    BY <1>1 DEF Path
  <2>3. QED
    BY <1>2, <2>1, <2>2, GrownKeeps
<1>5. Path(q, f, x)
  BY <1>1, <1>3, <1>4 DEF Path
<1>6. QED
  BY <1>1, <1>5 DEF Run

\* What two views say of a span.
Agree(v, u, s) ==
  /\ s \in v.made <=> s \in u.made
  /\ s \in v.gone <=> s \in u.gone
  /\ s \in v.on <=> s \in u.on
  /\ v.field[s] = u.field[s]

\* A message of another span says nothing of a span.
LEMMA OtherSpan ==
  ASSUME NEW v \in View, NEW m \in Stuff, NEW s \in Spans, m = AppStop \/ m.span # s
  PROVE  Agree(v, Told(v, m), s)
<1>1. m = AppStop => m.type = "AppStop"
  BY DEF AppStop
<1>2. /\ s \in v.made <=> s \in Told(v, m).made
      /\ s \in v.gone <=> s \in Told(v, m).gone
  BY <1>1, TellsOf
<1>3. s \in v.on <=> s \in Told(v, m).on
  BY <1>1, TellsOf
<1>4. v.field[s] = Told(v, m).field[s]
  <2>1. v.field \in [Spans -> 0..MaxNotes]
    BY ViewIs
  <2>2. QED
    BY <1>1, <2>1, TellsOf
<1>5. QED
  BY <1>2, <1>3, <1>4 DEF Agree

\* A run without a message of a span says nothing of it.
LEMMA Untouched ==
  ASSUME NEW q \in Seq(Stuff), NEW v, NEW u, NEW w, Run(q, v, u, w), NEW s \in Spans,
         \A i \in 1..Len(q) : q[i] = AppStop \/ q[i].span # s
  PROVE  Agree(v, u, s)
<1>1. PICK f : Path(q, f, w) /\ f[0] = v /\ f[Len(q)] = u
  BY DEF Run
<1>2. PICK n \in Nat : n = Len(q)
  OBVIOUS
<1>3. PICK T : T = {i \in 0..n : ~Agree(f[0], f[i], s)}
  OBVIOUS
<1>4. CASE T = {}
  BY <1>1, <1>2, <1>3, <1>4
<1>5. CASE T # {}
  <2>1. T \subseteq Nat
    BY <1>3
  <2>2. PICK i \in T : \A j \in T : ~(<<j, i>> \in OpToRel(<, Nat))
    BY <1>5, <2>1, NatLessThanWellFounded, WFMin
  <2>3. i \in 0..n /\ ~Agree(f[0], f[i], s)
    BY <1>3
  <2>4. i # 0
    BY <2>3 DEF Agree
  <2>5. i \in 1..n /\ i - 1 \in 0..n /\ i - 1 \in Nat /\ i \in Nat /\ i - 1 < i
    BY <2>3, <2>4
  <2>6. <<i - 1, i>> \in OpToRel(<, Nat)
    BY <2>5 DEF OpToRel
  <2>7. Agree(f[0], f[i - 1], s)
    BY <1>3, <2>2, <2>5, <2>6
  <2>8. f[i] = Told(f[i - 1], q[i]) /\ f[i - 1] \in View
    BY <1>1, <1>2, <2>5 DEF Path
  <2>9. q[i] \in Stuff /\ (q[i] = AppStop \/ q[i].span # s)
    BY <1>2, <2>5, ElementOfSeq
  <2>10. Agree(f[i - 1], f[i], s)
    BY <2>8, <2>9, OtherSpan
  <2>11. QED
    BY <2>3, <2>7, <2>10 DEF Agree
<1>6. QED
  BY <1>4, <1>5

-----------------------------------------------------------------------------
(* The application.                                                        *)

\* What an application does adds to what it did.
Growing ==
  /\ born \subseteq born' /\ enters <= enters' /\ shared \subseteq shared'
  /\ \A s \in born : regParent'[s] = regParent[s] /\ tlParent'[s] = tlParent[s]

\* The world grows with it, for the connection and for the run's task.
LEMMA WorldGrows ==
  ASSUME Shapes, enters' \in Nat, running \subseteq born, Growing, UNCHANGED <<app, running>>
  PROVE  Grown(World(born), World(born)') /\ Grown(World(running), World(running)')
<1>1. {s \in born : Hidden(s)} \subseteq {s \in born : Hidden(s)}'
  BY DEF Growing, Hidden
<1>2. enters \in Nat /\ enters' \in Nat
  BY ConstantsAssumption DEF Shapes
<1>3. QED
  BY <1>1, <1>2 DEF Grown, World, Growing

\* The channels hold messages.
LEMMA ChannelsHold ==
  ASSUME Shapes
  PROVE  channel \in Seq(Stuff) /\ inbox \in Seq(Stuff)
<1>1. Msg \cup {AppStop} \subseteq Stuff /\ Msg \cup Seen \subseteq Stuff
  BY DEF Stuff
<1>2. QED
  BY <1>1, SeqMonotonic DEF Shapes

\* What the connection and the task know of was born.
LEMMA RunningBorn ==
  ASSUME Shapes, NEW v, NEW m, NEW u, Views(v, m, u)
  PROVE  /\ running = m.made /\ running \subseteq born /\ v.made \subseteq running
         /\ Sound(v, World(running)) /\ Sound(m, World(born)) /\ Sound(u, World(born))
<1>1. Run(channel, m, u, World(born)) /\ Run(inbox, v, m, World(running)) /\ TakenInv(m)
  BY DEF Views
<1>2. Sound(v, World(running)) /\ Sound(m, World(born)) /\ Sound(u, World(born))
  BY <1>1, RunEnds, ChannelsHold
<1>3. QED
  BY <1>1, <1>2 DEF TakenInv, Sound, World

\* A span is rooted for good.
LEMMA RootedStays ==
  ASSUME Shapes, ThreadsInv, Growing, NEW s, Rooted(s)
  PROVE  Rooted(s)'
<1>1. PICK a \in Above(s) : regParent[a] # tlParent[a]
  BY DEF Rooted
<1>2. a \in Spans
  BY DEF Above
<1>3. a \in born
  BY <1>1, <1>2 DEF ThreadsInv
<1>4. regParent'[a] # tlParent'[a]
  BY <1>1, <1>3 DEF Growing
<1>5. \A c \in Spans : tlParent[c] # NoSpan => tlParent'[c] = tlParent[c]
  BY DEF Growing, ThreadsInv
<1>6. ASSUME NEW S \in SUBSET Spans, s \in S,
             \A c \in S : tlParent'[c] # NoSpan => tlParent'[c] \in S
      PROVE  a \in S
  <2>1. \A c \in S : tlParent[c] # NoSpan => tlParent[c] \in S
    BY <1>5, <1>6
  <2>2. QED
    BY <1>6, <2>1 DEF Above
<1>7. a \in Above(s)'
  BY <1>2, <1>6 DEF Above
<1>8. QED
  BY <1>4, <1>7 DEF Rooted

\* A step of the application: what the connection and the task have is as before, and
\* the messages lead to a view of what was done.
LEMMA AppKeeps ==
  ASSUME IInv, NEW v, NEW m, NEW u, Views(v, m, u), Growing, Shapes', ThreadsInv',
         UNCHANGED <<app, client, lifeVars, inbox, taskVars, dbVars>>,
         NEW x \in View, Run(channel', m, x, World(born)'), SentInv(x)'
  PROVE  IInv'
<1>1. /\ Shapes /\ ThreadsInv /\ RowsInv /\ MarksInv /\ OnlySidRefused /\ OnlySharedSkipped
      /\ UNCHANGED <<app, client, lifetime, running, refused, inbox, task, created, subs, entered,
                     busy, enterIds, draft, batch, events, skipped, rows, victims>>
  BY DEF IInv, lifeVars, taskVars, dbVars
<1>2. RowsInv'
  BY <1>1 DEF RowsInv
<1>3. MarksInv'
  BY <1>1, RootedStays DEF MarksInv
<1>4. OnlySidRefused' /\ OnlySharedSkipped'
  BY <1>1 DEF OnlySidRefused, OnlySharedSkipped, Hidden, Growing
<1>5. running \subseteq born /\ v.made \subseteq born
  BY <1>1, RunningBorn
<1>6. enters' \in Nat
  BY ConstantsAssumption DEF Shapes
<1>7. Run(inbox', v, m, World(running)')
  <2>1. Grown(World(running), World(running)')
    BY <1>1, <1>5, <1>6, WorldGrows
  <2>2. Run(inbox, v, m, World(running))
    BY DEF Views
  <2>3. QED
    BY <1>1, <2>1, <2>2, ChannelsHold, RunGrown
<1>8. TakenInv(m)'
  BY <1>1 DEF Views, TakenInv, Hidden
<1>9. TaskInv(v)'
  <2>1. TaskInv(v)
    BY DEF Views
  <2>2. \A y \in Spans : \A c \in subs[y] : tlParent'[c] = y
    BY <1>5, <2>1 DEF TaskInv, Growing
  <2>3. QED
    BY <1>1, <2>1, <2>2 DEF TaskInv
<1>10. ToldInv(v)'
  BY <1>1 DEF Views, ToldInv, Growing, DraftRows, DraftLeft
<1>11. Views(v, m, x)'
  BY <1>7, <1>8, <1>9, <1>10 DEF Views
<1>12. QED
  BY <1>1, <1>2, <1>3, <1>4, <1>11 DEF IInv

\* Nothing is done with span s.
Same(s) ==
  /\ s \in born' <=> s \in born
  /\ s \in dead' <=> s \in dead
  /\ field'[s] = field[s]
  /\ \A t \in Threads : s \in Inside(t)' <=> s \in Inside(t)

\* Of such a span a view says as much as before.
LEMMA SaysSame ==
  ASSUME NEW u, NEW x, NEW s, Says(u, s), Agree(u, x, s), Same(s), app' = app,
         shared \subseteq shared'
  PROVE  Says(x, s)'
BY DEF Says, Agree, Same, Hidden

\* A step of the application that sends k of span s, as on_msg does it.
LEMMA OnMsgKeeps ==
  ASSUME IInv, NEW v, NEW m, NEW u, Views(v, m, u), AppStep, Growing, ThreadsInv',
         NEW s \in Spans \cup {NoSpan}, NEW k \in Msg, OnMsg(s, k),
         channel' \in Seq(Msg \cup {AppStop}) /\ missed' \subseteq Spans \cup {NoSpan} => Shapes',
         enters' \in Nat,
         IF s = NoSpan THEN k.type = "Event" ELSE k.type # "Event" /\ k.span = s,
         \A b \in Spans \ {s} : Same(b),
         client # "ended" /\ (s = NoSpan \/ ~Hidden(s)) =>
           /\ Fits(k, u, World(born)')
           /\ k.type = "Create" => s \in born'
           /\ k.type = "Enter" => enters' = enters + 1
           /\ s # NoSpan => Says(Told(u, k), s)'
  PROVE  IInv'
<1>1. /\ Shapes /\ ThreadsInv /\ SentInv(u) /\ u \in View /\ Run(channel, m, u, World(born))
      /\ UNCHANGED <<app, client, lifetime, running>>
      /\ UNCHANGED <<app, client, lifeVars, inbox, taskVars, dbVars>>
  BY DEF IInv, Views, AppStep, lifeVars
<1>2. channel \in Seq(Stuff) /\ k \in Stuff /\ NoSpan \notin Spans
  BY <1>1, ChannelsHold, NoSpanIsNone DEF Stuff
<1>3. Run(channel, m, u, World(born)')
  <2>1. Grown(World(born), World(born)')
    BY <1>1, RunningBorn, WorldGrows
  <2>2. QED
    BY <1>1, <1>2, <2>1, RunGrown
<1>4. CASE s # NoSpan /\ Hidden(s)
  <2>1. channel' = channel /\ missed' = missed
    BY <1>4 DEF OnMsg
  <2>2. Shapes'
    BY <1>1, <2>1 DEF Shapes
  <2>3. ASSUME NEW b \in Spans \ missed
        PROVE  Says(u, b)'
    <3>1. Says(u, b)
      BY <1>1 DEF SentInv
    <3>2. CASE b # s
      BY <1>1, <3>1, <3>2, SaysSame DEF Agree, Growing
    <3>3. CASE b = s
      <4>1. b \notin u.made /\ b \notin u.gone
        BY <1>4, <3>1, <3>3 DEF Says
      <4>2. QED
        BY <1>1, <1>4, <3>3, <4>1 DEF Says, Hidden
    <3>4. QED
      BY <3>2, <3>3
  <2>4. SentInv(u)'
    BY <1>1, <2>1, <2>3 DEF SentInv
  <2>5. QED
    BY <1>1, <1>3, <2>1, <2>2, <2>4, AppKeeps
<1>5. CASE client = "ended" /\ ~(s # NoSpan /\ Hidden(s))
  <2>1. channel' = channel /\ missed' = missed \cup {s}
    BY <1>5 DEF OnMsg
  <2>2. Shapes'
    BY <1>1, <2>1 DEF Shapes
  <2>3. ASSUME NEW b \in Spans \ missed'
        PROVE  Says(u, b)'
    <3>1. Says(u, b) /\ b # s
      BY <1>1, <2>1 DEF SentInv
    <3>2. QED
      BY <1>1, <3>1, SaysSame DEF Agree, Growing
  <2>4. SentInv(u)'
    BY <1>1, <1>5, <2>1, <2>3 DEF SentInv
  <2>5. QED
    BY <1>1, <1>3, <2>1, <2>2, <2>4, AppKeeps
<1>6. CASE client # "ended" /\ ~(s # NoSpan /\ Hidden(s))
  <2>1. channel' = Append(channel, k) /\ missed' = missed /\ missed = {}
    BY <1>1, <1>6 DEF OnMsg, SentInv
  <2>2. Fits(k, u, World(born)') /\ Sound(u, World(born)')
    BY <1>2, <1>3, <1>6, RunEnds
  <2>3. Told(u, k) \in View /\ Sound(Told(u, k), World(born)')
    <3>1. k.type = "Create" => k.span \in World(born)'.known
      BY <1>2, <1>6 DEF World
    <3>2. k.type = "Enter" => u.enters + 1 <= World(born)'.enters
      <4>1. u.enters <= enters /\ u.enters \in Nat /\ enters \in Nat
        BY <1>1, RunningBorn, ViewIs, ConstantsAssumption DEF Sound, World, Shapes
      <4>2. k.type = "Enter" => enters' = enters + 1 /\ s # NoSpan
        BY <1>6
      <4>3. QED
        BY <4>1, <4>2 DEF World
    <3>3. QED
      BY <1>1, <1>2, <2>2, <3>1, <3>2, ToldIsSound
  <2>4. Run(channel', m, Told(u, k), World(born)')
    BY <1>2, <1>3, <2>1, <2>2, <2>3, RunAppend
  <2>5. channel' \in Seq(Msg \cup {AppStop})
    BY <1>1, <2>1 DEF Shapes
  <2>6. Shapes'
    BY <1>1, <2>1, <2>5 DEF Shapes
  <2>7. ASSUME NEW b \in Spans \ missed'
        PROVE  Says(Told(u, k), b)'
    <3>1. CASE b = s
      BY <1>2, <1>6, <3>1
    <3>2. CASE b # s
      <4>1. Says(u, b)
        BY <1>1, <2>1 DEF SentInv
      <4>2. Agree(u, Told(u, k), b)
        <5>1. CASE s = NoSpan
          <6>1. Told(u, k) = u
            BY <1>1, <1>2, <5>1, TellsOf
          <6>2. QED
            BY <6>1 DEF Agree
        <5>2. CASE s # NoSpan
          BY <1>1, <1>2, <3>2, <5>2, OtherSpan
        <5>3. QED
          BY <5>1, <5>2
      <4>3. QED
        BY <1>1, <3>2, <4>1, <4>2, SaysSame DEF Growing
    <3>3. QED
      BY <3>1, <3>2
  <2>8. SentInv(Told(u, k))'
    BY <1>1, <1>6, <2>1, <2>7 DEF SentInv
  <2>9. QED
    BY <1>1, <2>3, <2>4, <2>6, <2>8, AppKeeps
<1>7. QED
  BY <1>4, <1>5, <1>6

\* The spans that a thread is in are open, its current one among them.
LEMMA InsideIs ==
  ASSUME Shapes, NEW t \in Threads
  PROVE  /\ inside[t] \in Seq(Open) /\ Len(inside[t]) \in Nat
         /\ DOMAIN inside[t] = 1..Len(inside[t])
         /\ Inside(t) = {inside[t][i] : i \in 1..Len(inside[t])}
         /\ Inside(t) \subseteq Open /\ Open \subseteq Spans
         /\ Current(t) \in Open \cup {NoSpan}
<1>1. /\ inside[t] \in Seq(Open) /\ Len(inside[t]) \in Nat
      /\ DOMAIN inside[t] = 1..Len(inside[t])
  BY DEF Shapes
<1>2. \A i \in 1..Len(inside[t]) : inside[t][i] \in Open
  BY <1>1, ElementOfSeq
<1>3. inside[t] # <<>> => Len(inside[t]) \in 1..Len(inside[t])
  BY <1>1
<1>4. Open \subseteq Spans
  BY DEF Shapes, Open
<1>5. QED
  BY <1>1, <1>2, <1>3, <1>4 DEF Inside, Current

\* on_new_span.
LEMMA NewSpanKeeps ==
  ASSUME IInv, NEW t \in Threads, NEW s \in Spans, NEW e \in Open \cup {NoSpan},
         NEW root \in BOOLEAN, NewSpan(t, s, e, root)
  PROVE  IInv'
<1>1. PICK v, m, u : Views(v, m, u)
  BY DEF IInv
<1>2. PICK p : p = LayerParent(t, e)
  OBVIOUS
<1>3. PICK k : k = [type |-> "Create", span |-> s, parent |-> p]
  OBVIOUS
<1>4. /\ Shapes /\ ThreadsInv /\ s \notin born /\ s # NoSpan
      /\ OnMsg(s, k) /\ born' = born \cup {s}
      /\ regParent' = [regParent EXCEPT ![s] = RegistryParent(t, e, root)]
      /\ tlParent' = [tlParent EXCEPT ![s] = p]
      /\ UNCHANGED <<app, stopped, client, lifetime, running, refused, inbox, task,
                     dead, inside, notes, field, enters, shared>>
      /\ AppStep
  BY <1>2, <1>3, NoSpanIsNone DEF IInv, NewSpan, AppStep, lifeVars, taskVars
<1>5. p \in Spans \cup {NoSpan} /\ RegistryParent(t, e, root) \in Spans \cup {NoSpan}
  BY <1>2, <1>4, InsideIs DEF LayerParent, RegistryParent
<1>6. k \in Msg /\ k.type = "Create" /\ k.span = s /\ k.parent = p
  BY <1>3, <1>5, MessageTypes
<1>7. Growing
  BY <1>4, ConstantsAssumption DEF Growing, Shapes
<1>8. inside' \in [Threads -> Seq(Open')]
  <2>1. Open \subseteq Open'
    BY <1>4 DEF Open, Shapes
  <2>2. \A r \in Threads : inside[r] \in Seq(Open')
    BY <1>4, <2>1, SeqMonotonic DEF Shapes
  <2>3. QED
    BY <1>4, <2>2 DEF Shapes
<1>9. channel' \in Seq(Msg \cup {AppStop}) /\ missed' \subseteq Spans \cup {NoSpan} => Shapes'
  <2>1. Spans \subseteq Nat \ {0} /\ NoSpan = 0
    BY ConstantsAssumption DEF Spans, NoSpan
  <2>2. \A r \in Spans : r < s => r \in born
    BY DEF NewSpan
  <2>3. \A b \in born' : \A r \in Spans : r < b => r \in born'
    BY <1>4, <2>2 DEF Shapes
  <2>4. p = NoSpan \/ p \in born
    BY <1>2, <1>4, InsideIs DEF LayerParent, Open
  <2>5. p < s
    <3>1. p \in born => ~(s < p)
      BY <1>4 DEF Shapes
    <3>2. QED
      BY <1>4, <1>5, <2>1, <2>4, <3>1
  <2>6. \A b \in Spans : tlParent'[b] < b
    BY <1>4, <2>5 DEF Shapes
  <2>7. QED
    BY <1>4, <1>5, <1>8, <2>3, <2>6 DEF Shapes
<1>10. ThreadsInv'
  <2>1. \A r \in Threads : Inside(r)' = Inside(r)
    BY <1>4 DEF Inside
  <2>2. \A b \in Spans \ born' :
           regParent'[b] = NoSpan /\ tlParent'[b] = NoSpan /\ field'[b] = 0
    BY <1>4 DEF ThreadsInv, Shapes
  <2>3. QED
    BY <1>4, <2>1, <2>2 DEF ThreadsInv
<1>11. \A b \in Spans \ {s} : Same(b)
  BY <1>4 DEF Same, Inside
<1>12. ASSUME client # "ended", ~Hidden(s)
       PROVE  Fits(k, u, World(born)') /\ Says(Told(u, k), s)'
  <2>1. Sound(u, World(born)) /\ u \in View
    BY <1>1, <1>4, RunningBorn DEF Views
  <2>2. /\ s \notin u.made /\ s \notin u.gone /\ s \notin u.on /\ u.field[s] = 0
    BY <1>4, <2>1 DEF Sound, World
  <2>3. Fits(k, u, World(born)')
    BY <1>4, <1>5, <1>6, <2>2 DEF Fits, About, World, Shapes
  <2>4. field'[s] = 0 /\ s \notin dead' /\ \A r \in Threads : s \notin Inside(r)'
    <3>1. \A r \in Threads : Inside(r)' = Inside(r) /\ Inside(r) \subseteq born
      BY <1>4, InsideIs DEF Inside, Open
    <3>2. QED
      BY <1>4, <3>1 DEF ThreadsInv, Shapes
  <2>5. /\ Told(u, k).made = u.made \cup {s} /\ Told(u, k).gone = u.gone
        /\ Told(u, k).on = u.on /\ Told(u, k).field = u.field
    BY <1>6, <2>1, TellsOf DEF Stuff
  <2>6. QED
    BY <1>4, <1>12, <2>2, <2>3, <2>4, <2>5 DEF Says, Hidden
<1>13. enters' \in Nat
  BY <1>4, ConstantsAssumption DEF Shapes
<1>14. s \in born'
  BY <1>4
<1>15. QED
  BY <1>1, <1>4, <1>6, <1>7, <1>9, <1>10, <1>11, <1>12, <1>13, <1>14, OnMsgKeeps

\* A span that is open and not hidden is one of a view of what was done.
LEMMA OpenIsTold ==
  ASSUME Shapes, NEW v, NEW m, NEW u, Views(v, m, u), client # "ended",
         NEW s \in Open, ~Hidden(s)
  PROVE  s \in Spans /\ s \in u.made \ u.gone /\ Says(u, s) /\ u \in View
<1>1. Says(u, s) /\ s \in Spans /\ s \in born /\ s \notin dead
  BY DEF Views, SentInv, Open, Shapes
<1>2. QED
  BY <1>1 DEF Says, Views

\* on_record.
LEMMA RecordFieldKeeps ==
  ASSUME IInv, NEW s \in Open, RecordField(s)
  PROVE  IInv'
<1>1. PICK v, m, u : Views(v, m, u)
  BY DEF IInv
<1>2. PICK k : k = [type |-> "Record", span |-> s, field |-> notes + 1]
  OBVIOUS
<1>3. /\ Shapes /\ ThreadsInv /\ s \in Spans /\ s \in born /\ s # NoSpan
      /\ OnMsg(s, k) /\ notes < app.notes /\ notes' = notes + 1
      /\ field' = [field EXCEPT ![s] = notes + 1]
      /\ UNCHANGED <<app, stopped, client, lifetime, running, refused, inbox, task,
                     born, dead, regParent, tlParent, inside, enters, shared>>
      /\ AppStep
  BY <1>2, NoSpanIsNone DEF IInv, RecordField, AppStep, lifeVars, taskVars, Open, Shapes
<1>4. notes + 1 \in 1..MaxNotes
  BY <1>3, ConstantsAssumption DEF Shapes
<1>5. k \in Msg /\ k.type = "Record" /\ k.span = s /\ k.field = notes + 1
  BY <1>2, <1>3, <1>4, MessageTypes
<1>6. Growing
  BY <1>3, ConstantsAssumption DEF Growing, Shapes
<1>7. channel' \in Seq(Msg \cup {AppStop}) /\ missed' \subseteq Spans \cup {NoSpan} => Shapes'
  <2>1. field' \in [Spans -> 0..MaxNotes] /\ notes' \in 0..MaxNotes /\ Open' = Open
    BY <1>3, <1>4 DEF Shapes, Open
  <2>2. QED
    BY <1>3, <2>1 DEF Shapes
<1>8. ThreadsInv'
  BY <1>3 DEF ThreadsInv, Inside, Shapes
<1>9. \A b \in Spans \ {s} : Same(b)
  BY <1>3 DEF Same, Inside, Shapes
<1>10. ASSUME client # "ended", ~Hidden(s)
       PROVE  Fits(k, u, World(born)') /\ Says(Told(u, k), s)'
  <2>1. s \in u.made \ u.gone /\ Says(u, s) /\ u \in View
    BY <1>1, <1>3, <1>10, OpenIsTold
  <2>2. Fits(k, u, World(born)')
    BY <1>5, <2>1 DEF Fits, About
  <2>3. /\ Told(u, k).made = u.made /\ Told(u, k).gone = u.gone
        /\ Told(u, k).on = u.on /\ Told(u, k).field = [u.field EXCEPT ![s] = notes + 1]
    <3>1. k \in Stuff /\ u \in View
      BY <1>5, <2>1 DEF Stuff
    <3>2. Told(u, k).field = [u.field EXCEPT ![k.span] = k.field]
      BY <1>5, <3>1, TellsOf
    <3>3. QED
      BY <1>5, <3>1, <3>2, TellsOf
  <2>4. Told(u, k).field[s] = field'[s]
    BY <1>3, <2>1, <2>3, ViewIs DEF Shapes
  <2>5. \A r \in Threads : Inside(r)' = Inside(r)
    BY <1>3 DEF Inside
  <2>6. QED
    BY <1>3, <2>1, <2>2, <2>3, <2>4, <2>5 DEF Says, Hidden
<1>11. enters' \in Nat
  BY <1>3, ConstantsAssumption DEF Shapes
<1>12. QED
  BY <1>1, <1>3, <1>5, <1>6, <1>7, <1>8, <1>9, <1>10, <1>11, OnMsgKeeps

\* on_event names a span that is open, which may be hidden, or none.
LEMMA RecordEventKeeps ==
  ASSUME IInv, NEW s \in Open \cup {NoSpan}, RecordEvent(s)
  PROVE  IInv'
<1>1. PICK v, m, u : Views(v, m, u)
  BY DEF IInv
<1>2. PICK k : k = [type |-> "Event", span |-> s]
  OBVIOUS
<1>3. /\ Shapes /\ ThreadsInv /\ OnMsg(NoSpan, k) /\ notes < app.notes /\ notes' = notes + 1
      /\ UNCHANGED <<app, stopped, client, lifetime, running, refused, inbox, task, field,
                     born, dead, regParent, tlParent, inside, enters, shared>>
      /\ AppStep
  BY <1>2 DEF IInv, RecordEvent, AppStep, lifeVars, taskVars
<1>4. k \in Msg /\ k.type = "Event" /\ k.span = s
  BY <1>2, <1>3 DEF Msg, Open, Shapes
<1>5. Growing
  BY <1>3, ConstantsAssumption DEF Growing, Shapes
<1>6. channel' \in Seq(Msg \cup {AppStop}) /\ missed' \subseteq Spans \cup {NoSpan} => Shapes'
  <2>1. notes' \in 0..MaxNotes /\ Open' = Open
    BY <1>3, ConstantsAssumption DEF Shapes, Open
  <2>2. QED
    BY <1>3, <2>1 DEF Shapes
<1>7. ThreadsInv'
  BY <1>3 DEF ThreadsInv, Inside
<1>8. \A b \in Spans \ {NoSpan} : Same(b)
  BY <1>3 DEF Same, Inside
<1>9. ASSUME client # "ended"
      PROVE  Fits(k, u, World(born)')
  <2>1. s \in Open /\ ~Hidden(s) => s \in u.made
    BY <1>1, <1>3, <1>9, OpenIsTold
  <2>2. s \in {NoSpan} \cup World(born)'.hidden \cup u.made
    BY <1>3, <2>1 DEF World, Hidden, Open
  <2>3. QED
    BY <1>4, <2>2 DEF Fits, About
<1>10. enters' \in Nat
  BY <1>3, ConstantsAssumption DEF Shapes
<1>11. QED
  BY <1>1, <1>3, <1>4, <1>5, <1>6, <1>7, <1>8, <1>9, <1>10, OnMsgKeeps

\* The place that Append gives to its element, and those it leaves alone.
LEMMA AppendPlaces ==
  ASSUME NEW S, NEW q \in Seq(S), NEW x \in S
  PROVE  /\ Append(q, x) \in Seq(S)
         /\ Len(q) \in Nat /\ Len(Append(q, x)) = Len(q) + 1
         /\ \A i \in 1..Len(q) : Append(q, x)[i] = q[i]
         /\ Append(q, x)[Len(q) + 1] = x
BY AppendProperties, LenProperties

\* on_enter: who is in the span then.
LEMMA EnterInside ==
  ASSUME IInv, NEW t \in Threads, NEW s \in Open, Enter(t, s)
  PROVE  /\ Inside(t)' = Inside(t) \cup {s}
         /\ \A r \in Threads \ {t} : Inside(r)' = Inside(r)
         /\ inside' \in [Threads -> Seq(Open)]
         /\ \A r \in Threads : \A i, j \in 1..Len(inside'[r]) :
              inside'[r][i] = inside'[r][j] => i = j
<1>1. Shapes /\ ThreadsInv /\ s \notin Inside(t) /\ inside \in [Threads -> Seq(Open)]
      /\ inside' = [inside EXCEPT ![t] = Append(inside[t], s)]
  BY DEF IInv, Enter, Shapes
<1>2. PICK q \in Seq(Open), n \in Nat : q = inside[t] /\ n = Len(q)
  BY <1>1, InsideIs
<1>3. PICK z \in Seq(Open) : z = Append(q, s)
  BY AppendPlaces
<1>4. /\ Len(z) = n + 1 /\ (\A i \in 1..n : z[i] = q[i]) /\ z[n + 1] = s
  BY <1>2, <1>3, AppendPlaces
<1>5. inside'[t] = z /\ \A r \in Threads \ {t} : inside'[r] = inside[r]
  BY <1>1, <1>2, <1>3
<1>6. inside' \in [Threads -> Seq(Open)]
  BY <1>1, <1>2, <1>3
<1>7. Inside(t) = {q[i] : i \in 1..n}
  BY <1>1, <1>2, InsideIs
<1>8. Inside(t)' = {z[i] : i \in 1..(n + 1)}
  <2>1. DOMAIN z = 1..(n + 1)
    BY <1>4
  <2>2. QED
    BY <1>5, <2>1 DEF Inside
<1>9. Inside(t)' = Inside(t) \cup {s}
  <2>1. \A i \in 1..(n + 1) : i \in 1..n \/ i = n + 1
    OBVIOUS
  <2>2. n + 1 \in 1..(n + 1) /\ 1..n \subseteq 1..(n + 1)
    OBVIOUS
  <2>3. QED
    BY <1>4, <1>7, <1>8, <2>1, <2>2
<1>10. \A r \in Threads \ {t} : Inside(r)' = Inside(r)
  BY <1>5 DEF Inside
<1>11. ASSUME NEW i \in 1..(n + 1), NEW j \in 1..(n + 1), z[i] = z[j]
       PROVE  i = j
  <2>1. \A k \in 1..n : q[k] # s
    BY <1>1, <1>7
  <2>2. \A k, l \in 1..n : q[k] = q[l] => k = l
    BY <1>1, <1>2 DEF ThreadsInv
  <2>3. (i \in 1..n \/ i = n + 1) /\ (j \in 1..n \/ j = n + 1)
    OBVIOUS
  <2>4. QED
    BY <1>4, <1>11, <2>1, <2>2, <2>3
<1>12. \A r \in Threads : \A i, j \in 1..Len(inside'[r]) :
          inside'[r][i] = inside'[r][j] => i = j
  <2>1. \A i, j \in 1..Len(inside'[t]) : inside'[t][i] = inside'[t][j] => i = j
    BY <1>4, <1>5, <1>11
  <2>2. \A r \in Threads \ {t} : \A i, j \in 1..Len(inside'[r]) :
          inside'[r][i] = inside'[r][j] => i = j
    BY <1>1, <1>5 DEF ThreadsInv
  <2>3. QED
    BY <2>1, <2>2
<1>13. QED
  BY <1>6, <1>9, <1>10, <1>12

\* A step of the application that sends nothing: nothing is told of it.
LEMMA SilentKeeps ==
  ASSUME IInv, AppStep, Growing, ThreadsInv', UNCHANGED <<channel, missed, born, dead, field>>,
         channel' \in Seq(Msg \cup {AppStop}) /\ missed' \subseteq Spans \cup {NoSpan} => Shapes',
         enters' \in Nat, ~EnableEnter
  PROVE  IInv'
<1>1. PICK v, m, u : Views(v, m, u)
  BY DEF IInv
<1>2. /\ Shapes /\ SentInv(u) /\ u \in View /\ Run(channel, m, u, World(born))
      /\ UNCHANGED <<app, client, lifetime, running>>
      /\ UNCHANGED <<app, client, lifeVars, inbox, taskVars, dbVars>>
  BY <1>1 DEF IInv, Views, AppStep, lifeVars
<1>3. Shapes'
  BY <1>2 DEF Shapes
<1>4. Run(channel', m, u, World(born)')
  BY <1>1, <1>2, RunningBorn, WorldGrows, ChannelsHold, RunGrown
<1>5. SentInv(u)'
  BY <1>2 DEF SentInv, Says, Hidden
<1>6. QED
  BY <1>1, <1>2, <1>3, <1>4, <1>5, AppKeeps

\* on_enter.
LEMMA EnterKeeps ==
  ASSUME IInv, NEW t \in Threads, NEW s \in Open, Enter(t, s)
  PROVE  IInv'
<1>1. PICK v, m, u : Views(v, m, u)
  BY DEF IInv
<1>2. PICK k : k = [type |-> "Enter", span |-> s]
  OBVIOUS
<1>3. /\ Shapes /\ ThreadsInv /\ s \in Spans /\ s \in born /\ s # NoSpan
      /\ enters < app.enters /\ enters' = enters + 1
      /\ s \notin Inside(t)
      /\ shared' = IF \E r \in Threads : s \in Inside(r) THEN shared \cup {s} ELSE shared
      /\ UNCHANGED <<app, stopped, client, lifetime, running, refused, inbox, task,
                     born, dead, regParent, tlParent, notes, field>>
      /\ AppStep
  BY NoSpanIsNone DEF IInv, Enter, AppStep, lifeVars, taskVars, Open, Shapes
<1>4. enters' \in 0..MaxEnters /\ enters \in Nat /\ enters' \in Nat
  BY <1>3, ConstantsAssumption DEF Shapes
<1>5. /\ Inside(t)' = Inside(t) \cup {s}
      /\ \A r \in Threads \ {t} : Inside(r)' = Inside(r)
      /\ inside' \in [Threads -> Seq(Open)]
      /\ \A r \in Threads : \A i, j \in 1..Len(inside'[r]) :
           inside'[r][i] = inside'[r][j] => i = j
  BY EnterInside
<1>6. Growing
  BY <1>3, <1>4 DEF Growing
<1>7. channel' \in Seq(Msg \cup {AppStop}) /\ missed' \subseteq Spans \cup {NoSpan} => Shapes'
  <2>1. Open' = Open /\ shared' \subseteq Spans
    BY <1>3 DEF Shapes, Open
  <2>2. QED
    BY <1>3, <1>4, <1>5, <2>1 DEF Shapes
<1>8. ThreadsInv'
  <2>1. ASSUME NEW b \in Spans \ shared', NEW r \in Threads, NEW z \in Threads,
               b \in Inside(r)', b \in Inside(z)'
        PROVE  r = z
    <3>1. CASE b = s
      BY <1>3, <1>5, <2>1, <3>1
    <3>2. CASE b # s
      <4>1. b \in Inside(r) /\ b \in Inside(z) /\ b \notin shared
        BY <1>3, <1>5, <2>1, <3>2
      <4>2. QED
        BY <1>3, <4>1 DEF ThreadsInv
    <3>3. QED
      BY <3>1, <3>2
  <2>2. \A b \in Spans \ born' :
           regParent'[b] = NoSpan /\ tlParent'[b] = NoSpan /\ field'[b] = 0
    BY <1>3 DEF ThreadsInv
  <2>3. QED
    BY <1>5, <2>1, <2>2 DEF ThreadsInv
<1>9. \A b \in Spans \ {s} : Same(b)
  BY <1>3, <1>5 DEF Same
<1>10. CASE ~EnableEnter
  <2>1. UNCHANGED <<channel, missed>>
    BY <1>10 DEF Enter
  <2>2. QED
    BY <1>3, <1>4, <1>6, <1>7, <1>8, <1>10, <2>1, SilentKeeps
<1>11. CASE EnableEnter
  <2>1. OnMsg(s, k)
    BY <1>2, <1>11 DEF Enter
  <2>2. k \in Msg /\ k.type = "Enter" /\ k.span = s
    BY <1>2, <1>3, MessageTypes
  <2>3. ASSUME client # "ended", ~Hidden(s)
        PROVE  Fits(k, u, World(born)') /\ Says(Told(u, k), s)'
    <3>1. s \in u.made \ u.gone /\ Says(u, s) /\ u \in View
      BY <1>1, <1>3, <2>3, OpenIsTold
    <3>2. s \notin u.on \/ s \in shared'
      BY <1>3, <1>11, <3>1 DEF Says
    <3>3. Fits(k, u, World(born)')
      BY <2>2, <3>1, <3>2 DEF Fits, About, World
    <3>4. /\ Told(u, k).made = u.made /\ Told(u, k).gone = u.gone
          /\ Told(u, k).on = u.on \cup {s} /\ Told(u, k).field = u.field
      BY <2>2, <3>1, TellsOf DEF Stuff
    <3>5. s \in Inside(t)'
      BY <1>5
    <3>6. QED
      BY <1>3, <3>1, <3>3, <3>4, <3>5 DEF Says, Hidden
  <2>4. QED
    BY <1>1, <1>3, <1>4, <1>6, <1>7, <1>8, <1>9, <2>1, <2>2, <2>3, OnMsgKeeps
<1>12. QED
  BY <1>10, <1>11

\* on_exit: who is in the span then.
LEMMA ExitInside ==
  ASSUME IInv, NEW t \in Threads, NEW l \in DOMAIN inside[t], Exit(t, l)
  PROVE  /\ inside[t][l] \in Inside(t) /\ inside[t][l] \in Open
         /\ Inside(t)' = Inside(t) \ {inside[t][l]}
         /\ \A r \in Threads \ {t} : Inside(r)' = Inside(r)
         /\ inside' \in [Threads -> Seq(Open)]
         /\ \A r \in Threads : \A i, j \in 1..Len(inside'[r]) :
              inside'[r][i] = inside'[r][j] => i = j
<1>1. PICK q \in Seq(Open), n \in Nat, s \in Open :
        q = inside[t] /\ n = Len(q) /\ l \in 1..n /\ s = q[l]
  BY InsideIs, ElementOfSeq DEF IInv
<1>2. PICK z : z = SubSeq(q, 1, l - 1) \o SubSeq(q, l + 1, n)
  OBVIOUS
<1>3. Shapes /\ ThreadsInv /\ inside \in [Threads -> Seq(Open)]
      /\ inside' = [inside EXCEPT ![t] = z]
  BY <1>1, <1>2 DEF IInv, Exit, Shapes
<1>4. /\ z \in Seq(Open) /\ Len(z) = n - 1
      /\ \A i \in 1..(n - 1) : z[i] = IF i < l THEN q[i] ELSE q[i + 1]
  <2>1. PICK a : a = SubSeq(q, 1, l - 1)
    OBVIOUS
  <2>2. PICK c : c = SubSeq(q, l + 1, n)
    OBVIOUS
  <2>3. a \in Seq(Open) /\ Len(a) = l - 1 /\ \A i \in 1..(l - 1) : a[i] = q[i]
    <3>1. \A i \in 1..(l - 1) : i \in 1..n /\ q[i] \in Open
      BY <1>1, ElementOfSeq
    <3>2. 1 \in Int /\ l - 1 \in Int /\ \A i \in 1..(l - 1) : 1 + i - 1 = i
      BY <1>1
    <3>3. /\ a \in Seq(Open)
          /\ Len(a) = IF 1 <= l - 1 THEN (l - 1) - 1 + 1 ELSE 0
          /\ \A i \in 1..((l - 1) - 1 + 1) : a[i] = q[1 + i - 1]
      BY <2>1, <3>1, <3>2, SubSeqProperties
    <3>4. (l - 1) - 1 + 1 = l - 1 /\ (~(1 <= l - 1) => l - 1 = 0)
      BY <1>1
    <3>5. QED
      BY <3>2, <3>3, <3>4
  <2>4. c \in Seq(Open) /\ Len(c) = n - l /\ \A i \in 1..(n - l) : c[i] = q[l + i]
    <3>1. \A i \in (l + 1)..n : i \in 1..n /\ q[i] \in Open
      BY <1>1, ElementOfSeq
    <3>2. l + 1 \in Int /\ n \in Int /\ \A i \in 1..(n - l) : (l + 1) + i - 1 = l + i
      BY <1>1
    <3>3. /\ c \in Seq(Open)
          /\ Len(c) = IF l + 1 <= n THEN n - (l + 1) + 1 ELSE 0
          /\ \A i \in 1..(n - (l + 1) + 1) : c[i] = q[(l + 1) + i - 1]
      BY <2>2, <3>1, <3>2, SubSeqProperties
    <3>4. n - (l + 1) + 1 = n - l /\ (~(l + 1 <= n) => n - l = 0)
      BY <1>1
    <3>5. QED
      BY <3>2, <3>3, <3>4
  <2>5. z = a \o c
    BY <1>2, <2>1, <2>2
  <2>6. /\ z \in Seq(Open) /\ Len(z) = n - 1
        /\ \A i \in 1..(n - 1) : z[i] = IF i <= l - 1 THEN a[i] ELSE c[i - (l - 1)]
    <3>1. /\ a \o c \in Seq(Open) /\ Len(a \o c) = Len(a) + Len(c)
          /\ \A i \in 1..(Len(a) + Len(c)) :
               (a \o c)[i] = IF i <= Len(a) THEN a[i] ELSE c[i - Len(a)]
      BY <2>3, <2>4, ConcatProperties
    <3>2. Len(a) + Len(c) = n - 1
      BY <1>1, <2>3, <2>4
    <3>3. QED
      BY <2>3, <2>5, <3>1, <3>2
  <2>7. ASSUME NEW i \in 1..(n - 1)
        PROVE  z[i] = IF i < l THEN q[i] ELSE q[i + 1]
    <3>1. CASE i < l
      <4>1. i \in 1..Len(a) /\ i <= Len(a)
        BY <1>1, <2>3, <3>1
      <4>2. QED
        BY <2>3, <2>6, <3>1, <4>1
    <3>2. CASE i >= l
      <4>1. i - (l - 1) \in 1..(n - l) /\ l + (i - (l - 1)) = i + 1 /\ ~(i <= l - 1)
        BY <1>1, <3>2
      <4>2. z[i] = c[i - (l - 1)]
        BY <2>6, <4>1
      <4>3. c[i - (l - 1)] = q[l + (i - (l - 1))]
        BY <2>4, <4>1
      <4>4. QED
        BY <1>1, <3>2, <4>1, <4>2, <4>3
    <3>3. QED
      BY <1>1, <3>1, <3>2
  <2>8. QED
    BY <2>6, <2>7
<1>5. inside'[t] = z /\ \A r \in Threads \ {t} : inside'[r] = inside[r]
  BY <1>3
<1>6. inside' \in [Threads -> Seq(Open)]
  BY <1>3, <1>4
<1>7. Inside(t) = {q[i] : i \in 1..n}
  BY <1>1, <1>3, InsideIs
<1>8. Inside(t)' = {z[i] : i \in 1..(n - 1)}
  <2>1. DOMAIN z = 1..(n - 1)
    BY <1>4
  <2>2. QED
    BY <1>5, <2>1 DEF Inside
<1>9. \A i, j \in 1..n : q[i] = q[j] => i = j
  BY <1>1, <1>3 DEF ThreadsInv
<1>10. ASSUME NEW y \in Inside(t)'
       PROVE  y \in Inside(t) \ {s}
  <2>1. PICK i \in 1..(n - 1) : y = z[i]
    BY <1>8
  <2>2. PICK j \in 1..n : y = q[j] /\ j # l
    <3>1. CASE i < l
      BY <1>1, <1>4, <2>1, <3>1
    <3>2. CASE i >= l
      <4>1. i + 1 \in 1..n /\ i + 1 # l /\ y = q[i + 1]
        BY <1>1, <1>4, <2>1, <3>2
      <4>2. QED
        BY <4>1
    <3>3. QED
      BY <1>1, <3>1, <3>2
  <2>3. QED
    BY <1>1, <1>7, <1>9, <2>2
<1>11. ASSUME NEW y \in Inside(t) \ {s}
       PROVE  y \in Inside(t)'
  <2>1. PICK j \in 1..n : y = q[j] /\ j # l
    BY <1>1, <1>7
  <2>2. CASE j < l
    <3>1. j \in 1..(n - 1) /\ z[j] = q[j]
      BY <1>1, <1>4, <2>2
    <3>2. QED
      BY <1>8, <2>1, <3>1
  <2>3. CASE j > l
    <3>1. j - 1 \in 1..(n - 1) /\ ~(j - 1 < l) /\ (j - 1) + 1 = j
      BY <1>1, <2>3
    <3>2. z[j - 1] = q[j]
      BY <1>4, <3>1
    <3>3. QED
      BY <1>8, <2>1, <3>1, <3>2
  <2>4. QED
    BY <1>1, <2>1, <2>2, <2>3
<1>12. ASSUME NEW i \in 1..(n - 1), NEW j \in 1..(n - 1), z[i] = z[j]
       PROVE  i = j
  <2>1. PICK a \in 1..n : z[i] = q[a] /\ a = IF i < l THEN i ELSE i + 1
    BY <1>4
  <2>2. PICK c \in 1..n : z[j] = q[c] /\ c = IF j < l THEN j ELSE j + 1
    BY <1>4
  <2>3. a = c
    BY <1>9, <1>12, <2>1, <2>2
  <2>4. QED
    BY <1>1, <2>1, <2>2, <2>3
<1>13. \A r \in Threads : \A i, j \in 1..Len(inside'[r]) :
          inside'[r][i] = inside'[r][j] => i = j
  BY <1>3, <1>4, <1>5, <1>12 DEF ThreadsInv
<1>14. \A r \in Threads \ {t} : Inside(r)' = Inside(r)
  BY <1>5 DEF Inside
<1>15. s \in Inside(t)
  BY <1>1, <1>7
<1>16. QED
  BY <1>1, <1>6, <1>10, <1>11, <1>13, <1>14, <1>15

\* on_exit.
LEMMA ExitKeeps ==
  ASSUME IInv, NEW t \in Threads, NEW l \in DOMAIN inside[t], Exit(t, l)
  PROVE  IInv'
<1>1. PICK v, m, u : Views(v, m, u)
  BY DEF IInv
<1>2. PICK s : s = inside[t][l]
  OBVIOUS
<1>3. PICK k : k = [type |-> "Leave", span |-> s]
  OBVIOUS
<1>4. /\ s \in Inside(t) /\ s \in Open
      /\ Inside(t)' = Inside(t) \ {s}
      /\ \A r \in Threads \ {t} : Inside(r)' = Inside(r)
      /\ inside' \in [Threads -> Seq(Open)]
      /\ \A r \in Threads : \A i, j \in 1..Len(inside'[r]) :
           inside'[r][i] = inside'[r][j] => i = j
  BY <1>2, ExitInside
<1>5. /\ Shapes /\ ThreadsInv /\ s \in Spans /\ s \in born /\ s # NoSpan
      /\ UNCHANGED <<app, stopped, client, lifetime, running, refused, inbox, task,
                     born, dead, regParent, tlParent, notes, field, enters, shared>>
      /\ AppStep
  BY <1>4, NoSpanIsNone DEF IInv, Exit, AppStep, lifeVars, taskVars, Open, Shapes
<1>6. enters' \in Nat
  BY <1>5, ConstantsAssumption DEF Shapes
<1>7. Growing
  BY <1>5, ConstantsAssumption DEF Growing, Shapes
<1>8. channel' \in Seq(Msg \cup {AppStop}) /\ missed' \subseteq Spans \cup {NoSpan} => Shapes'
  <2>1. Open' = Open
    BY <1>5 DEF Open
  <2>2. QED
    BY <1>4, <1>5, <2>1 DEF Shapes
<1>9. ThreadsInv'
  <2>1. ASSUME NEW b \in Spans \ shared', NEW r \in Threads, NEW z \in Threads,
               b \in Inside(r)', b \in Inside(z)'
        PROVE  r = z
    <3>1. b \in Inside(r) /\ b \in Inside(z) /\ b \notin shared
      BY <1>4, <1>5, <2>1
    <3>2. QED
      BY <1>5, <3>1 DEF ThreadsInv
  <2>2. \A b \in Spans \ born' :
           regParent'[b] = NoSpan /\ tlParent'[b] = NoSpan /\ field'[b] = 0
    BY <1>5 DEF ThreadsInv
  <2>3. QED
    BY <1>4, <2>1, <2>2 DEF ThreadsInv
<1>10. \A b \in Spans \ {s} : Same(b)
  BY <1>4, <1>5 DEF Same
<1>11. CASE ~EnableEnter
  <2>1. UNCHANGED <<channel, missed>>
    BY <1>11 DEF Exit
  <2>2. QED
    BY <1>5, <1>6, <1>7, <1>8, <1>9, <1>11, <2>1, SilentKeeps
<1>12. CASE EnableEnter
  <2>1. OnMsg(s, k)
    BY <1>2, <1>3, <1>12 DEF Exit
  <2>2. k \in Msg /\ k.type = "Leave" /\ k.span = s
    BY <1>3, <1>5, MessageTypes
  <2>3. ASSUME client # "ended", ~Hidden(s)
        PROVE  Fits(k, u, World(born)') /\ Says(Told(u, k), s)'
    <3>1. s \in u.made \ u.gone /\ Says(u, s) /\ u \in View
      BY <1>1, <1>4, <1>5, <2>3, OpenIsTold
    <3>2. s \in u.on \/ s \in shared'
      BY <1>4, <1>5, <1>12, <3>1 DEF Says
    <3>3. Fits(k, u, World(born)')
      BY <2>2, <3>1, <3>2 DEF Fits, About, World
    <3>4. /\ Told(u, k).made = u.made /\ Told(u, k).gone = u.gone
          /\ Told(u, k).on = u.on \ {s} /\ Told(u, k).field = u.field
      BY <2>2, <3>1, TellsOf DEF Stuff
    <3>5. s \notin shared => \A r \in Threads : s \notin Inside(r)'
      BY <1>4, <1>5 DEF ThreadsInv
    <3>6. QED
      BY <1>5, <3>1, <3>3, <3>4, <3>5 DEF Says, Hidden
  <2>4. QED
    BY <1>1, <1>5, <1>6, <1>7, <1>8, <1>9, <1>10, <2>1, <2>2, <2>3, OnMsgKeeps
<1>13. QED
  BY <1>11, <1>12

\* on_close: no thread is in the span and no span it is the parent of is open.
LEMMA CloseKeeps ==
  ASSUME IInv, NEW s \in Open, Close(s)
  PROVE  IInv'
<1>1. PICK v, m, u : Views(v, m, u)
  BY DEF IInv
<1>2. PICK k : k = [type |-> "Close", span |-> s]
  OBVIOUS
<1>3. /\ Shapes /\ ThreadsInv /\ s \in Spans /\ s \in born /\ s # NoSpan
      /\ OnMsg(s, k) /\ dead' = dead \cup {s}
      /\ (\A r \in Threads : s \notin Inside(r)) /\ \A c \in Open : regParent[c] # s
      /\ UNCHANGED <<app, stopped, client, lifetime, running, refused, inbox, task,
                     born, regParent, tlParent, inside, notes, field, enters, shared>>
      /\ AppStep
  BY <1>2, NoSpanIsNone DEF IInv, Close, AppStep, lifeVars, taskVars, Open, Shapes
<1>4. k \in Msg /\ k.type = "Close" /\ k.span = s
  BY <1>2, <1>3, MessageTypes
<1>5. enters' \in Nat
  BY <1>3, ConstantsAssumption DEF Shapes
<1>6. Growing
  BY <1>3, ConstantsAssumption DEF Growing, Shapes
<1>7. inside' \in [Threads -> Seq(Open')]
  <2>1. Open' = Open \ {s}
    BY <1>3 DEF Open
  <2>2. ASSUME NEW r \in Threads
        PROVE  inside[r] \in Seq(Open')
    <3>1. /\ inside[r] \in Seq(Open)
          /\ \A i \in 1..Len(inside[r]) : inside[r][i] \in Open /\ inside[r][i] # s
      BY <1>3, InsideIs, ElementOfSeq
    <3>2. QED
      BY <2>1, <3>1
  <2>3. QED
    BY <1>3, <2>2 DEF Shapes
<1>8. channel' \in Seq(Msg \cup {AppStop}) /\ missed' \subseteq Spans \cup {NoSpan} => Shapes'
  BY <1>3, <1>7 DEF Shapes
<1>9. ThreadsInv'
  BY <1>3 DEF ThreadsInv, Inside
<1>10. \A b \in Spans \ {s} : Same(b)
  BY <1>3 DEF Same, Inside
<1>11. ASSUME client # "ended", ~Hidden(s)
       PROVE  Fits(k, u, World(born)') /\ Says(Told(u, k), s)'
  <2>1. s \in u.made \ u.gone /\ Says(u, s) /\ u \in View
    BY <1>1, <1>3, <1>11, OpenIsTold
  <2>2. \A y \in u.made \ u.gone : y \in Open
    <3>1. u.made \subseteq Spans /\ \A y \in Spans : Says(u, y)
      BY <1>1, <1>11, <2>1, ViewIs DEF Views, SentInv
    <3>2. QED
      BY <3>1 DEF Says, Open
  <2>3. Fits(k, u, World(born)')
    BY <1>3, <1>4, <2>1, <2>2 DEF Fits, About, World
  <2>4. /\ Told(u, k).made = u.made /\ Told(u, k).gone = u.gone \cup {s}
        /\ Told(u, k).on = u.on /\ Told(u, k).field = u.field
    BY <1>4, <2>1, TellsOf DEF Stuff
  <2>5. \A r \in Threads : Inside(r)' = Inside(r)
    BY <1>3 DEF Inside
  <2>6. QED
    BY <1>3, <2>1, <2>3, <2>4, <2>5 DEF Says, Hidden
<1>12. QED
  BY <1>1, <1>3, <1>4, <1>5, <1>6, <1>8, <1>9, <1>10, <1>11, OnMsgKeeps

\* AppStop tells of no span.
LEMMA StopKeeps ==
  ASSUME IInv, Stop
  PROVE  IInv'
<1>1. PICK v, m, u : Views(v, m, u)
  BY DEF IInv
<1>2. /\ Shapes /\ ThreadsInv /\ SentInv(u) /\ u \in View /\ Run(channel, m, u, World(born))
      /\ stopped' \in BOOLEAN
      /\ channel' = IF client = "ended" THEN channel ELSE Append(channel, AppStop)
      /\ UNCHANGED <<app, client, lifeVars, inbox, taskVars, dbVars>>
      /\ UNCHANGED <<client, lifetime, running, refused, inbox, task, missed, app,
                     born, dead, regParent, tlParent, inside, notes, field, enters, shared>>
  BY <1>1 DEF IInv, Views, Stop, appVars, lifeVars, taskVars
<1>3. enters' \in Nat
  BY <1>2, ConstantsAssumption DEF Shapes
<1>4. Growing
  BY <1>2, ConstantsAssumption DEF Growing, Shapes
<1>5. channel' \in Seq(Msg \cup {AppStop})
  BY <1>2 DEF Shapes
<1>6. Shapes'
  <2>1. Open' = Open
    BY <1>2 DEF Open
  <2>2. QED
    BY <1>2, <1>5, <2>1 DEF Shapes
<1>7. ThreadsInv'
  BY <1>2 DEF ThreadsInv, Inside
<1>8. channel \in Seq(Stuff) /\ Run(channel, m, u, World(born)')
  BY <1>1, <1>2, <1>3, <1>4, RunningBorn, WorldGrows, ChannelsHold, RunGrown
<1>9. Run(channel', m, u, World(born)')
  <2>1. CASE client = "ended"
    BY <1>2, <1>8, <2>1
  <2>2. CASE client # "ended"
    <3>1. AppStop \in Stuff /\ AppStop.type = "AppStop"
      BY DEF Stuff, AppStop
    <3>2. Told(u, AppStop) = u /\ Sound(u, World(born)')
      BY <1>2, <1>8, <3>1, TellsOf, RunEnds
    <3>3. Fits(AppStop, u, World(born)')
      BY <3>1 DEF Fits, About
    <3>4. QED
      BY <1>2, <1>8, <2>2, <3>1, <3>2, <3>3, RunAppend
  <2>3. QED
    BY <2>1, <2>2
<1>10. SentInv(u)'
  <2>1. \A r \in Threads : Inside(r)' = Inside(r)
    BY <1>2 DEF Inside
  <2>2. \A b \in Spans \ missed : Says(u, b)'
    BY <1>2, <2>1 DEF SentInv, Says, Hidden
  <2>3. QED
    BY <1>2, <2>2 DEF SentInv
<1>11. QED
  BY <1>1, <1>2, <1>4, <1>6, <1>7, <1>9, <1>10, AppKeeps

\* Every step of the application.
LEMMA ApplicationKeeps ==
  ASSUME IInv, Application
  PROVE  IInv'
<1>1. CASE \E t \in Threads, s \in Spans, e \in Open \cup {NoSpan}, root \in BOOLEAN :
             NewSpan(t, s, e, root)
  BY <1>1, NewSpanKeeps
<1>2. CASE \E t \in Threads, s \in Open : Enter(t, s)
  BY <1>2, EnterKeeps
<1>3. CASE \E t \in Threads : \E l \in DOMAIN inside[t] : Exit(t, l)
  BY <1>3, ExitKeeps
<1>4. CASE \E s \in Open : RecordField(s)
  BY <1>4, RecordFieldKeeps
<1>5. CASE \E s \in Open : Close(s)
  BY <1>5, CloseKeeps
<1>6. CASE \E s \in Open \cup {NoSpan} : RecordEvent(s)
  BY <1>6, RecordEventKeeps
<1>7. CASE Stop
  BY <1>7, StopKeeps
<1>8. QED
  BY <1>1, <1>2, <1>3, <1>4, <1>5, <1>6, <1>7 DEF Application

-----------------------------------------------------------------------------
(* The connection.                                                         *)

\* A step of the connection: what the application did and the task has is as before.
LEMMA ConnectionKeeps ==
  ASSUME IInv, NEW v, NEW m, NEW u, Views(v, m, u), UNCHANGED <<appVars, taskVars, dbVars>>,
         Shapes', OnlySidRefused', NEW x \in View, NEW y \in View,
         Run(inbox', v, x, World(running)'), Run(channel', x, y, World(born)'),
         SentInv(y)', TakenInv(x)'
  PROVE  IInv'
<1>1. /\ ThreadsInv /\ RowsInv /\ MarksInv /\ OnlySharedSkipped
      /\ UNCHANGED <<app, born, dead, regParent, tlParent, inside, notes, field, enters, shared>>
      /\ UNCHANGED <<task, created, subs, entered, busy, enterIds, draft, batch, events, skipped,
                     rows, victims>>
  BY DEF IInv, appVars, taskVars, dbVars
<1>2. ThreadsInv'
  BY <1>1 DEF ThreadsInv, Inside
<1>3. RowsInv'
  BY <1>1 DEF RowsInv
<1>4. \A s : Rooted(s)' <=> Rooted(s)
  BY <1>1 DEF Rooted, Above
<1>5. MarksInv'
  BY <1>1, <1>4 DEF MarksInv
<1>6. OnlySharedSkipped'
  BY <1>1 DEF OnlySharedSkipped, Hidden
<1>7. TaskInv(v)'
  BY <1>1 DEF Views, TaskInv
<1>8. ToldInv(v)'
  BY <1>1 DEF Views, ToldInv, DraftRows, DraftLeft
<1>9. Views(v, x, y)'
  BY <1>7, <1>8 DEF Views
<1>10. QED
  BY <1>2, <1>3, <1>5, <1>6, <1>9 DEF IInv

\* The connection ends: what was still in the channel is lost, and the view of what
\* was sent is from now on what the connection took.
LEMMA EndKeeps ==
  ASSUME IInv, NEW how \in {"normal", "exception", "panicked"}, EndsAs(how),
         UNCHANGED <<appVars, stopped, running, inbox, taskVars, dbVars>>,
         OnlySidRefused', refused' \subseteq Msg
  PROVE  IInv'
<1>1. PICK v, m, u : Views(v, m, u)
  BY DEF IInv
<1>2. /\ Shapes /\ m \in View /\ SentInv(u) /\ TakenInv(m)
      /\ Run(inbox, v, m, World(running)) /\ Run(channel, m, u, World(born))
      /\ lifetime' = how /\ client' = "ended" /\ channel' = <<>>
      /\ UNCHANGED <<app, born, dead, regParent, tlParent, inside, notes, field, enters, shared,
                     stopped, running, inbox, task>>
  BY <1>1 DEF IInv, Views, EndsAs, appVars, taskVars
<1>3. PICK L : L = {channel[i].span : i \in {j \in DOMAIN channel : channel[j] # AppStop}}
  OBVIOUS
<1>4. missed' = missed \cup L
  BY <1>3 DEF EndsAs
<1>5. channel \in Seq(Stuff) /\ DOMAIN channel = 1..Len(channel)
  BY <1>2, ChannelsHold
<1>6. L \subseteq Spans \cup {NoSpan}
  <2>1. \A i \in 1..Len(channel) : channel[i] \in Msg \cup {AppStop}
    BY <1>2, ElementOfSeq DEF Shapes
  <2>2. \A x \in Msg : x.span \in Spans \cup {NoSpan}
    BY DEF Msg
  <2>3. QED
    BY <1>3, <1>5, <2>1, <2>2
<1>7. Shapes'
  <2>1. Open' = Open /\ channel' \in Seq(Msg \cup {AppStop})
    BY <1>2 DEF Open
  <2>2. missed' \subseteq Spans \cup {NoSpan}
    BY <1>2, <1>4, <1>6 DEF Shapes
  <2>3. QED
    BY <1>2, <2>1, <2>2 DEF Shapes
<1>8. World(running)' = World(running) /\ World(born)' = World(born)
  BY <1>2 DEF World, Hidden
<1>9. Run(inbox', v, m, World(running)')
  BY <1>2, <1>8
<1>10. Run(channel', m, m, World(born)')
  <2>1. Sound(m, World(born))
    BY <1>1, <1>2, RunningBorn
  <2>2. QED
    BY <1>2, <1>8, <2>1, RunEmpty
<1>11. TakenInv(m)'
  BY <1>2 DEF TakenInv, Hidden
<1>12. SentInv(m)'
  <2>1. ASSUME NEW b \in Spans \ missed'
        PROVE  Says(m, b)'
    <3>1. Says(u, b)
      BY <1>2, <1>4 DEF SentInv
    <3>2. \A i \in 1..Len(channel) : channel[i] = AppStop \/ channel[i].span # b
      BY <1>3, <1>4, <1>5, <2>1
    <3>3. Agree(m, u, b)
      BY <1>2, <1>5, <3>2, Untouched
    <3>4. Agree(u, m, b) /\ Same(b)
      BY <1>2, <3>3 DEF Agree, Same, Inside
    <3>5. QED
      BY <1>2, <3>1, <3>4, SaysSame
  <2>2. QED
    BY <1>2, <2>1 DEF SentInv
<1>13. QED
  BY <1>1, <1>2, <1>7, <1>9, <1>10, <1>11, <1>12, ConnectionKeeps

\* The connection takes the first message of the channel, and k of it goes to the task.
LEMMA AcceptKeeps ==
  ASSUME IInv, NEW v, NEW m, NEW u, Views(v, m, u), channel # <<>>, NEW k \in Msg \cup Seen,
         Accept(k), UNCHANGED <<appVars, stopped, taskVars, dbVars>>,
         Told(m, k) = Told(m, Head(channel)), running' = Told(m, k).made,
         Fits(k, m, World(born)),
         k.type = "Event" =>
           k \in Seen /\ (k.span = k.asked \/ (k.span = NoSpan /\ Hidden(k.asked)))
  PROVE  IInv'
<1>1. /\ Shapes /\ v \in View /\ m \in View /\ u \in View /\ SentInv(u) /\ TakenInv(m)
      /\ Run(inbox, v, m, World(running)) /\ Run(channel, m, u, World(born))
      /\ inbox' = Append(inbox, k) /\ channel' = Tail(channel)
      /\ UNCHANGED <<app, born, dead, regParent, tlParent, inside, notes, field, enters, shared,
                     stopped, lifetime, client, refused, missed, task>>
  BY DEF IInv, Views, Accept, appVars, taskVars
<1>2. channel \in Seq(Stuff) /\ inbox \in Seq(Stuff) /\ k \in Stuff
  BY <1>1, ChannelsHold DEF Stuff
<1>3. PICK x : x = Told(m, k)
  OBVIOUS
<1>4. World(born)' = World(born)
  BY <1>1 DEF World, Hidden
<1>5. x \in View /\ Sound(x, World(born)) /\ Run(channel', x, u, World(born)')
  <2>1. x = Told(m, Head(channel))
    BY <1>3
  <2>2. Sound(x, World(born)) /\ Run(Tail(channel), x, u, World(born))
    BY <1>1, <1>2, <2>1, RunTail
  <2>3. x \in View
    BY <1>1, <1>2, <1>3, TellsOf
  <2>4. QED
    BY <1>1, <1>4, <2>2, <2>3
<1>6. running = m.made /\ running \subseteq running' /\ running' \subseteq born
  <2>1. running = m.made /\ running' = x.made
    BY <1>1, <1>3 DEF TakenInv
  <2>2. m.made \subseteq x.made
    BY <1>1, <1>2, <1>3, TellsOf
  <2>3. x.made \subseteq World(born).known /\ World(born).known = born
    BY <1>5 DEF Sound, World
  <2>4. QED
    BY <2>1, <2>2, <2>3
<1>7. Grown(World(running), World(running)')
  <2>1. enters \in Nat /\ enters <= enters
    BY <1>1, ConstantsAssumption DEF Shapes
  <2>2. QED
    BY <1>1, <1>6, <2>1 DEF Grown, World, Hidden
<1>8. Run(inbox', v, x, World(running)')
  <2>1. Run(inbox, v, m, World(running)')
    BY <1>1, <1>2, <1>7, RunGrown
  <2>2. Fits(k, m, World(running)')
    BY <1>1 DEF Fits, World, Hidden
  <2>3. Sound(x, World(running)')
    BY <1>1, <1>3, <1>5 DEF Sound, World
  <2>4. QED
    BY <1>1, <1>2, <1>3, <2>1, <2>2, <2>3, RunAppend
<1>9. Shapes'
  <2>1. Open' = Open
    BY <1>1 DEF Open
  <2>2. channel' \in Seq(Msg \cup {AppStop}) /\ inbox' \in Seq(Msg \cup Seen)
    BY <1>1 DEF Shapes
  <2>3. QED
    BY <1>1, <2>1, <2>2 DEF Shapes
<1>10. OnlySidRefused'
  BY <1>1 DEF IInv, OnlySidRefused
<1>11. SentInv(u)'
  <2>1. \A r \in Threads : Inside(r)' = Inside(r)
    BY <1>1 DEF Inside
  <2>2. \A b \in Spans \ missed : Says(u, b)'
    BY <1>1, <2>1 DEF SentInv, Says, Hidden
  <2>3. client = "ended" => channel' = <<>>
    BY <1>1 DEF SentInv
  <2>4. QED
    BY <1>1, <2>2, <2>3 DEF SentInv
<1>12. TakenInv(x)'
  <2>1. ASSUME NEW i \in 1..Len(inbox'), inbox'[i].type = "Event"
        PROVE  /\ inbox'[i] \in Seen
               /\ inbox'[i].span = inbox'[i].asked
                    \/ (inbox'[i].span = NoSpan /\ Hidden(inbox'[i].asked))
    <3>1. CASE i \in 1..Len(inbox)
      <4>1. inbox'[i] = inbox[i]
        BY <1>1, <1>2, <3>1, AppendPlaces
      <4>2. QED
        BY <1>1, <2>1, <3>1, <4>1 DEF TakenInv
    <3>2. CASE i = Len(inbox) + 1
      <4>1. inbox'[i] = k
        BY <1>1, <1>2, <3>2, AppendPlaces
      <4>2. QED
        BY <2>1, <4>1
    <3>3. Len(inbox) \in Nat /\ Len(inbox') = Len(inbox) + 1
      BY <1>1, <1>2, AppendPlaces
    <3>4. QED
      BY <3>1, <3>2, <3>3
  <2>2. QED
    BY <1>1, <1>3, <2>1 DEF TakenInv, Hidden
<1>13. QED
  BY <1>1, <1>5, <1>8, <1>9, <1>10, <1>11, <1>12, ConnectionKeeps

\* The stream yields the next message: the connection takes it, or the field "sid" of a
\* span that is created ends the connection.
LEMMA ClientSendsKeeps ==
  ASSUME IInv, ClientSends
  PROVE  IInv'
<1>1. PICK v, m, u : Views(v, m, u)
  BY DEF IInv
<1>2. PICK h : h = Head(channel)
  OBVIOUS
<1>3. /\ Shapes /\ channel # <<>> /\ h # AppStop /\ LifetimeRecord(h) /\ OnlySidRefused
      /\ m \in View /\ TakenInv(m) /\ Run(channel, m, u, World(born))
      /\ UNCHANGED <<appVars, stopped, taskVars, dbVars>>
  BY <1>1, <1>2 DEF IInv, Views, ClientSends
<1>4. h \in Msg /\ h \in Stuff /\ channel \in Seq(Stuff) /\ Fits(h, m, World(born))
  <2>1. channel \in Seq(Stuff)
    BY <1>3, ChannelsHold
  <2>2. Fits(h, m, World(born))
    BY <1>2, <1>3, <2>1, RunTail
  <2>3. h \in Msg \cup {AppStop}
    BY <1>2, <1>3 DEF Shapes
  <2>4. QED
    BY <1>3, <2>1, <2>2, <2>3 DEF Stuff
<1>5. running = m.made
  BY <1>3 DEF TakenInv
<1>6. h.type \in {"Create", "Event"} \cup About
  BY <1>3, <1>4, MessageKinds
<1>7. CASE h.type = "Create"
  <2>1. LifetimeCreate(h) /\ h.span \in Spans
    BY <1>3, <1>4, <1>7, MessageKinds DEF LifetimeRecord
  <2>2. CASE app.kinds[h.span] = "text"
    <3>1. EndsAs("exception") /\ refused' = {h} /\ UNCHANGED <<running, inbox>>
      BY <2>1, <2>2 DEF LifetimeCreate, RefuseMsg
    <3>2. OnlySidRefused' /\ refused' \subseteq Msg
      BY <1>3, <1>4, <1>7, <2>2, <3>1 DEF OnlySidRefused, appVars
    <3>3. QED
      BY <1>3, <3>1, <3>2, EndKeeps
  <2>3. CASE app.kinds[h.span] = "number"
    <3>1. EndsAs("panicked") /\ UNCHANGED <<running, refused, inbox>>
      BY <2>1, <2>3 DEF LifetimeCreate
    <3>2. OnlySidRefused' /\ refused' \subseteq Msg
      BY <1>3, <3>1 DEF OnlySidRefused, appVars, Shapes
    <3>3. QED
      BY <1>3, <3>1, <3>2, EndKeeps
  <2>4. CASE app.kinds[h.span] \notin {"text", "number"}
    <3>1. running' = running \cup {h.span} /\ Accept(h)
      BY <2>1, <2>4 DEF LifetimeCreate, RunningWith
    <3>2. running' = Told(m, h).made
      BY <1>3, <1>4, <1>5, <1>7, <3>1, TellsOf
    <3>3. QED
      BY <1>1, <1>2, <1>3, <1>4, <1>7, <3>1, <3>2, AcceptKeeps
  <2>5. QED
    BY <2>2, <2>3, <2>4
<1>8. CASE h.type = "Event"
  <2>1. PICK k : k = [type |-> "Event", asked |-> h.span, span |-> EventSpan(h)]
    OBVIOUS
  <2>2. Accept(k) /\ running' = running
    BY <1>3, <1>8, <2>1 DEF LifetimeRecord, LifetimeEvent
  <2>3. h.span \in Spans \cup {NoSpan} /\ EventSpan(h) \in Spans \cup {NoSpan}
    BY <1>4, <1>8, MessageKinds DEF EventSpan
  <2>4. k \in Seen /\ k \in Stuff /\ k.type = "Event" /\ k.asked = h.span /\ k.span = EventSpan(h)
    BY <2>1, <2>3 DEF Seen, Stuff
  <2>5. Told(m, k) = m /\ Told(m, h) = m
    BY <1>3, <1>4, <1>8, <2>4, TellsOf
  <2>6. h.span \in {NoSpan} \cup World(born).hidden \cup running
    BY <1>4, <1>5, <1>8 DEF Fits
  <2>7. k.span = k.asked \/ (k.span = NoSpan /\ Hidden(k.asked))
    BY <2>4, <2>6 DEF EventSpan, Knows, World
  <2>8. k.span \in {NoSpan} \cup m.made
    BY <1>5, <2>4 DEF EventSpan, Knows
  <2>9. Fits(k, m, World(born))
    BY <2>4, <2>8 DEF Fits, About
  <2>10. QED
    BY <1>1, <1>2, <1>3, <1>5, <2>2, <2>4, <2>5, <2>7, <2>9, AcceptKeeps
<1>9. CASE h.type \in About
  <2>1. LifetimeOther(h)
    BY <1>3, <1>9 DEF LifetimeRecord, About
  <2>2. Knows(h)
    BY <1>4, <1>5, <1>9 DEF Fits, Knows
  <2>3. Accept(h) /\ running' = running
    BY <2>1, <2>2 DEF LifetimeOther
  <2>4. running' = Told(m, h).made /\ h.type # "Event"
    BY <1>3, <1>4, <1>5, <1>9, <2>3, TellsOf DEF About
  <2>5. QED
    BY <1>1, <1>2, <1>3, <1>4, <2>3, <2>4, AcceptKeeps
<1>10. QED
  BY <1>6, <1>7, <1>8, <1>9

\* AppStop leaves the channel.
LEMMA PutAsideKeeps ==
  ASSUME IInv, ClientPutsStopAside
  PROVE  IInv'
<1>1. PICK v, m, u : Views(v, m, u)
  BY DEF IInv
<1>2. /\ Shapes /\ m \in View /\ u \in View /\ SentInv(u) /\ TakenInv(m) /\ OnlySidRefused
      /\ Run(inbox, v, m, World(running)) /\ Run(channel, m, u, World(born))
      /\ channel # <<>> /\ Head(channel) = AppStop /\ channel' = Tail(channel)
      /\ client' = "stopping" /\ lifetime = "on"
      /\ UNCHANGED <<app, born, dead, regParent, tlParent, inside, notes, field, enters, shared,
                     stopped, lifetime, running, refused, inbox, task, missed>>
      /\ UNCHANGED <<appVars, taskVars, dbVars>>
  BY <1>1 DEF IInv, Views, ClientPutsStopAside, appVars, lifeVars, taskVars
<1>3. World(running)' = World(running) /\ World(born)' = World(born)
  BY <1>2 DEF World, Hidden
<1>4. Run(channel', m, u, World(born)')
  <2>1. AppStop \in Stuff /\ AppStop.type = "AppStop"
    BY DEF Stuff, AppStop
  <2>2. Told(m, AppStop) = m
    BY <1>2, <2>1, TellsOf
  <2>3. QED
    BY <1>2, <1>3, <2>2, ChannelsHold, RunTail
<1>5. Shapes'
  <2>1. Open' = Open
    BY <1>2 DEF Open
  <2>2. channel' \in Seq(Msg \cup {AppStop})
    BY <1>2 DEF Shapes
  <2>3. QED
    BY <1>2, <2>1, <2>2 DEF Shapes
<1>6. OnlySidRefused'
  BY <1>2 DEF OnlySidRefused
<1>7. SentInv(u)'
  <2>1. \A r \in Threads : Inside(r)' = Inside(r)
    BY <1>2 DEF Inside
  <2>2. \A b \in Spans \ missed : Says(u, b)'
    BY <1>2, <2>1 DEF SentInv, Says, Hidden
  <2>3. client # "ended"
    BY <1>2 DEF SentInv
  <2>4. QED
    BY <1>2, <2>2, <2>3 DEF SentInv
<1>8. TakenInv(m)'
  BY <1>2 DEF TakenInv, Hidden
<1>9. QED
  BY <1>1, <1>2, <1>3, <1>4, <1>5, <1>6, <1>7, <1>8, ConnectionKeeps

\* The ways in which the connection ends.
LEMMA EndsKeep ==
  ASSUME IInv, ClientStops \/ ConnectionBreaks
  PROVE  IInv'
<1>1. /\ EndsAs("normal") \/ EndsAs("exception")
      /\ UNCHANGED <<appVars, stopped, running, refused, inbox, taskVars, dbVars>>
  BY DEF ClientStops, ConnectionBreaks
<1>2. OnlySidRefused' /\ refused' \subseteq Msg
  BY <1>1 DEF IInv, OnlySidRefused, Shapes, appVars
<1>3. QED
  BY <1>1, <1>2, EndKeeps

-----------------------------------------------------------------------------
(* The run's task.                                                         *)

\* A step of the task: what the application did and the connection took is as before.
LEMMA TaskStepKeeps ==
  ASSUME IInv, NEW v, NEW m, NEW u, Views(v, m, u),
         UNCHANGED <<appVars, stopped, channel, client, lifeVars, missed>>,
         task' \in {"running", "finished"}, inbox' \in Seq(Msg \cup Seen), NEW x \in View,
         Run(inbox', x, m, World(running)), TakenInv(m)', TaskInv(x)', ToldInv(x)',
         RowsInv', MarksInv', OnlySharedSkipped'
  PROVE  IInv'
<1>1. /\ Shapes /\ ThreadsInv /\ OnlySidRefused /\ SentInv(u) /\ m \in View /\ u \in View
      /\ Run(channel, m, u, World(born))
      /\ UNCHANGED <<app, born, dead, regParent, tlParent, inside, notes, field, enters, shared,
                     stopped, channel, client, lifetime, running, refused, missed>>
  BY DEF IInv, Views, appVars, lifeVars
<1>2. World(running)' = World(running) /\ World(born)' = World(born)
  BY <1>1 DEF World, Hidden
<1>3. Shapes'
  <2>1. Open' = Open
    BY <1>1 DEF Open
  <2>2. QED
    BY <1>1, <2>1 DEF Shapes
<1>4. \A r \in Threads : Inside(r)' = Inside(r)
  BY <1>1 DEF Inside
<1>5. ThreadsInv'
  BY <1>1, <1>4 DEF ThreadsInv
<1>6. SentInv(u)'
  <2>1. \A b \in Spans \ missed : Says(u, b)'
    BY <1>1, <1>4 DEF SentInv, Says, Hidden
  <2>2. QED
    BY <1>1, <2>1 DEF SentInv
<1>7. OnlySidRefused'
  BY <1>1 DEF OnlySidRefused
<1>8. Views(x, m, u)'
  BY <1>1, <1>2, <1>6 DEF Views
<1>9. QED
  BY <1>3, <1>5, <1>7, <1>8 DEF IInv

\* A row of tracing_span_run.
RunRow == [made : BOOLEAN, closed : BOOLEAN, marked : BOOLEAN,
           busy : 0..MaxEnters, field : 0..MaxNotes]

\* A row of tracing_span_enter.
EnterRow == [span : Spans \cup {NoSpan}, left : BOOLEAN]

\* Rows are these two functions.
LEMMA RowsAre ==
  /\ \A r \in Rows : r.run \in [Spans -> RunRow] /\ r.enter \in [1..MaxEnters -> EnterRow]
  /\ \A f \in [Spans -> RunRow], g \in [1..MaxEnters -> EnterRow] :
       [run |-> f, enter |-> g] \in Rows
BY DEF Rows, RunRow, EnterRow

\* The first message of the task's channel is handled, which tells x.
Handling(v, h, x) ==
  /\ Shapes /\ v \in View /\ x \in View /\ x = Told(v, h) /\ h \in Stuff
  /\ Fits(h, v, World(running)) /\ Sound(v, World(running)) /\ Sound(x, World(running))
  /\ running \subseteq born
  /\ TaskInv(v) /\ ToldInv(v) /\ RowsInv /\ MarksInv /\ OnlySharedSkipped
  /\ UNCHANGED <<app, born, regParent, tlParent, shared, running, enters, rows, victims>>

\* What is to be shown of a message that is handled.
Handled(x) ==
  (TaskInv(x) /\ ToldInv(x) /\ RowsInv /\ MarksInv /\ OnlySharedSkipped)'

\* Which spans are rooted does not change.
LEMMA RootedSame ==
  ASSUME UNCHANGED <<regParent, tlParent>>, NEW s
  PROVE  Rooted(s)' <=> Rooted(s)
BY DEF Rooted, Above

\* Statements of span s that change its row, and marks at most in the others.
LEMMA RunRowsKeep ==
  ASSUME NEW v, NEW h, NEW x, Handling(v, h, x), NEW s \in Spans, NEW R \in [Spans -> RunRow],
         draft' = [run |-> R, enter |-> draft.enter], batch' = batch \cup {s},
         \A b \in Spans \ {s} :
           /\ R[b].made <=> draft.run[b].made
           /\ R[b].closed <=> draft.run[b].closed
           /\ R[b].field = draft.run[b].field
           /\ R[b].busy = draft.run[b].busy,
         \A b \in Spans : R[b].marked => draft.run[b].marked \/ Rooted(b),
         enterIds' = enterIds, \A b \in Spans : entered'[b] \in {entered[b], 0}
  PROVE  /\ RowsInv' /\ MarksInv'
         /\ \A b : DraftRows(b)' = DraftRows(b) /\ DraftLeft(b)' = DraftLeft(b)
<1>1. RowsInv /\ MarksInv /\ UNCHANGED <<rows, victims, regParent, tlParent>>
  BY DEF Handling
<1>2. draft'.run = R /\ draft'.enter = draft.enter
  OBVIOUS
<1>3. draft' \in Rows
  BY <1>1, RowsAre DEF RowsInv
<1>4. RowsInv'
  BY <1>1, <1>2, <1>3 DEF RowsInv
<1>5. MarksInv'
  BY <1>1, <1>2, RootedSame DEF MarksInv
<1>6. \A b : DraftRows(b)' = DraftRows(b) /\ DraftLeft(b)' = DraftLeft(b)
  BY <1>2 DEF DraftRows, DraftLeft
<1>7. QED
  BY <1>4, <1>5, <1>6

\* The row of a span that is created.
LEMMA NewRowIs ==
  ASSUME NEW r, r = [NoRun EXCEPT !.made = TRUE]
  PROVE  /\ r \in RunRow /\ r.made /\ ~r.closed /\ ~r.marked /\ r.busy = 0 /\ r.field = 0
<1>1. 0 \in 0..MaxEnters /\ 0 \in 0..MaxNotes
  BY ConstantsAssumption
<1>2. NoRun \in RunRow
  BY <1>1 DEF NoRun, RunRow
<1>3. r \in RunRow
  BY <1>2 DEF RunRow
<1>4. ~r.closed /\ ~r.marked /\ r.busy = 0 /\ r.field = 0
  BY DEF NoRun
<1>5. QED
  BY <1>2, <1>3, <1>4 DEF RunRow

\* SpanCreate.
LEMMA HandleCreateKeeps ==
  ASSUME NEW v, NEW h, NEW x, Handling(v, h, x), h.type = "Create", HandleCreate(h)
  PROVE  Handled(x)
<1>1. PICK s \in Spans : s = h.span
  BY MessageKinds DEF Handling
<1>2. /\ x.made = v.made \cup {s} /\ x.gone = v.gone /\ x.on = v.on /\ x.enters = v.enters
      /\ x.field = v.field
  BY <1>1, TellsOf DEF Handling
<1>3. /\ s \notin v.made /\ s \notin v.gone /\ s \notin v.on /\ v.field[s] = 0
      /\ h.parent = tlParent[s]
  BY <1>1 DEF Handling, Fits, Sound, World
<1>4. /\ TaskInv(v) /\ ToldInv(v) /\ RowsInv /\ v \in View
      /\ UNCHANGED <<app, tlParent, shared, victims>>
      /\ UNCHANGED <<enterIds, events, skipped>>
      /\ created' = created \cup {s}
      /\ entered' = [entered EXCEPT ![s] = 0] /\ busy' = [busy EXCEPT ![s] = 0]
      /\ batch' = batch \cup {s}
  BY <1>1 DEF Handling, HandleCreate, Statements
<1>5. PICK r : r = [NoRun EXCEPT !.made = TRUE]
  OBVIOUS
<1>6. r \in RunRow /\ r.made /\ ~r.closed /\ ~r.marked /\ r.busy = 0 /\ r.field = 0
  BY <1>5, NewRowIs
<1>7. PICK R : R = [draft.run EXCEPT ![s] = r]
  OBVIOUS
<1>8. draft' = [run |-> R, enter |-> draft.enter]
  BY <1>1, <1>5, <1>7 DEF HandleCreate, Statements
<1>9. draft.run \in [Spans -> RunRow]
  BY <1>4, RowsAre DEF RowsInv
<1>10. R \in [Spans -> RunRow] /\ R[s] = r /\ \A b \in Spans \ {s} : R[b] = draft.run[b]
  BY <1>6, <1>7, <1>9
<1>11. /\ RowsInv' /\ MarksInv'
       /\ \A b : DraftRows(b)' = DraftRows(b) /\ DraftLeft(b)' = DraftLeft(b)
  <2>1. \A b \in Spans : entered'[b] \in {entered[b], 0}
    BY <1>4 DEF TaskInv
  <2>2. QED
    BY <1>4, <1>6, <1>8, <1>10, <2>1, RunRowsKeep
<1>12. subs' = [c \in Spans |-> CASE c = s -> {}
                                 [] c = h.parent /\ c \in created -> subs[c] \cup {s}
                                 [] OTHER -> subs[c]]
  BY <1>1 DEF HandleCreate
<1>13. subs' \in [Spans -> SUBSET created'] /\ \A p \in Spans : \A y \in subs'[p] : tlParent[y] = p
  <2>1. subs \in [Spans -> SUBSET created] /\ \A p \in Spans : \A y \in subs[p] : tlParent[y] = p
    BY <1>4 DEF TaskInv
  <2>2. \A p \in Spans : /\ subs'[p] \subseteq subs[p] \cup {s}
                         /\ s \in subs'[p] => p = h.parent \/ s \in subs[p]
    BY <1>12
  <2>3. \A p \in Spans : subs'[p] \in SUBSET created'
    BY <1>4, <2>1, <2>2
  <2>4. subs' \in [Spans -> SUBSET created']
    BY <1>12, <2>3
  <2>5. QED
    BY <1>3, <2>1, <2>2, <2>4
<1>14. entered[s] = 0
  BY <1>3, <1>4 DEF TaskInv
<1>15. TaskInv(x)'
  <2>1. created' = x.made \ x.gone
    BY <1>2, <1>3, <1>4 DEF TaskInv
  <2>2. entered' = entered
    BY <1>4, <1>14 DEF TaskInv
  <2>3. busy' \in [Spans -> Nat]
    BY <1>4 DEF TaskInv
  <2>4. enterIds \in Nat /\ enterIds = v.enters
    BY <1>4, ViewIs DEF TaskInv
  <2>5. \A b \in Spans : IF b \in x.on THEN busy'[b] < enterIds' ELSE busy'[b] <= enterIds'
    BY <1>2, <1>3, <1>4, <2>4 DEF TaskInv
  <2>6. \A e \in 1..MaxEnters : draft'.enter[e].span \in x.made \cup {NoSpan}
    BY <1>2, <1>4, <1>8 DEF TaskInv
  <2>7. QED
    BY <1>2, <1>4, <1>13, <2>1, <2>2, <2>3, <2>5, <2>6 DEF TaskInv
<1>16. ToldInv(x)'
  <2>1. DraftLeft(s) = {} /\ DraftRows(s) = {}
    BY <1>3, <1>4, NoSpanIsNone DEF TaskInv, DraftRows, DraftLeft
  <2>2. draft'.run = R
    BY <1>8
  <2>3. ASSUME NEW b \in Spans \ victims
        PROVE  /\ R[b].made <=> b \in x.made
               /\ R[b].closed <=> b \in x.gone
               /\ R[b].field = x.field[b]
               /\ entered'[b] # 0 => entered'[b] \in DraftRows(b) \ DraftLeft(b)
               /\ b \notin shared => DraftRows(b) \ DraftLeft(b) \subseteq {entered'[b]}
               /\ busy'[b] = Cardinality(DraftLeft(b))
               /\ b \in x.gone => R[b].busy = busy'[b]
    <3>1. CASE b = s
      <4>1. Cardinality({}) = 0
        BY FS_EmptySet
      <4>2. entered'[s] = 0 /\ busy'[s] = 0
        BY <1>4 DEF TaskInv
      <4>3. QED
        BY <1>2, <1>3, <1>6, <1>10, <2>1, <3>1, <4>1, <4>2
    <3>2. CASE b # s
      <4>1. R[b] = draft.run[b] /\ entered'[b] = entered[b] /\ busy'[b] = busy[b]
        BY <1>4, <1>10, <3>2 DEF TaskInv
      <4>2. QED
        BY <1>2, <1>4, <3>2, <4>1 DEF ToldInv
    <3>3. QED
      BY <3>1, <3>2
  <2>4. QED
    BY <1>4, <1>11, <2>2, <2>3 DEF ToldInv
<1>17. OnlySharedSkipped'
  BY <1>4 DEF Handling, OnlySharedSkipped, Hidden
<1>18. QED
  BY <1>11, <1>15, <1>16, <1>17 DEF Handled

\* What set_exception_end_for_sub_spans comes to from a span that is closed is rooted:
\* no span closes before one that it is the Registry's parent of.
LEMMA BelowIsRooted ==
  ASSUME NEW v, NEW h, NEW x, Handling(v, h, x), h.type = "Close", NEW c \in Below(h.span)
  PROVE  Rooted(c)
<1>1. PICK s \in Spans : s = h.span
  BY MessageKinds DEF Handling
<1>2. PICK S : S = {b \in Spans : Rooted(b)}
  OBVIOUS
<1>3. /\ subs \in [Spans -> SUBSET created] /\ created = v.made \ v.gone
      /\ \A b \in Spans : \A y \in subs[b] : tlParent[y] = b
      /\ v \in View
  BY DEF Handling, TaskInv
<1>4. created \subseteq Spans
  BY <1>3, ViewIs
<1>5. \A y \in created : ~(regParent[y] = s /\ tlParent[y] = s)
  BY <1>1, <1>3 DEF Handling, Fits, World
<1>6. \A a \in Spans : a \in Above(a)
  BY DEF Above
<1>7. subs[s] \subseteq S
  <2>1. ASSUME NEW y \in subs[s]
        PROVE  y \in S
    <3>1. y \in Spans /\ y \in created /\ tlParent[y] = s
      BY <1>3, <1>4
    <3>2. regParent[y] # tlParent[y]
      BY <1>5, <3>1
    <3>3. QED
      BY <1>2, <1>6, <3>1, <3>2 DEF Rooted
  <2>2. QED
    BY <2>1
<1>8. ASSUME NEW p \in S, NEW y \in subs[p]
      PROVE  y \in S
  <2>1. p \in Spans /\ y \in Spans /\ tlParent[y] = p /\ p # NoSpan
    BY <1>2, <1>3, <1>4, NoSpanIsNone
  <2>2. PICK a \in Above(p) : regParent[a] # tlParent[a]
    BY <1>2 DEF Rooted
  <2>3. a \in Spans /\ a \in Above(y)
    BY <2>1, <2>2 DEF Above
  <2>4. QED
    BY <1>2, <2>1, <2>2, <2>3 DEF Rooted
<1>9. S \in SUBSET Spans /\ \A p \in S : subs[p] \subseteq S
  BY <1>2, <1>8
<1>10. c \in S
  BY <1>1, <1>7, <1>9 DEF Below
<1>11. QED
  BY <1>2, <1>10

\* A span is not below itself: those below are younger.
LEMMA BelowIsYounger ==
  ASSUME Shapes, NEW v \in View, TaskInv(v), NEW s \in Spans
  PROVE  s \notin Below(s)
<1>1. PICK S : S = {c \in Spans : s < c}
  OBVIOUS
<1>2. /\ subs \in [Spans -> SUBSET created] /\ created \subseteq Spans
      /\ \A b \in Spans : \A y \in subs[b] : tlParent[y] = b
  BY ViewIs DEF TaskInv
<1>3. \A y \in Spans : tlParent[y] < y
  BY DEF Shapes
<1>4. Spans \subseteq Nat
  BY ConstantsAssumption DEF Spans
<1>5. subs[s] \subseteq S
  BY <1>1, <1>2, <1>3
<1>6. \A p \in S : subs[p] \subseteq S
  <2>1. ASSUME NEW p \in S, NEW y \in subs[p]
        PROVE  y \in S
    <3>1. p \in Spans /\ y \in Spans /\ s < p /\ p < y
      BY <1>1, <1>2, <1>3
    <3>2. QED
      BY <1>1, <1>4, <3>1
  <2>2. QED
    BY <2>1
<1>7. S \in SUBSET Spans /\ s \notin S
  BY <1>1, <1>4
<1>8. QED
  BY <1>5, <1>6, <1>7 DEF Below

\* SpanClose.
LEMMA HandleCloseKeeps ==
  ASSUME NEW v, NEW h, NEW x, Handling(v, h, x), h.type = "Close", HandleClose(h)
  PROVE  Handled(x)
<1>1. PICK s \in Spans : s = h.span
  BY MessageKinds DEF Handling
<1>2. /\ x.made = v.made /\ x.gone = v.gone \cup {s} /\ x.on = v.on /\ x.enters = v.enters
      /\ x.field = v.field
  BY <1>1, TellsOf DEF Handling
<1>3. /\ TaskInv(v) /\ ToldInv(v) /\ RowsInv /\ v \in View
      /\ UNCHANGED <<app, tlParent, shared, victims>>
  BY DEF Handling
<1>4. s \in v.made /\ s \notin v.gone /\ s \in created
  BY <1>1, <1>3 DEF Handling, Fits, TaskInv, About
<1>5. PICK done : done = [draft.run[s] EXCEPT !.closed = TRUE, !.busy = busy[s]]
  OBVIOUS
<1>6. PICK B : B = Below(s)
  OBVIOUS
<1>7. PICK R :
        R = [c \in Spans |->
               CASE c = h.span -> Updated(draft.run[c],
                                    [draft.run[c] EXCEPT !.closed = TRUE, !.busy = busy[h.span]])
                 [] c \in Below(h.span) -> Updated(draft.run[c],
                                             [draft.run[c] EXCEPT !.marked = TRUE])
                 [] OTHER -> draft.run[c]]
  OBVIOUS
<1>8. /\ draft' = [run |-> R, enter |-> draft.enter] /\ batch' = batch \cup {s}
      /\ created' = created \ {s} /\ subs' = SubsAfterClose(s)
      /\ UNCHANGED <<entered, busy, enterIds, events, skipped>>
  <2>1. h.span \in created
    BY <1>1, <1>4
  <2>2. draft' =
          [run |-> [c \in Spans |->
             CASE c = h.span -> Updated(draft.run[c],
                                  [draft.run[c] EXCEPT !.closed = TRUE, !.busy = busy[h.span]])
               [] c \in Below(h.span) -> Updated(draft.run[c],
                                           [draft.run[c] EXCEPT !.marked = TRUE])
               [] OTHER -> draft.run[c]],
           enter |-> draft.enter]
    BY <2>1 DEF HandleClose, Statements
  <2>3. draft' = [run |-> R, enter |-> draft.enter]
    BY <1>7, <2>2
  <2>4. QED
    BY <1>1, <2>1, <2>3 DEF HandleClose, Statements
<1>9. draft.run \in [Spans -> RunRow]
  BY <1>3, RowsAre DEF RowsInv
<1>10. busy[s] \in 0..MaxEnters
  <2>1. v.enters <= enters /\ enters \in 0..MaxEnters /\ v.enters \in Nat /\ enterIds = v.enters
    BY <1>3, ViewIs DEF Handling, Sound, World, Shapes, TaskInv
  <2>2. busy[s] \in Nat /\ busy[s] <= enterIds
    BY <1>3, <2>1 DEF TaskInv
  <2>3. QED
    BY <2>1, <2>2, ConstantsAssumption
<1>11. /\ done \in RunRow /\ done.closed /\ done.busy = busy[s]
       /\ done.made = draft.run[s].made /\ done.marked = draft.run[s].marked
       /\ done.field = draft.run[s].field
  BY <1>5, <1>9, <1>10 DEF RunRow
<1>12. ASSUME NEW c \in Spans \ {s}
       PROVE  /\ R[c] \in RunRow
              /\ R[c].made <=> draft.run[c].made
              /\ R[c].closed <=> draft.run[c].closed
              /\ R[c].field = draft.run[c].field
              /\ R[c].busy = draft.run[c].busy
              /\ R[c].marked => draft.run[c].marked \/ c \in B
  <2>1. draft.run[c] \in RunRow
    BY <1>9
  <2>2. PICK r : r = [draft.run[c] EXCEPT !.marked = TRUE]
    OBVIOUS
  <2>3. /\ r \in RunRow /\ r.made = draft.run[c].made /\ r.closed = draft.run[c].closed
        /\ r.field = draft.run[c].field /\ r.busy = draft.run[c].busy
    BY <2>1, <2>2 DEF RunRow
  <2>4. R[c] = draft.run[c] \/ (c \in B /\ R[c] = r)
    BY <1>1, <1>6, <1>7, <2>2 DEF Updated
  <2>5. QED
    BY <2>1, <2>3, <2>4
<1>13. /\ R[s] = IF draft.run[s].made THEN done ELSE draft.run[s]
       /\ R[s] \in RunRow /\ R[s].made = draft.run[s].made /\ R[s].marked = draft.run[s].marked
       /\ R[s].field = draft.run[s].field
  <2>1. R[s] = IF draft.run[s].made THEN done ELSE draft.run[s]
    <3>1. R[h.span] = Updated(draft.run[h.span],
                        [draft.run[h.span] EXCEPT !.closed = TRUE, !.busy = busy[h.span]])
      <4>1. h.span \notin Below(h.span)
        BY <1>1, <1>3, BelowIsYounger DEF Handling
      <4>2. QED
        BY <1>1, <1>7, <4>1
    <3>2. R[s] = Updated(draft.run[s], done)
      BY <1>1, <1>5, <3>1
    <3>3. QED
      BY <3>2 DEF Updated
  <2>2. draft.run[s] \in RunRow
    BY <1>9
  <2>3. QED
    BY <1>11, <2>1, <2>2
<1>14. R \in [Spans -> RunRow]
  BY <1>7, <1>12, <1>13
<1>15. \A b \in Spans : R[b].marked => draft.run[b].marked \/ Rooted(b)
  BY <1>1, <1>6, <1>12, <1>13, BelowIsRooted
<1>16. /\ RowsInv' /\ MarksInv'
       /\ \A b : DraftRows(b)' = DraftRows(b) /\ DraftLeft(b)' = DraftLeft(b)
  BY <1>8, <1>12, <1>14, <1>15, RunRowsKeep
<1>17. TaskInv(x)'
  <2>1. created' = x.made \ x.gone
    BY <1>2, <1>3, <1>4, <1>8 DEF TaskInv
  <2>2. subs \in [Spans -> SUBSET created] /\ \A p \in Spans : \A y \in subs[p] : tlParent[y] = p
    BY <1>3 DEF TaskInv
  <2>3. subs' = [c \in Spans |-> IF c \in Below(s) \cup {s} THEN {} ELSE subs[c] \ {s}]
    BY <1>8 DEF SubsAfterClose
  <2>4. subs' \in [Spans -> SUBSET created']
    BY <1>8, <2>2, <2>3
  <2>5. \A p \in Spans : \A y \in subs'[p] : tlParent'[y] = p
    BY <1>3, <2>2, <2>3
  <2>6. QED
    BY <1>2, <1>3, <1>8, <2>1, <2>4, <2>5 DEF TaskInv
<1>18. ToldInv(x)'
  <2>1. draft'.run = R
    BY <1>8
  <2>2. ASSUME NEW b \in Spans \ victims
        PROVE  /\ R[b].made <=> b \in x.made
               /\ R[b].closed <=> b \in x.gone
               /\ R[b].field = x.field[b]
               /\ b \in x.gone => R[b].busy = busy[b]
    <3>1. CASE b = s
      BY <1>2, <1>3, <1>4, <1>11, <1>13, <3>1 DEF ToldInv
    <3>2. CASE b # s
      BY <1>2, <1>3, <1>12, <3>2 DEF ToldInv
    <3>3. QED
      BY <3>1, <3>2
  <2>3. QED
    BY <1>3, <1>8, <1>16, <2>1, <2>2 DEF ToldInv
<1>19. OnlySharedSkipped'
  BY <1>3, <1>8 DEF Handling, OnlySharedSkipped, Hidden
<1>20. QED
  BY <1>16, <1>17, <1>18, <1>19 DEF Handled

\* SpanRecord.
LEMMA HandleRecordKeeps ==
  ASSUME NEW v, NEW h, NEW x, Handling(v, h, x), h.type = "Record", HandleRecord(h)
  PROVE  Handled(x)
<1>1. PICK s \in Spans, n \in 1..MaxNotes : s = h.span /\ n = h.field
  BY MessageKinds DEF Handling
<1>2. /\ x.made = v.made /\ x.gone = v.gone /\ x.on = v.on /\ x.enters = v.enters
      /\ x.field = [v.field EXCEPT ![s] = n]
  BY <1>1, TellsOf DEF Handling
<1>3. /\ TaskInv(v) /\ ToldInv(v) /\ RowsInv /\ v \in View
      /\ UNCHANGED <<app, tlParent, shared, victims>>
  BY DEF Handling
<1>4. s \in v.made /\ s \notin v.gone /\ s \in created
  BY <1>1, <1>3 DEF Handling, Fits, TaskInv, About
<1>5. PICK r : r = Updated(draft.run[s], [draft.run[s] EXCEPT !.field = n])
  OBVIOUS
<1>6. PICK R : R = [draft.run EXCEPT ![s] = r]
  OBVIOUS
<1>7. /\ draft' = [run |-> R, enter |-> draft.enter] /\ batch' = batch \cup {s}
      /\ UNCHANGED <<created, subs, entered, busy, enterIds, events, skipped>>
  BY <1>1, <1>4, <1>5, <1>6 DEF HandleRecord, Statements
<1>8. draft.run \in [Spans -> RunRow]
  BY <1>3, RowsAre DEF RowsInv
<1>9. /\ r \in RunRow /\ r.made = draft.run[s].made /\ r.closed = draft.run[s].closed
      /\ r.marked = draft.run[s].marked /\ r.busy = draft.run[s].busy
      /\ r.made => r.field = n
  <2>1. n \in 0..MaxNotes /\ draft.run[s] \in RunRow
    BY <1>8
  <2>2. QED
    BY <1>5, <2>1 DEF RunRow, Updated
<1>10. R \in [Spans -> RunRow] /\ R[s] = r /\ \A b \in Spans \ {s} : R[b] = draft.run[b]
  BY <1>6, <1>8, <1>9
<1>11. /\ RowsInv' /\ MarksInv'
       /\ \A b : DraftRows(b)' = DraftRows(b) /\ DraftLeft(b)' = DraftLeft(b)
  <2>1. \A b \in Spans : R[b].marked => draft.run[b].marked
    BY <1>9, <1>10
  <2>2. QED
    BY <1>7, <1>10, <2>1, RunRowsKeep
<1>12. TaskInv(x)'
  BY <1>2, <1>3, <1>7 DEF TaskInv
<1>13. ToldInv(x)'
  <2>1. draft'.run = R
    BY <1>7
  <2>2. ASSUME NEW b \in Spans \ victims
        PROVE  /\ R[b].made <=> b \in x.made
               /\ R[b].closed <=> b \in x.gone
               /\ R[b].field = x.field[b]
               /\ b \in x.gone => R[b].busy = busy[b]
    <3>1. CASE b = s
      <4>1. x.field[s] = n
        BY <1>2, <1>3, ViewIs
      <4>2. QED
        BY <1>2, <1>3, <1>4, <1>9, <1>10, <3>1, <4>1 DEF ToldInv
    <3>2. CASE b # s
      <4>1. x.field[b] = v.field[b]
        BY <1>2, <1>3, <3>2, ViewIs
      <4>2. QED
        BY <1>2, <1>3, <1>10, <3>2, <4>1 DEF ToldInv
    <3>3. QED
      BY <3>1, <3>2
  <2>3. QED
    BY <1>3, <1>7, <1>11, <2>1, <2>2 DEF ToldInv
<1>14. OnlySharedSkipped'
  BY <1>3, <1>7 DEF Handling, OnlySharedSkipped, Hidden
<1>15. QED
  BY <1>11, <1>12, <1>13, <1>14 DEF Handled

\* Nothing changes of the task's bookkeeping and its statements.
LEMMA NoStatements ==
  ASSUME NEW v, NEW h, NEW x, Handling(v, h, x),
         x.made = v.made, x.gone = v.gone, x.on = v.on, x.enters = v.enters, x.field = v.field,
         UNCHANGED <<created, subs, entered, busy, enterIds, draft, batch>>,
         skipped' \subseteq Msg,
         events' \subseteq [asked : Spans \cup {NoSpan}, span : Spans \cup {NoSpan}],
         OnlySharedSkipped'
  PROVE  Handled(x)
<1>1. /\ TaskInv(v) /\ ToldInv(v) /\ RowsInv /\ MarksInv
      /\ UNCHANGED <<app, regParent, tlParent, shared, victims, rows>>
  BY DEF Handling
<1>2. TaskInv(x)'
  BY <1>1 DEF TaskInv
<1>3. ToldInv(x)'
  <2>1. \A b : DraftRows(b)' = DraftRows(b) /\ DraftLeft(b)' = DraftLeft(b)
    BY DEF DraftRows, DraftLeft
  <2>2. QED
    BY <1>1, <2>1 DEF ToldInv
<1>4. RowsInv'
  BY <1>1 DEF RowsInv
<1>5. MarksInv'
  BY <1>1, RootedSame DEF MarksInv
<1>6. QED
  BY <1>2, <1>3, <1>4, <1>5 DEF Handled

\* A statement on one row of an enter of span s.
LEMMA EnterRowsKeep ==
  ASSUME NEW v, NEW h, NEW x, Handling(v, h, x), NEW s \in Spans, NEW e \in 1..MaxEnters,
         NEW r \in EnterRow, r.span = s, NEW g, g = [draft.enter EXCEPT ![e] = r],
         draft' = [run |-> draft.run, enter |-> g], batch' = batch \cup {s},
         draft.enter[e].span \in {s, NoSpan}, rows.enter[e].span \in {s, NoSpan},
         enterIds' \in Nat, enterIds <= enterIds', e <= enterIds', entered'[s] \in {0, e},
         \A b \in Spans \ {s} : entered'[b] = entered[b] /\ entered[b] # e
  PROVE  /\ RowsInv' /\ MarksInv'
         /\ \A b \in Spans \ {s} : DraftRows(b)' = DraftRows(b) /\ DraftLeft(b)' = DraftLeft(b)
         /\ DraftRows(s)' = DraftRows(s) \cup {e}
         /\ DraftLeft(s)' = IF r.left THEN DraftLeft(s) \cup {e} ELSE DraftLeft(s) \ {e}
<1>1. /\ RowsInv /\ MarksInv /\ TaskInv(v) /\ v \in View
      /\ UNCHANGED <<rows, victims, regParent, tlParent>>
  BY DEF Handling
<1>2. draft'.run = draft.run /\ draft'.enter = g
  OBVIOUS
<1>3. draft.run \in [Spans -> RunRow] /\ draft.enter \in [1..MaxEnters -> EnterRow]
  BY <1>1, RowsAre DEF RowsInv
<1>4. /\ g \in [1..MaxEnters -> EnterRow] /\ g[e] = r
      /\ \A i \in 1..MaxEnters : i # e => g[i] = draft.enter[i]
  BY <1>3
<1>5. draft' \in Rows
  BY <1>3, <1>4, RowsAre
<1>6. enterIds \in Nat /\ s # NoSpan
  BY <1>1, ViewIs, NoSpanIsNone DEF TaskInv
<1>7. \A i \in 1..MaxEnters : i > enterIds' => g[i] = NoEnter /\ rows.enter[i] = NoEnter
  BY <1>1, <1>4, <1>6 DEF RowsInv
<1>8. \A i \in 1..MaxEnters :
        /\ g[i].span = NoSpan => g[i] = NoEnter
        /\ rows.enter[i].span = NoSpan => rows.enter[i] = NoEnter
  BY <1>1, <1>4, <1>6 DEF RowsInv
<1>9. ASSUME NEW b \in Spans, entered'[b] # 0
      PROVE  g[entered'[b]].span \in {b, NoSpan} /\ rows.enter[entered'[b]].span \in {b, NoSpan}
  <2>1. CASE b = s
    BY <1>4, <1>9, <2>1
  <2>2. CASE b # s
    <3>1. entered'[b] = entered[b] /\ entered[b] # e /\ entered[b] # 0
      BY <1>9, <2>2
    <3>2. entered[b] \in 1..MaxEnters
      <4>1. entered[b] \in 0..enterIds /\ v.enters <= enters /\ enterIds = v.enters
            /\ enters \in 0..MaxEnters
        BY <1>1 DEF Handling, Sound, World, Shapes, TaskInv
      <4>2. QED
        BY <1>6, <3>1, <4>1, ConstantsAssumption
    <3>3. QED
      BY <1>1, <1>4, <3>1, <3>2 DEF RowsInv
  <2>3. QED
    BY <2>1, <2>2
<1>10. \A i \in 1..MaxEnters : g[i] # rows.enter[i] =>
         g[i].span \in batch' /\ rows.enter[i].span \in {NoSpan, g[i].span}
  BY <1>1, <1>4 DEF RowsInv
<1>11. RowsInv'
  BY <1>1, <1>2, <1>5, <1>7, <1>8, <1>9, <1>10 DEF RowsInv
<1>12. MarksInv'
  BY <1>1, <1>2, RootedSame DEF MarksInv
<1>13. ASSUME NEW b \in Spans \ {s}
       PROVE  DraftRows(b)' = DraftRows(b) /\ DraftLeft(b)' = DraftLeft(b)
  <2>1. b # NoSpan
    BY NoSpanIsNone
  <2>2. DraftRows(b)' = {i \in 1..MaxEnters : g[i].span = b}
    BY <1>2 DEF DraftRows
  <2>3. DraftRows(b)' = DraftRows(b) /\ e \notin DraftRows(b)
    BY <1>4, <2>1, <2>2 DEF DraftRows
  <2>4. DraftLeft(b)' = {i \in DraftRows(b) : g[i].left}
    BY <1>2, <2>3 DEF DraftLeft
  <2>5. \A i \in DraftRows(b) : g[i] = draft.enter[i]
    BY <1>4, <2>3 DEF DraftRows
  <2>6. QED
    BY <2>3, <2>4, <2>5 DEF DraftLeft
<1>14. DraftRows(s)' = DraftRows(s) \cup {e}
  <2>1. DraftRows(s)' = {i \in 1..MaxEnters : g[i].span = s}
    BY <1>2 DEF DraftRows
  <2>2. QED
    BY <1>4, <2>1 DEF DraftRows
<1>15. DraftLeft(s)' = IF r.left THEN DraftLeft(s) \cup {e} ELSE DraftLeft(s) \ {e}
  <2>1. DraftLeft(s)' = {i \in DraftRows(s) \cup {e} : g[i].left}
    BY <1>2, <1>14 DEF DraftLeft
  <2>2. \A i \in DraftRows(s) : i # e => g[i] = draft.enter[i]
    BY <1>4 DEF DraftRows
  <2>3. QED
    BY <1>4, <2>1, <2>2 DEF DraftLeft
<1>16. QED
  BY <1>11, <1>12, <1>13, <1>14, <1>15

\* SpanEnter.
LEMMA HandleEnterKeeps ==
  ASSUME NEW v, NEW h, NEW x, Handling(v, h, x), h.type = "Enter", HandleEnter(h)
  PROVE  Handled(x)
<1>1. PICK s \in Spans : s = h.span
  BY MessageKinds DEF Handling
<1>2. /\ x.made = v.made /\ x.gone = v.gone /\ x.on = v.on \cup {s} /\ x.enters = v.enters + 1
      /\ x.field = v.field
  BY <1>1, TellsOf DEF Handling
<1>3. /\ TaskInv(v) /\ ToldInv(v) /\ RowsInv /\ v \in View
      /\ UNCHANGED <<app, tlParent, shared, victims, rows>>
  BY DEF Handling
<1>4. /\ s \in v.made /\ s \notin v.gone /\ s \in created
      /\ s \notin v.on \/ s \in shared
  BY <1>1, <1>3 DEF Handling, Fits, TaskInv, About, World
<1>5. PICK e : e = enterIds + 1
  OBVIOUS
<1>6. e \in 1..MaxEnters /\ enterIds \in Nat /\ e > enterIds /\ e = x.enters
  <2>1. x.enters <= enters /\ enters \in 0..MaxEnters /\ v.enters \in Nat /\ enterIds = v.enters
    BY <1>3, ViewIs DEF Handling, Sound, World, Shapes, TaskInv
  <2>2. QED
    BY <1>2, <1>5, <2>1, ConstantsAssumption
<1>7. PICK r : r = [span |-> s, left |-> FALSE]
  OBVIOUS
<1>8. r \in EnterRow /\ r.span = s /\ ~r.left
  BY <1>7 DEF EnterRow
<1>9. PICK g : g = [draft.enter EXCEPT ![e] = r]
  OBVIOUS
<1>10. /\ enterIds' = e /\ entered' = [entered EXCEPT ![s] = e]
       /\ draft' = [run |-> draft.run, enter |-> g] /\ batch' = batch \cup {s}
       /\ UNCHANGED <<created, subs, busy, events, skipped>>
  BY <1>1, <1>4, <1>5, <1>7, <1>9 DEF HandleEnter, Statements
<1>11. entered'[s] = e /\ \A b \in Spans \ {s} : entered'[b] = entered[b] /\ entered[b] # e
  <2>1. entered \in [Spans -> 0..enterIds]
    BY <1>3 DEF TaskInv
  <2>2. \A b \in Spans : entered[b] # e
    BY <1>6, <2>1
  <2>3. QED
    BY <1>10, <2>1, <2>2
<1>12. draft.enter[e] = NoEnter /\ rows.enter[e] = NoEnter /\ NoEnter.span = NoSpan
  BY <1>3, <1>6 DEF RowsInv, NoEnter
<1>13. /\ RowsInv' /\ MarksInv'
       /\ \A b \in Spans \ {s} : DraftRows(b)' = DraftRows(b) /\ DraftLeft(b)' = DraftLeft(b)
       /\ DraftRows(s)' = DraftRows(s) \cup {e} /\ DraftLeft(s)' = DraftLeft(s) \ {e}
  <2>1. enterIds' \in Nat /\ enterIds <= enterIds' /\ e <= enterIds'
    BY <1>6, <1>10
  <2>2. entered'[s] \in {0, e} /\ draft.enter[e].span \in {s, NoSpan}
        /\ rows.enter[e].span \in {s, NoSpan}
    BY <1>11, <1>12
  <2>3. QED
    BY <1>6, <1>8, <1>9, <1>10, <1>11, <2>1, <2>2, EnterRowsKeep
<1>14. e \notin DraftRows(s) /\ e \notin DraftLeft(s)
  BY <1>12, NoSpanIsNone DEF DraftRows, DraftLeft
<1>15. TaskInv(x)'
  <2>1. entered \in [Spans -> 0..enterIds] /\ busy \in [Spans -> Nat]
    BY <1>3 DEF TaskInv
  <2>2. entered' \in [Spans -> 0..enterIds']
    BY <1>6, <1>10, <2>1
  <2>3. \A b \in Spans : b \in x.on <=> entered'[b] # 0
    BY <1>2, <1>3, <1>6, <1>11 DEF TaskInv
  <2>4. \A b, c \in Spans : entered'[b] = entered'[c] /\ entered'[b] # 0 => b = c
    BY <1>3, <1>11 DEF TaskInv
  <2>5. \A b \in Spans : IF b \in x.on THEN busy[b] < enterIds' ELSE busy[b] <= enterIds'
    BY <1>2, <1>3, <1>5, <1>6, <1>10, <2>1 DEF TaskInv
  <2>6. \A i \in 1..MaxEnters : draft'.enter[i].span \in x.made \cup {NoSpan}
    <3>1. draft'.enter = g /\ draft.enter \in [1..MaxEnters -> EnterRow]
      BY <1>3, <1>10, RowsAre DEF RowsInv
    <3>2. \A i \in 1..MaxEnters : g[i] = IF i = e THEN r ELSE draft.enter[i]
      BY <1>6, <1>9, <3>1
    <3>3. QED
      BY <1>2, <1>3, <1>4, <1>8, <3>1, <3>2 DEF TaskInv
  <2>7. QED
    BY <1>2, <1>3, <1>6, <1>10, <2>2, <2>3, <2>4, <2>5, <2>6 DEF TaskInv
<1>16. ToldInv(x)'
  <2>1. draft'.run = draft.run
    BY <1>10
  <2>2. ASSUME NEW b \in Spans \ victims
        PROVE  /\ entered'[b] # 0 => entered'[b] \in DraftRows(b)' \ DraftLeft(b)'
               /\ b \notin shared => DraftRows(b)' \ DraftLeft(b)' \subseteq {entered'[b]}
               /\ busy[b] = Cardinality(DraftLeft(b)')
    <3>1. CASE b = s
      <4>1. DraftLeft(s)' = DraftLeft(s)
        BY <1>13, <1>14
      <4>2. busy[s] = Cardinality(DraftLeft(s))
        BY <1>3, <2>2, <3>1 DEF ToldInv
      <4>3. e \in DraftRows(s)' \ DraftLeft(s)'
        BY <1>13, <1>14
      <4>4. s \notin shared => DraftRows(s) \ DraftLeft(s) = {}
        <5>1. s \notin shared => entered[s] = 0
          BY <1>3, <1>4 DEF TaskInv
        <5>2. s \notin shared => DraftRows(s) \ DraftLeft(s) \subseteq {0}
          BY <1>3, <2>2, <3>1, <5>1 DEF ToldInv
        <5>3. 0 \notin DraftRows(s)
          BY DEF DraftRows
        <5>4. QED
          BY <5>2, <5>3
      <4>5. QED
        BY <1>11, <1>13, <3>1, <4>1, <4>2, <4>3, <4>4
    <3>2. CASE b # s
      <4>1. /\ entered'[b] = entered[b]
            /\ DraftRows(b)' = DraftRows(b) /\ DraftLeft(b)' = DraftLeft(b)
        BY <1>11, <1>13, <3>2
      <4>2. QED
        BY <1>3, <2>2, <4>1 DEF ToldInv
    <3>3. QED
      BY <3>1, <3>2
  <2>3. QED
    BY <1>2, <1>3, <1>10, <2>1, <2>2 DEF ToldInv
<1>17. OnlySharedSkipped'
  BY <1>3, <1>10 DEF Handling, OnlySharedSkipped, Hidden
<1>18. QED
  BY <1>13, <1>15, <1>16, <1>17 DEF Handled

\* The rows of enters that are left are finite in number.
LEMMA DraftLeftFinite ==
  ASSUME NEW s
  PROVE  IsFiniteSet(DraftLeft(s))
<1>1. IsFiniteSet(1..MaxEnters)
  BY FS_Interval, ConstantsAssumption
<1>2. DraftLeft(s) \subseteq 1..MaxEnters
  BY DEF DraftLeft, DraftRows
<1>3. QED
  BY <1>1, <1>2, FS_Subset

\* SpanLeave, of a span that is entered, or one that two threads were in.
LEMMA HandleLeaveKeeps ==
  ASSUME NEW v, NEW h, NEW x, Handling(v, h, x), h.type = "Leave", HandleLeave(h)
  PROVE  Handled(x)
<1>1. PICK s \in Spans : s = h.span
  BY MessageKinds DEF Handling
<1>2. /\ x.made = v.made /\ x.gone = v.gone /\ x.on = v.on \ {s} /\ x.enters = v.enters
      /\ x.field = v.field
  <2>1. x = Told(v, h) /\ v \in View /\ h \in Stuff
    BY DEF Handling
  <2>2. QED
    BY <1>1, <2>1, TellsOf
<1>3. /\ TaskInv(v) /\ ToldInv(v) /\ RowsInv /\ v \in View /\ OnlySharedSkipped
      /\ UNCHANGED <<app, tlParent, shared, victims, rows>>
  BY DEF Handling
<1>4. /\ s \in v.made /\ s \notin v.gone /\ s \in created
      /\ s \in v.on \/ s \in shared
  BY <1>1, <1>3 DEF Handling, Fits, TaskInv, About, World
<1>5. s \in v.on <=> entered[s] # 0
  BY <1>3 DEF TaskInv
<1>6. CASE entered[s] = 0
  <2>1. Skip(h)
    BY <1>1, <1>6 DEF HandleLeave
  <2>2. /\ skipped' = skipped \cup {h}
        /\ UNCHANGED <<created, subs, entered, busy, enterIds, draft, batch, events>>
    BY <2>1 DEF Skip
  <2>3. h \in Msg /\ s \in shared
    BY <1>4, <1>5, <1>6, MessageKinds DEF Handling, About
  <2>4. OnlySharedSkipped'
    BY <1>1, <1>3, <2>2, <2>3 DEF OnlySharedSkipped, Hidden
  <2>5. x.on = v.on
    BY <1>2, <1>5, <1>6
  <2>6. /\ skipped' \subseteq Msg
        /\ events' \subseteq [asked : Spans \cup {NoSpan}, span : Spans \cup {NoSpan}]
    BY <1>3, <2>2, <2>3 DEF TaskInv
  <2>7. QED
    BY <1>2, <2>2, <2>4, <2>5, <2>6, NoStatements
<1>7. CASE entered[s] # 0
  <2>1. PICK e : e = entered[s]
    OBVIOUS
  <2>2. PICK r : r = IF draft.enter[e] = NoEnter THEN draft.enter[e]
                     ELSE [draft.enter[e] EXCEPT !.left = TRUE]
    OBVIOUS
  <2>3. PICK g : g = [draft.enter EXCEPT ![e] = r]
    OBVIOUS
  <2>4. /\ entered' = [entered EXCEPT ![s] = 0] /\ busy' = [busy EXCEPT ![s] = busy[s] + 1]
        /\ draft' = [run |-> draft.run, enter |-> g] /\ batch' = batch \cup {s}
        /\ UNCHANGED <<created, subs, enterIds, events, skipped>>
    BY <1>1, <1>4, <1>7, <2>1, <2>2, <2>3 DEF HandleLeave, Statements
  <2>5. /\ entered \in [Spans -> 0..enterIds] /\ busy \in [Spans -> Nat]
        /\ enterIds \in Nat /\ enterIds <= MaxEnters
    <3>1. v.enters <= enters /\ enters \in 0..MaxEnters /\ v.enters \in Nat /\ enterIds = v.enters
      BY <1>3, ViewIs DEF Handling, Sound, World, Shapes, TaskInv
    <3>2. QED
      BY <1>3, <3>1, ConstantsAssumption DEF TaskInv
  <2>6. e \in 1..MaxEnters /\ e <= enterIds
    BY <1>7, <2>1, <2>5, ConstantsAssumption
  <2>7. /\ entered'[s] = 0 /\ busy'[s] = busy[s] + 1
        /\ \A b \in Spans \ {s} :
             entered'[b] = entered[b] /\ entered[b] # e /\ busy'[b] = busy[b]
    BY <1>3, <1>7, <2>1, <2>4, <2>5 DEF TaskInv
  <2>8. /\ draft.run \in [Spans -> RunRow] /\ draft.enter \in [1..MaxEnters -> EnterRow]
        /\ draft.enter[e] \in EnterRow
    BY <1>3, <2>6, RowsAre DEF RowsInv
  <2>9. /\ draft.enter[e].span \in {s, NoSpan} /\ rows.enter[e].span \in {s, NoSpan}
        /\ draft.enter[e].span = NoSpan => draft.enter[e] = NoEnter
    BY <1>3, <1>7, <2>1, <2>6 DEF RowsInv
  <2>10. r \in EnterRow /\ r.span = draft.enter[e].span
         /\ (draft.enter[e] # NoEnter => r.left)
    BY <2>2, <2>8 DEF EnterRow
  <2>11. /\ RowsInv' /\ MarksInv'
         /\ \A b \in Spans \ {s} : DraftRows(b)' = DraftRows(b) /\ DraftLeft(b)' = DraftLeft(b)
         /\ draft.enter[e] # NoEnter =>
              /\ DraftRows(s)' = DraftRows(s) \cup {e}
              /\ DraftLeft(s)' = DraftLeft(s) \cup {e}
    <3>1. CASE draft.enter[e] = NoEnter
      <4>1. r = draft.enter[e] /\ g = draft.enter
        BY <2>2, <2>3, <2>6, <2>8, <3>1
      <4>2. \A b \in Spans : entered'[b] \in {entered[b], 0}
        BY <2>7
      <4>3. draft' = [run |-> draft.run, enter |-> draft.enter]
        BY <2>4, <4>1
      <4>4. QED
        BY <2>4, <2>8, <3>1, <4>2, <4>3, RunRowsKeep
    <3>2. CASE draft.enter[e] # NoEnter
      <4>1. r.span = s /\ r.left
        BY <2>9, <2>10, <3>2
      <4>2. enterIds' \in Nat /\ enterIds <= enterIds' /\ e <= enterIds' /\ entered'[s] \in {0, e}
        BY <2>4, <2>5, <2>6, <2>7
      <4>3. draft' = [run |-> draft.run, enter |-> g] /\ batch' = batch \cup {s}
        BY <2>4
      <4>4. \A b \in Spans \ {s} : entered'[b] = entered[b] /\ entered[b] # e
        BY <2>7
      <4>5. e \in 1..MaxEnters /\ r \in EnterRow
        BY <2>6, <2>10
      <4>6. /\ RowsInv' /\ MarksInv'
            /\ \A b \in Spans \ {s} :
                 DraftRows(b)' = DraftRows(b) /\ DraftLeft(b)' = DraftLeft(b)
            /\ DraftRows(s)' = DraftRows(s) \cup {e}
            /\ DraftLeft(s)' = IF r.left THEN DraftLeft(s) \cup {e} ELSE DraftLeft(s) \ {e}
        BY <2>3, <2>9, <4>1, <4>2, <4>3, <4>4, <4>5, EnterRowsKeep
      <4>7. QED
        BY <4>1, <4>6
    <3>3. QED
      BY <3>1, <3>2
  <2>12. TaskInv(x)'
    <3>1. entered' \in [Spans -> 0..enterIds'] /\ busy' \in [Spans -> Nat]
      BY <2>4, <2>5
    <3>2. \A b \in Spans : b \in x.on <=> entered'[b] # 0
      BY <1>2, <1>3, <2>7 DEF TaskInv
    <3>3. \A b, c \in Spans : entered'[b] = entered'[c] /\ entered'[b] # 0 => b = c
      BY <1>3, <2>7 DEF TaskInv
    <3>4. \A b \in Spans : IF b \in x.on THEN busy'[b] < enterIds' ELSE busy'[b] <= enterIds'
      <4>1. busy[s] < enterIds
        BY <1>3, <1>5, <1>7 DEF TaskInv
      <4>2. QED
        BY <1>2, <1>3, <2>4, <2>5, <2>7, <4>1 DEF TaskInv
    <3>5. \A i \in 1..MaxEnters : draft'.enter[i].span \in x.made \cup {NoSpan}
      <4>1. draft'.enter = g
        BY <2>4
      <4>2. \A i \in 1..MaxEnters : g[i].span = draft.enter[i].span
        <5>1. \A i \in 1..MaxEnters : g[i] = IF i = e THEN r ELSE draft.enter[i]
          <6>1. draft.enter \in [1..MaxEnters -> EnterRow]
            BY <2>8
          <6>2. QED
            BY <2>3, <2>6, <6>1
        <5>2. r.span = draft.enter[e].span
          BY <2>10
        <5>3. QED
          BY <5>1, <5>2
      <4>3. QED
        BY <1>2, <1>3, <4>1, <4>2 DEF TaskInv
    <3>6. QED
      BY <1>2, <1>3, <2>4, <3>1, <3>2, <3>3, <3>4, <3>5 DEF TaskInv
  <2>13. ToldInv(x)'
    <3>1. draft'.run = draft.run
      BY <2>4
    <3>2. ASSUME NEW b \in Spans \ victims
          PROVE  /\ entered'[b] # 0 => entered'[b] \in DraftRows(b)' \ DraftLeft(b)'
                 /\ b \notin shared => DraftRows(b)' \ DraftLeft(b)' \subseteq {entered'[b]}
                 /\ busy'[b] = Cardinality(DraftLeft(b)')
                 /\ b \in x.gone => busy'[b] = busy[b]
      <4>1. CASE b = s
        <5>1. /\ e \in DraftRows(s) \ DraftLeft(s) /\ busy[s] = Cardinality(DraftLeft(s))
              /\ s \notin shared => DraftRows(s) \ DraftLeft(s) \subseteq {e}
          BY <1>3, <1>7, <2>1, <3>2, <4>1 DEF ToldInv
        <5>2. draft.enter[e] # NoEnter
          BY <5>1, NoSpanIsNone DEF DraftRows, NoEnter
        <5>3. DraftRows(s)' = DraftRows(s) \cup {e} /\ DraftLeft(s)' = DraftLeft(s) \cup {e}
          BY <2>11, <5>2
        <5>4. Cardinality(DraftLeft(s) \cup {e}) = Cardinality(DraftLeft(s)) + 1
          BY <5>1, DraftLeftFinite, FS_AddElement
        <5>5. QED
          BY <1>2, <1>4, <2>7, <4>1, <5>1, <5>3, <5>4
      <4>2. CASE b # s
        <5>1. /\ entered'[b] = entered[b] /\ busy'[b] = busy[b]
              /\ DraftRows(b)' = DraftRows(b) /\ DraftLeft(b)' = DraftLeft(b)
          BY <2>7, <2>11, <4>2
        <5>2. QED
          BY <1>3, <3>2, <5>1 DEF ToldInv
      <4>3. QED
        BY <4>1, <4>2
    <3>3. QED
      BY <1>2, <1>3, <2>4, <3>1, <3>2 DEF ToldInv
  <2>14. OnlySharedSkipped'
    BY <1>3, <2>4 DEF OnlySharedSkipped, Hidden
  <2>15. QED
    BY <2>11, <2>12, <2>13, <2>14 DEF Handled
<1>8. QED
  BY <1>6, <1>7

\* Event.
LEMMA HandleEventKeeps ==
  ASSUME NEW v, NEW h, NEW x, Handling(v, h, x), h.type = "Event", HandleEvent(h), h \in Seen,
         h.span = h.asked \/ (h.span = NoSpan /\ Hidden(h.asked))
  PROVE  Handled(x)
<1>1. x = v
  BY TellsOf DEF Handling
<1>2. TaskInv(v) /\ OnlySharedSkipped /\ UNCHANGED <<app, shared>>
  BY DEF Handling
<1>3. PICK e : e = [asked |-> h.asked, span |-> h.span]
  OBVIOUS
<1>4. /\ events' = events \cup {e}
      /\ UNCHANGED <<created, subs, entered, busy, enterIds, draft, batch, skipped>>
  BY <1>3 DEF HandleEvent
<1>5. e \in [asked : Spans \cup {NoSpan}, span : Spans \cup {NoSpan}]
      /\ e.asked = h.asked /\ e.span = h.span
  BY <1>3 DEF Seen
<1>6. OnlySharedSkipped'
  BY <1>2, <1>4, <1>5 DEF OnlySharedSkipped, Hidden
<1>7. /\ skipped' \subseteq Msg
      /\ events' \subseteq [asked : Spans \cup {NoSpan}, span : Spans \cup {NoSpan}]
  BY <1>2, <1>4, <1>5 DEF TaskInv
<1>8. QED
  BY <1>1, <1>4, <1>6, <1>7, NoStatements

\* The first message is handled.
LEMMA HandleMsgKeeps ==
  ASSUME NEW v, NEW h, NEW x, Handling(v, h, x), HandleMsg(h), h \in Msg \cup Seen,
         h.type = "Event" =>
           h \in Seen /\ (h.span = h.asked \/ (h.span = NoSpan /\ Hidden(h.asked)))
  PROVE  Handled(x)
<1>1. h.type \in {"Create", "Close", "Record", "Enter", "Leave", "Event"}
  BY DEF Msg, Seen
<1>2. CASE h.type = "Create"
  BY <1>2, HandleCreateKeeps DEF HandleMsg
<1>3. CASE h.type = "Close"
  BY <1>3, HandleCloseKeeps DEF HandleMsg
<1>4. CASE h.type = "Record"
  BY <1>4, HandleRecordKeeps DEF HandleMsg
<1>5. CASE h.type = "Enter"
  BY <1>5, HandleEnterKeeps DEF HandleMsg
<1>6. CASE h.type = "Leave"
  BY <1>6, HandleLeaveKeeps DEF HandleMsg
<1>7. CASE h.type = "Event"
  BY <1>7, HandleEventKeeps DEF HandleMsg
<1>8. QED
  BY <1>1, <1>2, <1>3, <1>4, <1>5, <1>6, <1>7

\* Handle: the task takes the first message of its channel.
LEMMA HandleKeeps ==
  ASSUME IInv, Handle
  PROVE  IInv'
<1>1. PICK v, m, u : Views(v, m, u)
  BY DEF IInv
<1>2. /\ Shapes /\ RowsInv /\ MarksInv /\ OnlySharedSkipped /\ v \in View /\ m \in View
      /\ TaskInv(v) /\ ToldInv(v) /\ TakenInv(m) /\ Run(inbox, v, m, World(running))
  BY <1>1 DEF IInv, Views
<1>3. PICK h : h = Head(inbox)
  OBVIOUS
<1>4. /\ inbox # <<>> /\ HandleMsg(h) /\ inbox' = Tail(inbox)
      /\ UNCHANGED <<appVars, stopped, channel, client, lifeVars, missed>>
      /\ UNCHANGED <<app, born, regParent, tlParent, shared, running, enters, rows, victims, task>>
  BY <1>3 DEF Handle, Taken, TaskStep, appVars, lifeVars, dbVars
<1>5. PICK x : x = Told(v, h)
  OBVIOUS
<1>6. inbox \in Seq(Msg \cup Seen) /\ inbox \in Seq(Stuff)
  BY <1>2, ChannelsHold DEF Shapes
<1>7. /\ h \in Stuff /\ Fits(h, v, World(running)) /\ Sound(x, World(running))
      /\ Run(Tail(inbox), x, m, World(running))
  BY <1>2, <1>3, <1>4, <1>5, <1>6, RunTail
<1>8. x \in View
  BY <1>2, <1>5, <1>7, TellsOf
<1>9. PICK n \in Nat : n = Len(inbox)
  BY <1>6, LenProperties
<1>10. /\ h = inbox[1] /\ 1 \in 1..n /\ h \in Msg \cup Seen
       /\ Tail(inbox) \in Seq(Msg \cup Seen) /\ Len(Tail(inbox)) = n - 1
       /\ \A i \in 1..(n - 1) : Tail(inbox)[i] = inbox[i + 1] /\ i + 1 \in 1..n
  BY <1>3, <1>4, <1>6, <1>9
<1>11. h.type = "Event" =>
         h \in Seen /\ (h.span = h.asked \/ (h.span = NoSpan /\ Hidden(h.asked)))
  BY <1>2, <1>9, <1>10 DEF TakenInv
<1>12. Handling(v, h, x)
  BY <1>1, <1>2, <1>4, <1>5, <1>7, <1>8, RunningBorn DEF Handling
<1>13. Handled(x)
  BY <1>4, <1>10, <1>11, <1>12, HandleMsgKeeps
<1>14. TakenInv(m)'
  BY <1>2, <1>4, <1>9, <1>10 DEF TakenInv, Hidden
<1>15. /\ task' \in {"running", "finished"} /\ inbox' \in Seq(Msg \cup Seen)
       /\ Run(inbox', x, m, World(running))
  BY <1>2, <1>4, <1>7, <1>10 DEF Shapes
<1>16. TaskInv(x)' /\ ToldInv(x)' /\ RowsInv' /\ MarksInv' /\ OnlySharedSkipped'
  BY <1>13 DEF Handled
<1>17. QED
  BY <1>1, <1>4, <1>8, <1>14, <1>15, <1>16, TaskStepKeeps

\* Execute: the batch is one transaction, and when it fails the rows of its spans are
\* no longer what the task was told.
LEMMA ExecuteKeeps ==
  ASSUME IInv, Execute
  PROVE  IInv'
<1>1. PICK v, m, u : Views(v, m, u)
  BY DEF IInv
<1>2. /\ Shapes /\ RowsInv /\ MarksInv /\ OnlySharedSkipped /\ v \in View
      /\ TaskInv(v) /\ ToldInv(v) /\ TakenInv(m) /\ Run(inbox, v, m, World(running))
  BY <1>1 DEF IInv, Views
<1>3. /\ UNCHANGED <<appVars, stopped, channel, client, lifeVars, missed>>
      /\ UNCHANGED <<app, born, regParent, tlParent, shared, running, inbox, task, created, subs,
                     entered, busy, enterIds, events, skipped>>
      /\ batch' = {} /\ draft' = rows'
  BY DEF Execute, appVars, lifeVars
<1>4. \/ rows' = draft /\ victims' = victims
      \/ rows' = rows /\ victims' = victims \cup batch
  BY DEF Execute
<1>5. RowsInv'
  <2>1. rows' \in Rows /\ draft' \in Rows /\ batch' \subseteq Spans /\ victims' \subseteq Spans
    BY <1>2, <1>3, <1>4 DEF RowsInv
  <2>2. \A e \in 1..MaxEnters : e > enterIds => rows'.enter[e] = NoEnter
    BY <1>2, <1>4 DEF RowsInv
  <2>3. \A e \in 1..MaxEnters : rows'.enter[e].span = NoSpan => rows'.enter[e] = NoEnter
    BY <1>2, <1>4 DEF RowsInv
  <2>4. \A s \in Spans : entered[s] # 0 => rows'.enter[entered[s]].span \in {s, NoSpan}
    BY <1>2, <1>4 DEF RowsInv
  <2>5. QED
    BY <1>3, <2>1, <2>2, <2>3, <2>4 DEF RowsInv
<1>6. MarksInv'
  BY <1>2, <1>3, <1>4, RootedSame DEF MarksInv
<1>7. TaskInv(v)'
  <2>1. \A e \in 1..MaxEnters : draft'.enter[e].span \in v.made \cup {NoSpan}
    BY <1>2, <1>3, <1>4 DEF TaskInv, RowsInv
  <2>2. QED
    BY <1>2, <1>3, <2>1 DEF TaskInv
<1>8. ToldInv(v)'
  <2>1. ASSUME NEW s \in Spans \ victims'
        PROVE  /\ s \in Spans \ victims
               /\ draft'.run[s].made <=> draft.run[s].made
               /\ draft'.run[s].closed <=> draft.run[s].closed
               /\ draft'.run[s].field = draft.run[s].field
               /\ draft'.run[s].busy = draft.run[s].busy
               /\ DraftRows(s)' = DraftRows(s) /\ DraftLeft(s)' = DraftLeft(s)
    <3>1. CASE rows' = draft /\ victims' = victims
      BY <1>3, <2>1, <3>1 DEF DraftRows, DraftLeft
    <3>2. CASE rows' = rows /\ victims' = victims \cup batch
      <4>1. s \in Spans \ batch /\ s \in Spans \ victims /\ s # NoSpan
        BY <2>1, <3>2, NoSpanIsNone
      <4>2. draft' = rows
        BY <1>3, <3>2
      <4>3. ASSUME NEW e \in 1..MaxEnters, draft.enter[e].span = s \/ rows.enter[e].span = s
            PROVE  draft.enter[e] = rows.enter[e]
        BY <1>2, <4>1, <4>3 DEF RowsInv
      <4>4. DraftRows(s)' = DraftRows(s)
        BY <4>2, <4>3 DEF DraftRows
      <4>5. DraftLeft(s)' = DraftLeft(s)
        BY <4>2, <4>3, <4>4 DEF DraftLeft, DraftRows
      <4>6. QED
        BY <1>2, <4>1, <4>2, <4>4, <4>5 DEF RowsInv
    <3>3. QED
      BY <1>4, <3>1, <3>2
  <2>2. QED
    BY <1>2, <1>3, <2>1 DEF ToldInv
<1>9. OnlySharedSkipped'
  BY <1>2, <1>3 DEF OnlySharedSkipped, Hidden
<1>10. TakenInv(m)'
  BY <1>2, <1>3 DEF TakenInv, Hidden
<1>11. task' \in {"running", "finished"} /\ inbox' \in Seq(Msg \cup Seen)
       /\ Run(inbox', v, m, World(running))
  BY <1>2, <1>3 DEF Shapes
<1>12. QED
  BY <1>1, <1>2, <1>3, <1>5, <1>6, <1>7, <1>8, <1>9, <1>10, <1>11, TaskStepKeeps

\* Nothing changes but that the task may end.
LEMMA TaskRests ==
  ASSUME IInv, task' \in {"running", "finished"},
         UNCHANGED <<appVars, stopped, channel, client, lifeVars, inbox, created, subs, entered,
                     busy, enterIds, draft, batch, events, skipped, dbVars, missed>>
  PROVE  IInv'
<1>1. PICK v, m, u : Views(v, m, u)
  BY DEF IInv
<1>2. /\ Shapes /\ RowsInv /\ MarksInv /\ OnlySharedSkipped /\ v \in View
      /\ TaskInv(v) /\ ToldInv(v) /\ TakenInv(m) /\ Run(inbox, v, m, World(running))
  BY <1>1 DEF IInv, Views
<1>3. UNCHANGED <<app, regParent, tlParent, shared, running, inbox, created, subs, entered, busy,
                  enterIds, draft, batch, events, skipped, rows, victims>>
  BY DEF appVars, lifeVars, dbVars
<1>4. RowsInv'
  BY <1>2, <1>3 DEF RowsInv
<1>5. MarksInv'
  BY <1>2, <1>3, RootedSame DEF MarksInv
<1>6. TaskInv(v)'
  BY <1>2, <1>3 DEF TaskInv
<1>7. ToldInv(v)'
  BY <1>2, <1>3 DEF ToldInv, DraftRows, DraftLeft
<1>8. OnlySharedSkipped' /\ TakenInv(m)'
  BY <1>2, <1>3 DEF OnlySharedSkipped, Hidden, TakenInv
<1>9. inbox' \in Seq(Msg \cup Seen) /\ Run(inbox', v, m, World(running))
  BY <1>2, <1>3 DEF Shapes
<1>10. QED
  BY <1>1, <1>2, <1>4, <1>5, <1>6, <1>7, <1>8, <1>9, TaskStepKeeps

-----------------------------------------------------------------------------
(* The invariant.                                                          *)

\* It holds at first.
LEMMA InitIInv == Init => IInv
<1>1. SUFFICES ASSUME Init
               PROVE  IInv
  OBVIOUS
<1>2. 0 \in 0..MaxNotes /\ 0 \in 0..MaxEnters /\ MaxEnters \in Nat /\ NoSpan = 0
  BY ConstantsAssumption DEF NoSpan
<1>3. \A s \in Spans : NoSpan < s
  BY ConstantsAssumption DEF Spans, NoSpan
<1>4. Shapes
  <2>1. inside \in [Threads -> Seq(Open)]
    <3>1. <<>> \in Seq(Open) /\ inside = [t \in Threads |-> <<>>]
      BY <1>1 DEF Init
    <3>2. QED
      BY <3>1
  <2>2. channel \in Seq(Msg \cup {AppStop}) /\ inbox \in Seq(Msg \cup Seen)
    BY <1>1 DEF Init
  <2>3. /\ regParent \in [Spans -> Spans \cup {NoSpan}]
        /\ tlParent \in [Spans -> Spans \cup {NoSpan}]
        /\ field \in [Spans -> 0..MaxNotes]
        /\ \A s \in Spans : tlParent[s] < s
    BY <1>1, <1>2, <1>3 DEF Init
  <2>4. notes \in 0..MaxNotes /\ enters \in 0..MaxEnters
    BY <1>1, <1>2 DEF Init
  <2>5. QED
    BY <1>1, <2>1, <2>2, <2>3, <2>4 DEF Init, Shapes
<1>5. ThreadsInv
  BY <1>1 DEF Init, ThreadsInv, Inside
<1>6. /\ NoRun \in RunRow /\ NoEnter \in EnterRow /\ NoEnter.span = NoSpan
      /\ ~NoRun.made /\ ~NoRun.closed /\ ~NoRun.marked /\ NoRun.busy = 0 /\ NoRun.field = 0
  BY <1>2 DEF NoRun, NoEnter, RunRow, EnterRow
<1>7. PICK f \in [Spans -> RunRow] : f = [s \in Spans |-> NoRun]
  BY <1>6
<1>8. PICK g \in [1..MaxEnters -> EnterRow] : g = [e \in 1..MaxEnters |-> NoEnter]
  BY <1>6
<1>9. rows = [run |-> f, enter |-> g] /\ draft = rows
  BY <1>1, <1>7, <1>8 DEF Init
<1>10. rows \in Rows /\ rows.run = f /\ rows.enter = g /\ draft.run = f /\ draft.enter = g
  BY <1>9, RowsAre
<1>11. (\A s \in Spans : f[s] = NoRun) /\ (\A e \in 1..MaxEnters : g[e] = NoEnter)
  BY <1>7, <1>8
<1>12. /\ batch = {} /\ victims = {} /\ created = {} /\ enterIds = 0 /\ skipped = {} /\ events = {}
       /\ \A s \in Spans : entered[s] = 0 /\ busy[s] = 0 /\ subs[s] = {}
       /\ entered \in [Spans -> {0}] /\ busy \in [Spans -> {0}] /\ subs \in [Spans -> {{}}]
  BY <1>1 DEF Init
<1>13. RowsInv
  BY <1>6, <1>9, <1>10, <1>11, <1>12 DEF RowsInv
<1>14. MarksInv
  BY <1>6, <1>10, <1>11 DEF MarksInv
<1>15. OnlySidRefused /\ OnlySharedSkipped
  BY <1>1 DEF Init, OnlySidRefused, OnlySharedSkipped
<1>16. PICK k : k = [s \in Spans |-> 0]
  OBVIOUS
<1>17. k \in [Spans -> 0..MaxNotes] /\ \A s \in Spans : k[s] = 0
  BY <1>2, <1>16
<1>18. PICK v : v = [made |-> {}, gone |-> {}, on |-> {}, field |-> k, enters |-> 0]
  OBVIOUS
<1>19. v \in View /\ v.made = {} /\ v.gone = {} /\ v.on = {} /\ v.field = k /\ v.enters = 0
  BY <1>17, <1>18 DEF View
<1>20. Sound(v, World(running)) /\ Sound(v, World(born))
  BY <1>1, <1>17, <1>19 DEF Init, Sound, World
<1>21. Run(inbox, v, v, World(running)) /\ Run(channel, v, v, World(born))
  BY <1>1, <1>19, <1>20, RunEmpty DEF Init
<1>22. SentInv(v)
  BY <1>1, <1>19 DEF Init, SentInv, Says
<1>23. TakenInv(v)
  BY <1>1, <1>19 DEF Init, TakenInv
<1>24. TaskInv(v)
  <2>1. \A e \in 1..MaxEnters : draft.enter[e].span \in v.made \cup {NoSpan}
    BY <1>6, <1>10, <1>11
  <2>2. QED
    BY <1>12, <1>19, <2>1 DEF TaskInv
<1>25. ToldInv(v)
  <2>1. ASSUME NEW s \in Spans
        PROVE  DraftRows(s) = {} /\ DraftLeft(s) = {}
    BY <1>6, <1>10, <1>11, NoSpanIsNone DEF DraftRows, DraftLeft
  <2>2. Cardinality({}) = 0
    BY FS_EmptySet
  <2>3. QED
    BY <1>6, <1>10, <1>11, <1>12, <1>17, <1>19, <2>1, <2>2 DEF ToldInv
<1>26. Views(v, v, v)
  BY <1>19, <1>21, <1>22, <1>23, <1>24, <1>25 DEF Views
<1>27. QED
  BY <1>4, <1>5, <1>13, <1>14, <1>15, <1>26 DEF IInv

\* Every step keeps it.
LEMMA StepIInv == IInv /\ [Next]_vars => IInv'
<1>1. SUFFICES ASSUME IInv, [Next]_vars
               PROVE  IInv'
  OBVIOUS
<1>2. CASE Application
  BY <1>1, <1>2, ApplicationKeeps
<1>3. CASE ClientSends
  BY <1>1, <1>3, ClientSendsKeeps
<1>4. CASE ClientPutsStopAside
  BY <1>1, <1>4, PutAsideKeeps
<1>5. CASE ClientStops \/ ConnectionBreaks
  BY <1>1, <1>5, EndsKeep
<1>6. CASE Handle
  BY <1>1, <1>6, HandleKeeps
<1>7. CASE Execute
  BY <1>1, <1>7, ExecuteKeeps
<1>8. CASE TaskEnds
  BY <1>1, <1>8, TaskRests DEF TaskEnds
<1>9. CASE UNCHANGED vars
  <2>1. task' \in {"running", "finished"}
    BY <1>1, <1>9 DEF vars, taskVars, IInv, Shapes
  <2>2. UNCHANGED <<appVars, stopped, channel, client, lifeVars, inbox, created, subs, entered,
                    busy, enterIds, draft, batch, events, skipped, dbVars, missed>>
    BY <1>9 DEF vars, taskVars
  <2>3. QED
    BY <1>1, <2>1, <2>2, TaskRests
<1>10. QED
  BY <1>1, <1>2, <1>3, <1>4, <1>5, <1>6, <1>7, <1>8, <1>9 DEF Next, Connection, Task

\* The invariant holds in every state of the system.
THEOREM Invariance == Spec => []IInv
<1>1. Init => IInv
  BY InitIInv
<1>2. IInv /\ [Next]_vars => IInv'
  BY StepIInv
<1>3. QED
  BY <1>1, <1>2, PTL DEF Spec

-----------------------------------------------------------------------------
(* What follows from it.                                                   *)

\* The server refuses no message of a well-behaved application but the creation of a
\* span whose field "sid" is a text that is no uuid.
THEOREM NothingElseRefused == Spec => []OnlySidRefused
<1>1. IInv => OnlySidRefused
  BY DEF IInv
<1>2. QED
  BY <1>1, Invariance, PTL

\* No record is kept from the watchers but a leave of a span that two threads were in,
\* and an event names the span the layer named unless that one is hidden.
THEOREM WatchersMissOnlyShared == Spec => []OnlySharedSkipped
<1>1. IInv => OnlySharedSkipped
  BY DEF IInv
<1>2. QED
  BY <1>1, Invariance, PTL

\* A span is marked as ended by exception only if it or a span above it was declared a
\* root inside another span.
THEOREM MarksOnlyUnderRoots == Spec => []MarkedOnlyUnderRoots
<1>1. IInv => MarkedOnlyUnderRoots
  BY DEF IInv, MarksInv, Rooted, MarkedOnlyUnderRoots
<1>2. QED
  BY <1>1, Invariance, PTL

\* Every variable keeps to its type: the task makes as many enter rows, and sums as
\* many enters, as the application's at most.
THEOREM TypeCorrect == Spec => []TypeOK
<1>1. ASSUME IInv
      PROVE  TypeOK
  <2>1. PICK v, m, u : Views(v, m, u)
    BY <1>1 DEF IInv
  <2>2. Shapes /\ RowsInv /\ TaskInv(v) /\ v \in View
    BY <1>1, <2>1 DEF IInv, Views
  <2>3. running \subseteq born /\ v.made \subseteq running /\ Sound(v, World(running))
    BY <2>1, <2>2, RunningBorn
  <2>4. created \subseteq running /\ subs \in [Spans -> SUBSET created]
    BY <2>2, <2>3 DEF TaskInv
  <2>5. enterIds \in 0..enters
    <3>1. v.enters <= enters /\ v.enters \in Nat /\ enterIds = v.enters /\ enters \in 0..MaxEnters
      BY <2>2, <2>3, ViewIs DEF Sound, World, TaskInv, Shapes
    <3>2. QED
      BY <3>1, ConstantsAssumption
  <2>6. entered \in [Spans -> 0..enterIds]
    BY <2>2 DEF TaskInv
  <2>7. busy \in [Spans -> 0..enterIds]
    <3>1. busy \in [Spans -> Nat] /\ enterIds \in Nat /\ \A s \in Spans : busy[s] <= enterIds
      <4>1. enterIds \in Nat
        BY <2>2, ViewIs DEF TaskInv
      <4>2. busy \in [Spans -> Nat]
        BY <2>2 DEF TaskInv
      <4>3. \A s \in Spans : IF s \in v.on THEN busy[s] < enterIds ELSE busy[s] <= enterIds
        BY <2>2 DEF TaskInv
      <4>4. QED
        BY <4>1, <4>2, <4>3
    <3>2. \A s \in Spans : busy[s] \in 0..enterIds
      BY <3>1
    <3>3. QED
      BY <3>1, <3>2
  <2>8. /\ skipped \subseteq Msg
        /\ events \subseteq [asked : Spans \cup {NoSpan}, span : Spans \cup {NoSpan}]
    BY <2>2 DEF TaskInv
  <2>9. rows \in Rows /\ draft \in Rows /\ batch \subseteq Spans /\ victims \subseteq Spans
    BY <2>2 DEF RowsInv
  <2>10. QED
    BY <2>2, <2>3, <2>4, <2>5, <2>6, <2>7, <2>8, <2>9 DEF TypeOK, Shapes, Seen
<1>2. QED
  BY <1>1, Invariance, PTL

\* A set of one element at most that has an element is as large as any other such set.
LEMMA OneOrNone ==
  ASSUME NEW A, NEW B, \A a, b \in A : a = b, \A a, b \in B : a = b, A = {} <=> B = {}
  PROVE  Cardinality(A) = Cardinality(B)
<1>1. CASE A = {}
  BY <1>1
<1>2. CASE A # {}
  <2>1. PICK a \in A, b \in B : TRUE
    BY <1>2
  <2>2. A = {a} /\ B = {b}
    BY <2>1
  <2>3. Cardinality({a}) = 1 /\ Cardinality({b}) = 1
    BY FS_Singleton
  <2>4. QED
    BY <2>2, <2>3
<1>3. QED
  BY <1>1, <1>2

\* When all is handled, the rows say of a span what the application did with it.
LEMMA RowsTell ==
  ASSUME IInv, Settled
  PROVE  RowsAgree
<1>1. PICK v, m, u : Views(v, m, u)
  BY DEF IInv
<1>2. /\ Shapes /\ ThreadsInv /\ RowsInv /\ v \in View /\ m \in View /\ TaskInv(v) /\ ToldInv(v)
      /\ SentInv(u) /\ Run(inbox, v, m, World(running)) /\ Run(channel, m, u, World(born))
  BY <1>1 DEF IInv, Views
<1>3. channel = <<>> /\ inbox = <<>> /\ batch = {}
  BY DEF Settled
<1>4. v = m /\ m = u
  BY <1>1, <1>2, <1>3, RunningBorn, RunEmpty
<1>5. \A e \in 1..MaxEnters : rows.enter[e] = draft.enter[e]
  BY <1>2, <1>3 DEF RowsInv
<1>6. \A s : EnterRows(s) = DraftRows(s) /\ LeftRows(s) = DraftLeft(s)
  BY <1>5 DEF EnterRows, LeftRows, DraftRows, DraftLeft
<1>7. ASSUME NEW s \in Spans \ (victims \cup missed)
      PROVE  /\ rows.run[s].made <=> s \in {b \in born : ~Hidden(b)}
             /\ rows.run[s].closed <=> s \in {b \in dead : ~Hidden(b)}
             /\ rows.run[s].made => rows.run[s].field = field[s]
             /\ EnableEnter /\ rows.run[s].made /\ s \notin shared =>
                  /\ Cardinality(EnterRows(s) \ LeftRows(s)) =
                       Cardinality({t \in Threads : s \in Inside(t)})
                  /\ rows.run[s].closed => rows.run[s].busy = Cardinality(LeftRows(s))
  <2>1. Says(v, s)
    BY <1>2, <1>4, <1>7 DEF SentInv
  <2>2. /\ rows.run[s].made <=> s \in v.made
        /\ rows.run[s].closed <=> s \in v.gone
        /\ rows.run[s].field = v.field[s]
        /\ rows.run[s].busy = draft.run[s].busy
    BY <1>2, <1>3, <1>7 DEF RowsInv, ToldInv
  <2>3. /\ entered[s] # 0 => entered[s] \in DraftRows(s) \ DraftLeft(s)
        /\ s \notin shared => DraftRows(s) \ DraftLeft(s) \subseteq {entered[s]}
        /\ s \in v.gone => draft.run[s].busy = Cardinality(DraftLeft(s))
    BY <1>2, <1>7 DEF ToldInv
  <2>4. ASSUME EnableEnter, rows.run[s].made, s \notin shared
        PROVE  Cardinality(DraftRows(s) \ DraftLeft(s)) =
                 Cardinality({t \in Threads : s \in Inside(t)})
    <3>1. s \in v.on <=> \E t \in Threads : s \in Inside(t)
      BY <2>1, <2>2, <2>4 DEF Says
    <3>2. \A t, r \in {y \in Threads : s \in Inside(y)} : t = r
      BY <1>2, <2>4 DEF ThreadsInv
    <3>3. s \in v.on <=> entered[s] # 0
      BY <1>2 DEF TaskInv
    <3>4. 0 \notin DraftRows(s)
      BY DEF DraftRows
    <3>5. DraftRows(s) \ DraftLeft(s) = {} <=> {t \in Threads : s \in Inside(t)} = {}
      BY <2>3, <2>4, <3>1, <3>3, <3>4
    <3>6. \A a, b \in DraftRows(s) \ DraftLeft(s) : a = b
      BY <2>3, <2>4
    <3>7. QED
      BY <3>2, <3>5, <3>6, OneOrNone
  <2>5. QED
    BY <1>6, <2>1, <2>2, <2>3, <2>4 DEF Says
<1>8. QED
  BY <1>7 DEF RowsAgree

\* When all that the server was sent is handled, the rows say what the application did:
\* which spans there are, which are closed, the last field of each, its enters and the
\* number of those summed; but for spans of a batch that failed or with messages that were
\* lost, and for the enters of those that two threads were in.
THEOREM RowsSayWhatHappened == Spec => []RowsAgree
<1>1. IInv => RowsAgree
  <2>1. ~Settled => RowsAgree
    BY DEF RowsAgree
  <2>2. QED
    BY <2>1, RowsTell
<1>2. QED
  BY <1>1, Invariance, PTL
====
