-------------------------- MODULE RecordViewProofs --------------------------
(***************************************************************************)
(* What a page that shows the records of a run keeps, for every filter a   *)
(* page has, every script of the run, number of other applications, window *)
(* and capacity.                                                           *)
(* The types are kept in any case, the rest as long as the records that    *)
(* the page is to show came in the order of their times (InTime): a first  *)
(* listing goes by time and every other one by id.                         *)
(*                                                                         *)
(* The inductive invariant says, for each record that a page's filter      *)
(* selects and an event would append, where it is on its way to the page,  *)
(* or which race has kept it from it.  Its parts, each of which needs      *)
(* those before it:                                                        *)
(*   TypeOK     the types of the variables and the bounds;                 *)
(*   LogInv     the run has recorded a prefix of its script;               *)
(*   TaskInv    the run's task has the records in their order: stored, in  *)
(*              the batch, in the buffer, in the channel;                  *)
(*   PhaseInv   what the phases of the listing and of the subscription     *)
(*              leave alone;                                               *)
(*   StreamInv  the events come in order and once, after what was listed;  *)
(*   ListInv    the rows under way are a stretch of what is selected;      *)
(*   SeenInv    the first listing has seen what is up to its last row;     *)
(*   OrderInv   what is shown rises, but for what a listing brought early; *)
(*   GapInv     what is not shown is beyond a button, or gone;             *)
(*   CloseInv   no row says that a span runs whose close was noted.        *)
(***************************************************************************)
EXTENDS RecordView, TLAPS, SequenceTheorems, FiniteSetTheorems, WellFoundedInduction,
        NaturalsInduction

\* The members of a sequence.
IdsIn(seq) == {seq[k] : k \in DOMAIN seq}

\* A sequence of ids that rises; rows whose ids do.
Rising(seq) == \A j, k \in DOMAIN seq : j < k => seq[j] < seq[k]

RisingRows(rows) == \A j, k \in DOMAIN rows : j < k => rows[j].id < rows[k].id

\* The run has recorded a prefix of its script.
LogInv ==
  \A i \in Sent :
    /\ Cardinality(Sent \cap 1..i) \in DOMAIN case.script
    /\ log[i] = case.script[Cardinality(Sent \cap 1..i)]

\* The records of the run that the view's filter selects in the database, those
\* that it would without a search, those that it selects live, those whose event
\* appends them, and the spans with their closes.
Sels == {i \in Sent : SqlSelects(filter, log[i])}
Finds == {i \in Sent : SqlSelects([filter EXCEPT !.search = {}], log[i])}
Lives == {i \in Sent : LiveSelects(filter, log[i])}
Appended == {i \in Sent : Appends(i)}
SelApps == Sels \cap Appended
Ends == {p \in Sent \X Sent : /\ log[p[1]].kind = "SpanCreate" /\ Closes(p[2])
                              /\ log[p[1]].span_t_id = log[p[2]].span_t_id}

\* Of the records of the run, all but the closes that the row of their span has not.
Noted == {i \in Sent : Closes(i) => log[i].span_t_id \subseteq closed}

InBatch == IdsIn(batch)
Ahead == IdsIn(filling) \cup (IdsIn(channel) \ {Watch})
Old == Sent \ (InBatch \cup Ahead)
Untold == {batch[k] : k \in (told + 1)..Len(batch)} \cup Ahead

\* The task has the run's records in their order: what is done, the batch, the
\* buffer that fills, the channel.
TaskInv ==
  /\ InBatch \cup Ahead \subseteq Sent
  /\ Rising(batch) /\ Rising(filling)
  /\ \A j, k \in DOMAIN channel :
       j < k /\ channel[j] # Watch /\ channel[k] # Watch => channel[j] < channel[k]
  /\ \A i \in IdsIn(filling), j \in IdsIn(channel) \ {Watch} : i < j
  /\ \A i \in InBatch, j \in Ahead : i < j
  /\ \A i \in Old, j \in InBatch \cup Ahead : i < j
  /\ stored \cap Sent = Old \cup IF "insert" \in did THEN InBatch ELSE {}

\* What the phases of the view and its subscription leave alone.
PhaseInv ==
  /\ IdsIn(registry) \cap Sent = {}
  /\ source.at # "open" =>
       /\ ~watched /\ ~joining /\ ~regWatch
       /\ Watch \notin IdsIn(channel) /\ Watch \notin IdsIn(registry)
       /\ stream = <<>> /\ heard = {}
  /\ source.at \in {"no", "list"} => source.rows = <<>>
  /\ request.type # "none" => request.at # "no"
  /\ request.type = "first" =>
       /\ source.at = "no" /\ source.cursor = 0
       /\ shown = <<>> /\ isEnd /\ early = {} /\ lost = {} /\ ~stray
  /\ request.type = "first" /\ request.at = "list" => seen = {}
  /\ request.type \in {"more", "older"} => shown # <<>>
  /\ request.type = "more" => ~isEnd /\ request.cursor = shown[Len(shown)].id
  /\ request.type = "older" => ~noOlder
  /\ shown = <<>> => isEnd

\* What events bring, and what they have brought.
Coming == (IdsOf(stream) \cup heard) \cap Sent

StreamInv ==
  /\ \A j, k \in DOMAIN stream :
       j < k /\ stream[j].id \in Sent /\ stream[k].id \in Sent => stream[j].id < stream[k].id
  /\ \A h \in heard \cap Sent : \A i \in IdsOf(stream) \cap Sent : h < i
  /\ \A i \in IdsOf(stream) \cap Sent : source.cursor < i
  /\ ~watched => Coming \subseteq stored
  /\ watched => (Coming \cup seen) \cap Untold = {}
  /\ Coming \cap Appended \subseteq Finds
  /\ seen \subseteq stored
  /\ source.cursor # 0 => source.cursor \in stored \cap Sent
  /\ watched => source.cursor \notin Untold
  /\ source.at = "open" => IdsOf(source.rows) \subseteq IdsOf(stream) \cup heard
  /\ RisingRows(source.rows)
  /\ IdsOf(source.rows) \subseteq Sels \cap stored
  /\ \A i \in IdsOf(source.rows) : source.cursor < i
  /\ watched => Lives \subseteq seen \cup heard \cup lost \cup IdsOf(stream) \cup Untold

\* The rows of a listing under way: those listed, those before them that it leaves
\* out, and all up to the last of them.
Rows == request.rows
Listed == IdsOf(Rows)
Full == Len(Rows) = Count + 1
LeftOut == {i \in Sent : Full /\ i < Rows[1].id}
UpToListed == {i \in Sent : \E r \in Listed : i <= r}

ListInv ==
  request.at \in {"look", "back"} =>
    /\ RisingRows(Rows)
    /\ Listed \subseteq Sels \cap stored
    /\ request.type = "more" =>
         /\ \A i \in Listed : request.cursor < i
         /\ \A i \in Sels \cap UpToListed : request.cursor < i => i \in Listed
    /\ request.type = "older" => \A i \in Listed : i < request.cursor
    /\ request.type \in {"first", "older"} => Sels \cap UpToListed \subseteq Listed \cup LeftOut
    /\ request.type = "first" =>
         /\ SelApps \cap seen \subseteq Listed \cup LeftOut
         /\ SelApps \cap UpToListed \subseteq seen

\* The first listing has seen what is up to its last row.
SeenInv ==
  request.type # "first" => \A i \in SelApps : i \in seen <=> i <= source.cursor

\* Events to come are of later records than those behind.
Behind == {i \in Sent : i <= source.cursor \/ \E h \in heard \cap Sent : i <= h}
Known == Behind \cup early

OrderInv ==
  ~stray =>
    /\ IdsOf(shown) \subseteq Sent \cap Known \cap (stored \cup heard)
    /\ IdsOf(shown) \subseteq Sels \cup (heard \cap Finds)
    /\ \A j, k \in DOMAIN shown : j < k =>
         \A i \in Sels : shown[k].id <= i /\ i <= shown[j].id => i \in early
    /\ \A x \in early : \A i \in Sels : i <= x => i \in Known
    /\ request.type = "older" =>
         /\ request.cursor \in Sent \cap Known \cap (stored \cup heard)
         /\ \A k \in DOMAIN shown : \A i \in Sels :
              shown[k].id <= i /\ i < request.cursor => i \in early

\* Taken into account by the first listing or by an event.
Acc == seen \cup heard

\* Kept from the view by a race, or to be so once the subscription is let in.
Gone == lost \cup IF source.at = "open" /\ ~watched THEN MissedBefore ELSE {}

First == shown[1].id
Last == shown[Len(shown)].id

\* What is not shown is beyond a button, or gone: after the last row, before the
\* first, between two rows.
EdgeGap(i) ==
  /\ shown = <<>> /\ i \in Acc => i \in Gone
  /\ shown # <<>> /\ isEnd /\ Last < i /\ i \in Acc => i \in Gone
  /\ shown # <<>> /\ noOlder /\ i < First => i \in Gone
HoleGap(i) ==
  \A k \in 1..(Len(shown) - 1) : shown[k].id < i /\ i < shown[k + 1].id => i \in Gone

\* Before an event that has come nothing is to come.
HeardGap(i) == \A h \in heard \cap Sent : i < h => i \in Acc \cup Gone

\* Older records are on their way: what has left the window since, and what they are.
OlderGap(i) ==
  request.type = "older" =>
    /\ request.cursor <= i /\ i < First => i \in shifted \cup Gone
    /\ request.at # "list" /\ i < request.cursor => i \in Listed \cup LeftOut \cup Gone

\* The last records are on their way.
MoreGap(i) ==
  request.type = "more" /\ request.at # "list" /\ request.cursor < i /\ ~Full =>
    /\ i \in Acc => i \in Listed \cup Gone \cup dropped
    /\ i \in IdsOf(shown) => i \in Listed \cup Gone

GapInv ==
  ~stray /\ request.type # "first" =>
    \A i \in SelApps : EdgeGap(i) /\ HoleGap(i) /\ HeardGap(i) /\ OlderGap(i) /\ MoreGap(i)

\* No row says that a span runs whose close was taken into account.
CloseInv ==
  /\ ~(request.type = "first" /\ request.at = "look") => seen \cap Sent \subseteq Noted
  /\ \A k \in DOMAIN shown : ~shown[k].ended =>
       \A c \in seen \cup heard : <<shown[k].id, c>> \in Ends => c \in lost
  /\ request.at = "back" =>
       \A k \in DOMAIN Rows : ~Rows[k].ended => \A c \in seen : <<Rows[k].id, c>> \notin Ends
  /\ \A k \in DOMAIN stream : ~stream[k].ended => \A c \in seen : <<stream[k].id, c>> \notin Ends

Inv == TypeOK /\ LogInv /\ TaskInv /\ PhaseInv /\ StreamInv /\ ListInv /\ SeenInv /\ OrderInv
       /\ GapInv /\ CloseInv

-----------------------------------------------------------------------------
(* The filters.                                                            *)

\* The kinds whose event appends no record.
Changing == {"SpanClose", "AppStop", "RelatedEvent", "SpanRecord"}

\* The fields in which a page's filter says nothing.
LEMMA PageFilterIs ==
  ASSUME NEW f, IsPageFilter(f)
  PROVE  /\ f.parent_id = {} /\ f.start_time = {} /\ f.end_time = {} /\ f.span_ids = {}
         /\ f.targets = {} /\ f.name = {} /\ f.span_t_id = {}
         /\ f.app_build_ids = {} /\ f.node_ids = {}
         /\ [f EXCEPT !.search = {}].search = {}
         /\ [f EXCEPT !.search = {}].parent_id = {} /\ [f EXCEPT !.search = {}].start_time = {}
         /\ [f EXCEPT !.search = {}].end_time = {} /\ [f EXCEPT !.search = {}].span_ids = {}
         /\ [f EXCEPT !.search = {}].targets = {} /\ [f EXCEPT !.search = {}].name = {}
         /\ [f EXCEPT !.search = {}].span_t_id = {}
         /\ [f EXCEPT !.search = {}].app_build_ids = {} /\ [f EXCEPT !.search = {}].node_ids = {}
         /\ [f EXCEPT !.search = {}].scene = f.scene /\ [f EXCEPT !.search = {}].kinds = f.kinds
         /\ [f EXCEPT !.search = {}].levels = f.levels
         /\ [f EXCEPT !.search = {}].app_run_ids = f.app_run_ids
         /\ [f EXCEPT !.search = {}].parent_span_t_ids = f.parent_span_t_ids
  BY DEF IsPageFilter, Default

\* What a page's filter asks of a record in the database, but for the search.
LEMMA SqlOfPage ==
  ASSUME NEW f, IsPageFilter(f), NEW m
  PROVE  SqlSelects([f EXCEPT !.search = {}], m) <=>
           /\ \A ids \in f.parent_span_t_ids : SqlParent(f, m, ids)
           /\ f.scene = {"Tree"} => m.kind \in {"Event", "AppStart", "SpanCreate"}
           /\ \A runs \in f.app_run_ids : SqlIn({m.run}, runs)
           /\ \A levels \in f.levels : SqlLevels(m, levels)
           /\ \A kinds \in f.kinds : SqlIn({m.kind}, kinds)
<1> DEFINE g == [f EXCEPT !.search = {}]
<1>1. \A ids : SqlParent(g, m, ids) <=> SqlParent(f, m, ids)
  BY PageFilterIs DEF SqlParent
<1>2. QED
  BY <1>1, PageFilterIs DEF SqlSelects

\* A search only narrows.
LEMMA SearchNarrows ==
  ASSUME NEW f, IsPageFilter(f), NEW m, SqlSelects(f, m)
  PROVE  SqlSelects([f EXCEPT !.search = {}], m)
<1>1. /\ \A ids \in f.parent_span_t_ids : SqlParent(f, m, ids)
      /\ f.scene = {"Tree"} => m.kind \in {"Event", "AppStart", "SpanCreate"}
      /\ \A runs \in f.app_run_ids : SqlIn({m.run}, runs)
      /\ \A levels \in f.levels : SqlLevels(m, levels)
      /\ \A kinds \in f.kinds : SqlIn({m.kind}, kinds)
  BY Zenon DEF SqlSelects
<1>2. QED
  BY <1>1, SqlOfPage, Zenon

\* What a page's filter asks of an event.
LEMMA LiveOfPage ==
  ASSUME NEW f, IsPageFilter(f), NEW m
  PROVE  LiveSelects(f, m) <=>
           /\ f.scene = {"Tree"} => m.kind \notin {"SpanEnter", "SpanLeave"}
           /\ f.scene = {"SpanField"} => m.kind = "SpanRecord"
           /\ f.scene = {"SpanEnter"} => m.kind \in {"SpanEnter", "SpanLeave"}
           /\ \A runs \in f.app_run_ids : m.run \in runs
           /\ \A ids \in f.parent_span_t_ids : LiveParents(m, ids)
           /\ \A kinds \in f.kinds : kinds = {} \/ m.kind \in kinds
           /\ \A levels \in f.levels : LiveIn(m.level, levels)
  BY PageFilterIs DEF LiveSelects

\* Of the records that an event appends, a page's subscription brings those that its
\* listings would without the search (TracingService::list_records,
\* TracingRecordVariant::filter).
THEOREM FiltersOfPageAgree ==
  ASSUME NEW f, IsPageFilter(f), NEW m, IsRunRecord(m), m.kind \notin Changing
  PROVE  LiveSelects(f, m) <=> SqlSelects([f EXCEPT !.search = {}], m)
<1>1. PICK run \in UNION f.app_run_ids : f.app_run_ids = {{run}}
  BY DEF IsPageFilter
<1>2. PICK parent \in UNION f.parent_span_t_ids : f.parent_span_t_ids = {{parent}}
  BY DEF IsPageFilter
<1>3. m.kind \in {"SpanCreate", "SpanEnter", "SpanLeave", "Event"}
  BY DEF IsRunRecord, Kinds, Changing
<1>4. (\A runs \in f.app_run_ids : SqlIn({m.run}, runs))
      <=> \A runs \in f.app_run_ids : m.run \in runs
  BY <1>1 DEF SqlIn
<1>5. LiveParent(m) = m.parent_span_t_id
  BY <1>3 DEF LiveParent
<1>6. SqlParent(f, m, {parent}) <=> LiveParents(m, {parent})
  <2>1. CASE m.parent_span_t_id = {}
    BY <1>3, <1>5, <2>1 DEF SqlParent, LiveParents, SqlIn
  <2>2. CASE m.parent_span_t_id # {}
    <3>1. PICK p \in m.parent_span_t_id : TRUE
      BY <2>2
    <3>2. p # Nil /\ m.parent_span_t_id = {p}
      BY <3>1 DEF IsRunRecord
    <3>3. QED
      BY <1>5, <3>2 DEF SqlParent, LiveParents, SqlIn, LiveIn
  <2>3. QED
    BY <2>1, <2>2
<1>7. (\A ids \in f.parent_span_t_ids : SqlParent(f, m, ids))
        <=> \A ids \in f.parent_span_t_ids : LiveParents(m, ids)
  BY <1>2, <1>6
<1>8. PICK l \in m.level : m.level = {l}
  BY <1>3 DEF IsRunRecord
<1>9. \A levels : SqlLevels(m, levels) <=> LiveIn(m.level, levels)
  BY <1>8 DEF SqlLevels, SqlIn, LiveIn
<1>10. (\A kinds \in f.kinds : SqlIn({m.kind}, kinds))
         <=> \A kinds \in f.kinds : kinds = {} \/ m.kind \in kinds
  BY DEF SqlIn
<1>11. CASE f.scene \in {{}, {"Tree"}} /\ f.kinds \subseteq {{}}
  <2>1. (f.scene = {"Tree"} => m.kind \in {"Event", "AppStart", "SpanCreate"})
           <=> (f.scene = {"Tree"} => m.kind \notin {"SpanEnter", "SpanLeave"})
    BY <1>3
  <2>2. f.scene # {"SpanField"} /\ f.scene # {"SpanEnter"}
    BY <1>11
  <2>3. QED
    BY <1>4, <1>7, <1>9, <1>10, <2>1, <2>2, SqlOfPage, LiveOfPage
<1>12. CASE f.scene = {"SpanEnter"} /\ f.kinds = {{"SpanEnter", "SpanLeave"}}
  <2>1. f.scene # {"SpanField"} /\ f.scene # {"Tree"}
    BY <1>12
  <2>2. (\A kinds \in f.kinds : kinds = {} \/ m.kind \in kinds)
        <=> m.kind \in {"SpanEnter", "SpanLeave"}
    BY <1>12
  <2>3. QED
    BY <1>4, <1>7, <1>9, <1>10, <2>1, <2>2, SqlOfPage, LiveOfPage
<1>13. CASE f.scene = {"SpanField"} /\ f.kinds = {{"SpanRecord"}}
  <2>1. f.scene # {"SpanEnter"} /\ f.scene # {"Tree"}
    BY <1>13
  <2>2. (\A kinds \in f.kinds : kinds = {} \/ m.kind \in kinds) <=> m.kind = "SpanRecord"
    BY <1>13
  <2>3. QED
    BY <1>4, <1>7, <1>9, <1>10, <2>1, <2>2, SqlOfPage, LiveOfPage
<1>14. QED
  BY <1>11, <1>12, <1>13, Zenon DEF IsPageFilter

\* A subscription that brings a span, or lists it, brings its close.
LEMMA CloseIsTold ==
  ASSUME NEW f, IsPageFilter(f), NEW m, NEW c, IsRunRecord(m),
         m.kind = "SpanCreate", c.kind = "SpanClose",
         m.run = c.run, m.level = c.level, m.parent_span_t_id = c.parent_span_t_id,
         SqlSelects([f EXCEPT !.search = {}], m)
  PROVE  LiveSelects(f, c)
<1>1. LiveSelects(f, m)
  BY FiltersOfPageAgree DEF Changing
<1>2. LiveParent(m) = LiveParent(c)
  BY DEF LiveParent
<1>3. \A ids : LiveParents(m, ids) <=> LiveParents(c, ids)
  BY <1>2 DEF LiveParents
<1>4. /\ f.scene # {"SpanField"} /\ f.scene # {"SpanEnter"}
  <2>1. /\ f.scene = {"SpanField"} => m.kind = "SpanRecord"
        /\ f.scene = {"SpanEnter"} => m.kind \in {"SpanEnter", "SpanLeave"}
    BY <1>1, LiveOfPage, Zenon
  <2>2. QED
    BY <2>1
<1>5. f.kinds \subseteq {{}}
  BY <1>4 DEF IsPageFilter
<1>6. /\ \A runs \in f.app_run_ids : m.run \in runs
      /\ \A ids \in f.parent_span_t_ids : LiveParents(m, ids)
      /\ \A levels \in f.levels : LiveIn(m.level, levels)
  BY <1>1, LiveOfPage, Zenon
<1>7. /\ f.scene = {"Tree"} => c.kind \notin {"SpanEnter", "SpanLeave"}
      /\ \A kinds \in f.kinds : kinds = {} \/ c.kind \in kinds
  BY <1>5
<1>8. QED
  BY <1>3, <1>4, <1>6, <1>7, LiveOfPage

\* The AppStart of another application is not listed.
LEMMA StartNotListed ==
  ASSUME NEW c \in Cases
  PROVE  ~SqlSelects(c.filter, Start)
<1>1. IsPageFilter(c.filter)
  BY CasesAssumption
<1>2. PICK run \in UNION c.filter.app_run_ids : c.filter.app_run_ids = {{run}}
  BY <1>1 DEF IsPageFilter
<1>3. Start.run # run
  BY StartAssumption
<1>4. ~SqlIn({Start.run}, {run})
  BY <1>3 DEF SqlIn
<1>5. QED
  BY <1>2, <1>4 DEF SqlSelects

-----------------------------------------------------------------------------
(* Listings: finite sets of ids in their order.                            *)

\* A set of ids that is not empty has a least one and a last one.
LEMMA LeastIs ==
  ASSUME NEW S \in SUBSET Nat, S # {}
  PROVE  \E x \in S : \A y \in S : x <= y
<1>1. PICK x \in S : \A y \in S : ~(<<y, x>> \in OpToRel(<, Nat))
  BY NatLessThanWellFounded, WFMin
<1>2. ASSUME NEW y \in S
      PROVE  x <= y
  <2>1. x \in Nat /\ y \in Nat
    OBVIOUS
  <2>2. ~(y < x)
    BY <1>1, <2>1 DEF OpToRel
  <2>3. QED
    BY <2>1, <2>2
<1>3. QED
  BY <1>2

\* A set of numbers has a last one.
LEMMA LastIs ==
  ASSUME NEW n \in Nat, NEW S \in SUBSET (1..n), S # {}
  PROVE  \E x \in S : \A y \in S : y <= x
<1> DEFINE T == {n - x : x \in S}
<1>1. T \subseteq Nat /\ T # {}
  <2>1. ASSUME NEW x \in S
        PROVE  n - x \in Nat
    OBVIOUS
  <2>2. PICK x \in S : TRUE
    OBVIOUS
  <2>3. n - x \in T
    OBVIOUS
  <2>4. QED
    BY <2>1, <2>3
<1>2. PICK t \in T : \A y \in T : t <= y
  BY <1>1, LeastIs, Zenon
<1>3. PICK x \in S : t = n - x
  OBVIOUS
<1>4. ASSUME NEW y \in S
      PROVE  y <= x
  <2>1. n - y \in T
    OBVIOUS
  <2>2. n - x <= n - y
    BY <1>2, <1>3, <2>1
  <2>3. x \in Nat /\ y \in Nat
    OBVIOUS
  <2>4. QED
    BY <2>2, <2>3
<1>5. QED
  BY <1>4

\* The set can be put in its order.
HasOrder(S) ==
  \E seq \in [1..Cardinality(S) -> S] : \A j, k \in DOMAIN seq : j < k => seq[j] < seq[k]

\* Ids up to some bound can be put in their order.
LEMMA OrderExists ==
  ASSUME NEW n \in Nat
  PROVE  \A S \in SUBSET (1..n) : IsFiniteSet(S) /\ Cardinality(S) \in Nat /\ HasOrder(S)
<1> DEFINE Sizes == {c \in Nat : \E S \in SUBSET (1..n) : Cardinality(S) = c /\ ~HasOrder(S)}
<1>1. ASSUME NEW S \in SUBSET (1..n)
      PROVE  IsFiniteSet(S) /\ Cardinality(S) \in Nat
  <2>1. IsFiniteSet(1..n)
    BY FS_Interval
  <2>2. IsFiniteSet(S)
    BY <2>1, FS_Subset
  <2>3. QED
    BY <2>2, FS_CardinalityType
<1>2. Sizes = {}
  <2>1. SUFFICES ASSUME Sizes # {}
                 PROVE  FALSE
    OBVIOUS
  <2>2. PICK c \in Sizes : \A d \in Sizes : c <= d
    <3>1. Sizes \in SUBSET Nat
      OBVIOUS
    <3>2. QED
      BY <2>1, <3>1, LeastIs, Zenon
  <2>3. PICK S \in SUBSET (1..n) : Cardinality(S) = c /\ ~HasOrder(S)
    BY <2>2
  <2>4. S # {}
    <3>1. SUFFICES ASSUME S = {}
                   PROVE  FALSE
      OBVIOUS
    <3>2. Cardinality(S) = 0
      BY <3>1, FS_EmptySet
    <3>3. <<>> \in [1..Cardinality(S) -> S] /\ DOMAIN <<>> = {}
      BY <3>1, <3>2
    <3>4. \A j, k \in DOMAIN <<>> : j < k => <<>>[j] < <<>>[k]
      BY <3>3
    <3>5. QED
      BY <2>3, <3>3, <3>4 DEF HasOrder
  <2>5. PICK x \in S : \A y \in S : y <= x
    BY <2>4, LastIs
  <2>6. PICK R : R = S \ {x}
    OBVIOUS
  <2>7. /\ R \in SUBSET (1..n) /\ R \subseteq S
        /\ c \in Nat /\ c > 0 /\ Cardinality(R) = c - 1
        /\ \A y \in R : y < x
    <3>1. IsFiniteSet(S) /\ Cardinality(S) \in Nat /\ IsFiniteSet(R) /\ Cardinality(R) \in Nat
      BY <1>1, <2>6
    <3>2. Cardinality(R) = c - 1
      BY <2>3, <2>6, <3>1, FS_RemoveElement
    <3>3. \A y \in R : y < x
      BY <2>5, <2>6
    <3>4. QED
      BY <2>3, <2>6, <3>1, <3>2, <3>3
  <2>8. HasOrder(R)
    <3>1. SUFFICES ASSUME ~HasOrder(R)
                   PROVE  FALSE
      OBVIOUS
    <3>2. c - 1 \in Nat /\ \E U \in SUBSET (1..n) : Cardinality(U) = c - 1 /\ ~HasOrder(U)
      BY <2>7, <3>1
    <3>3. QED
      BY <2>2, <2>7, <3>2
  <2>9. PICK seq \in [1..c - 1 -> R] : \A j, k \in 1..c - 1 : j < k => seq[j] < seq[k]
    BY <2>7, <2>8 DEF HasOrder
  <2>10. PICK longer : longer = [k \in 1..c |-> IF k = c THEN x ELSE seq[k]]
    OBVIOUS
  <2>11. longer \in [1..c -> S]
    <3>1. ASSUME NEW k \in 1..c
          PROVE  longer[k] \in S
      <4>1. CASE k = c
        BY <2>10, <4>1
      <4>2. CASE k # c
        <5>1. k \in 1..c - 1
          BY <2>7, <4>2
        <5>2. QED
          BY <2>7, <2>9, <2>10, <4>2, <5>1
      <4>3. QED
        BY <4>1, <4>2
    <3>2. QED
      BY <2>10, <3>1
  <2>12. ASSUME NEW j \in 1..c, NEW k \in 1..c, j < k
         PROVE  longer[j] < longer[k]
    <3>1. j \in 1..c - 1 /\ longer[j] = seq[j] /\ seq[j] \in R
      BY <2>7, <2>9, <2>10, <2>12
    <3>2. CASE k = c
      BY <2>7, <2>10, <3>1, <3>2
    <3>3. CASE k # c
      <4>1. k \in 1..c - 1 /\ longer[k] = seq[k]
        BY <2>7, <2>10, <3>3
      <4>2. QED
        BY <2>9, <2>12, <3>1, <4>1
    <3>4. QED
      BY <3>2, <3>3
  <2>13. DOMAIN longer = 1..c
    BY <2>11
  <2>14. HasOrder(S)
    BY <2>3, <2>11, <2>12, <2>13 DEF HasOrder
  <2>15. QED
    BY <2>3, <2>14
<1>3. ASSUME NEW S \in SUBSET (1..n)
      PROVE  HasOrder(S)
  BY <1>1, <1>2
<1>4. QED
  BY <1>1, <1>3

\* Ascending puts each id of a set at one place, in their order.
LEMMA AscendingIs ==
  ASSUME NEW n \in Nat, NEW S \in SUBSET (1..n)
  PROVE  /\ Cardinality(S) \in Nat /\ IsFiniteSet(S)
         /\ Ascending(S) \in [1..Cardinality(S) -> S]
         /\ \A j, k \in 1..Cardinality(S) : j < k => Ascending(S)[j] < Ascending(S)[k]
         /\ \A i \in S : \E k \in 1..Cardinality(S) : Ascending(S)[k] = i
<1>1. /\ IsFiniteSet(S) /\ Cardinality(S) \in Nat /\ HasOrder(S)
  BY OrderExists
<1>2. PICK c \in Nat : c = Cardinality(S)
  BY <1>1
<1>3. PICK seq : seq = Ascending(S)
  OBVIOUS
<1>4. /\ seq \in [1..c -> S]
      /\ \A j, k \in 1..c : j < k => seq[j] < seq[k]
  BY <1>1, <1>2, <1>3 DEF Ascending, HasOrder
<1>5. seq \in Injection(1..c, S)
  <2>1. ASSUME NEW j \in 1..c, NEW k \in 1..c, seq[j] = seq[k]
        PROVE  j = k
    <3>1. seq[j] \in S /\ seq[k] \in S /\ S \subseteq Nat
      BY <1>4
    <3>2. PICK i \in Nat : i = seq[j] /\ i = seq[k]
      BY <2>1, <3>1
    <3>3. ~(j < k)
      <4>1. SUFFICES ASSUME j < k
                     PROVE  FALSE
        OBVIOUS
      <4>2. seq[j] < seq[k]
        BY <1>4, <4>1
      <4>3. i < i
        BY <3>2, <4>2
      <4>4. QED
        BY <4>3
    <3>4. ~(k < j)
      <4>1. SUFFICES ASSUME k < j
                     PROVE  FALSE
        OBVIOUS
      <4>2. seq[k] < seq[j]
        BY <1>4, <4>1
      <4>3. i < i
        BY <3>2, <4>2
      <4>4. QED
        BY <4>3
    <3>5. QED
      BY <3>3, <3>4
  <2>2. QED
    BY <1>4, <2>1 DEF Injection, IsInjective
<1>6. IsFiniteSet(1..c) /\ Cardinality(1..c) = c
  BY FS_Interval
<1>7. seq \in Surjection(1..c, S)
  BY <1>1, <1>2, <1>5, <1>6, FS_Injection
<1>8. \A i \in S : \E k \in 1..c : seq[k] = i
  BY <1>7 DEF Surjection
<1>9. QED
  BY <1>1, <1>2, <1>3, <1>4, <1>8

\* The rows of a set of ids are those of its ids in their order.
LEMMA RowsOfIs ==
  ASSUME NEW n \in Nat, NEW S \in SUBSET (1..n)
  PROVE  /\ RowsOf(S) \in Seq([id : S, ended : BOOLEAN])
         /\ Len(RowsOf(S)) = Cardinality(S) /\ Cardinality(S) \in Nat
         /\ IdsOf(RowsOf(S)) = S
         /\ \A j, k \in DOMAIN RowsOf(S) : j < k => RowsOf(S)[j].id < RowsOf(S)[k].id
<1>1. PICK c \in Nat : c = Cardinality(S)
  BY AscendingIs
<1>2. PICK seq : seq = Ascending(S)
  OBVIOUS
<1>3. /\ seq \in [1..c -> S]
      /\ \A j, k \in 1..c : j < k => seq[j] < seq[k]
      /\ \A i \in S : \E k \in 1..c : seq[k] = i
  BY <1>1, <1>2, AscendingIs
<1>4. PICK rows : rows = RowsOf(S)
  OBVIOUS
<1>5. rows = [k \in 1..c |-> [id |-> seq[k], ended |-> FALSE]]
  BY <1>2, <1>3, <1>4 DEF RowsOf, Row
<1>6. \A k \in 1..c : rows[k] \in [id : S, ended : BOOLEAN] /\ rows[k].id = seq[k]
  BY <1>3, <1>5
<1>7. rows \in Seq([id : S, ended : BOOLEAN]) /\ Len(rows) = c
  BY <1>5, <1>6
<1>8. DOMAIN rows = 1..c
  BY <1>5
<1>9. IdsOf(rows) = S
  <2>1. ASSUME NEW i \in IdsOf(rows)
        PROVE  i \in S
    BY <1>6, <1>8 DEF IdsOf
  <2>2. ASSUME NEW i \in S
        PROVE  i \in IdsOf(rows)
    <3>1. PICK k \in 1..c : seq[k] = i
      BY <1>3
    <3>2. QED
      BY <1>6, <1>8, <3>1 DEF IdsOf
  <2>3. QED
    BY <2>1, <2>2
<1>10. QED
  BY <1>1, <1>3, <1>4, <1>6, <1>7, <1>8, <1>9

\* The first n of a set are up to n, and all of it if they are less.
LEMMA FirstOfIs ==
  ASSUME NEW m \in Nat, NEW S \in SUBSET (1..m), NEW n \in Nat \ {0}
  PROVE  /\ FirstOf(S, n) \subseteq S
         /\ \A i \in S, j \in FirstOf(S, n) : i <= j => i \in FirstOf(S, n)
         /\ Cardinality(FirstOf(S, n)) \in 0..n
         /\ Cardinality(FirstOf(S, n)) # n => FirstOf(S, n) = S
<1> DEFINE T == FirstOf(S, n)
           Less(i) == {j \in S : j < i}
<1>1. /\ \A i : i \in T <=> i \in S /\ Cardinality(Less(i)) < n
      /\ \A i, j : j \in Less(i) <=> j \in S /\ j < i
      /\ T \subseteq S /\ S \subseteq Nat /\ \A i : Less(i) \subseteq S
  BY DEF FirstOf
<1> HIDE DEF T, Less
<1>2. \A U \in SUBSET S : IsFiniteSet(U) /\ Cardinality(U) \in Nat
  BY OrderExists
<1>3. \A i : IsFiniteSet(Less(i)) /\ Cardinality(Less(i)) \in Nat
  BY <1>1, <1>2
<1>4. ASSUME NEW i \in S, NEW j \in T, i <= j
      PROVE  i \in T
  <2>1. Less(i) \in SUBSET Less(j)
    <3>1. ASSUME NEW k \in Less(i)
          PROVE  k \in Less(j)
      <4>1. k \in S /\ k < i /\ k \in Nat /\ i \in Nat /\ j \in Nat
        BY <1>1
      <4>2. k < j
        BY <1>4, <4>1
      <4>3. QED
        BY <1>1, <4>1, <4>2
    <3>2. QED
      BY <3>1
  <2>2. Cardinality(Less(i)) <= Cardinality(Less(j))
    BY <1>3, <2>1, FS_Subset
  <2>3. Cardinality(Less(j)) < n
    BY <1>1
  <2>4. Cardinality(Less(i)) < n
    BY <1>3, <2>2, <2>3
  <2>5. QED
    BY <1>1, <2>4
<1>5. IsFiniteSet(T) /\ Cardinality(T) \in Nat
  BY <1>1, <1>2
<1>6. Cardinality(T) <= n
  <2>1. CASE T = {}
    BY <2>1, FS_EmptySet
  <2>2. CASE T # {}
    <3>1. T \in SUBSET (1..m)
      BY <1>1
    <3>2. PICK x \in T : \A y \in T : y <= x
      BY <2>2, <3>1, LastIs, Zenon
    <3>3. T \ {x} \in SUBSET Less(x)
      <4>1. ASSUME NEW y \in T \ {x}
            PROVE  y \in Less(x)
        <5>1. y \in S /\ y \in Nat /\ x \in Nat /\ y <= x
          BY <1>1, <3>2
        <5>2. QED
          BY <1>1, <5>1
      <4>2. QED
        BY <4>1
    <3>4. Cardinality(T \ {x}) <= Cardinality(Less(x))
      BY <1>3, <3>3, FS_Subset
    <3>5. Cardinality(T \ {x}) = Cardinality(T) - 1
      BY <1>5, <3>2, FS_RemoveElement
    <3>6. Cardinality(Less(x)) < n
      BY <1>1, <3>2
    <3>7. QED
      BY <1>3, <1>5, <3>4, <3>5, <3>6
  <2>3. QED
    BY <2>1, <2>2
<1>7. ASSUME Cardinality(T) # n, T # S
      PROVE  FALSE
  <2>1. S \ T # {} /\ S \ T \in SUBSET Nat
    BY <1>1, <1>7
  <2>2. PICK x \in S \ T : \A y \in S \ T : x <= y
    BY <2>1, LeastIs, Zenon
  <2>3. Less(x) \in SUBSET T
    <3>1. ASSUME NEW y \in Less(x)
          PROVE  y \in T
      <4>1. y \in S /\ y \in Nat /\ x \in Nat /\ y < x
        BY <1>1, <2>2
      <4>2. ~(x <= y)
        BY <4>1
      <4>3. QED
        BY <2>2, <4>1, <4>2
    <3>2. QED
      BY <3>1
  <2>4. Cardinality(Less(x)) <= Cardinality(T)
    BY <1>5, <2>3, FS_Subset
  <2>5. Cardinality(Less(x)) < n
    BY <1>3, <1>5, <1>6, <1>7, <2>4
  <2>6. QED
    BY <1>1, <2>2, <2>5
<1>8. QED
  BY <1>1, <1>4, <1>5, <1>6, <1>7 DEF T

\* So are the last n.
LEMMA LastOfIs ==
  ASSUME NEW m \in Nat, NEW S \in SUBSET (1..m), NEW n \in Nat \ {0}
  PROVE  /\ LastOf(S, n) \subseteq S
         /\ \A i \in S, j \in LastOf(S, n) : j <= i => i \in LastOf(S, n)
         /\ Cardinality(LastOf(S, n)) \in 0..n
         /\ Cardinality(LastOf(S, n)) # n => LastOf(S, n) = S
<1> DEFINE T == LastOf(S, n)
           More(i) == {j \in S : j > i}
<1>1. /\ \A i : i \in T <=> i \in S /\ Cardinality(More(i)) < n
      /\ \A i, j : j \in More(i) <=> j \in S /\ j > i
      /\ T \subseteq S /\ S \subseteq Nat /\ \A i : More(i) \subseteq S
  BY DEF LastOf
<1> HIDE DEF T, More
<1>2. \A U \in SUBSET S : IsFiniteSet(U) /\ Cardinality(U) \in Nat
  BY OrderExists
<1>3. \A i : IsFiniteSet(More(i)) /\ Cardinality(More(i)) \in Nat
  BY <1>1, <1>2
<1>4. ASSUME NEW i \in S, NEW j \in T, j <= i
      PROVE  i \in T
  <2>1. More(i) \in SUBSET More(j)
    <3>1. ASSUME NEW k \in More(i)
          PROVE  k \in More(j)
      <4>1. k \in S /\ k > i /\ k \in Nat /\ i \in Nat /\ j \in Nat
        BY <1>1
      <4>2. k > j
        BY <1>4, <4>1
      <4>3. QED
        BY <1>1, <4>1, <4>2
    <3>2. QED
      BY <3>1
  <2>2. Cardinality(More(i)) <= Cardinality(More(j))
    BY <1>3, <2>1, FS_Subset
  <2>3. Cardinality(More(j)) < n
    BY <1>1
  <2>4. Cardinality(More(i)) < n
    BY <1>3, <2>2, <2>3
  <2>5. QED
    BY <1>1, <2>4
<1>5. IsFiniteSet(T) /\ Cardinality(T) \in Nat
  BY <1>1, <1>2
<1>6. Cardinality(T) <= n
  <2>1. CASE T = {}
    BY <2>1, FS_EmptySet
  <2>2. CASE T # {}
    <3>1. T \in SUBSET Nat
      BY <1>1
    <3>2. PICK x \in T : \A y \in T : x <= y
      BY <2>2, <3>1, LeastIs, Zenon
    <3>3. T \ {x} \in SUBSET More(x)
      <4>1. ASSUME NEW y \in T \ {x}
            PROVE  y \in More(x)
        <5>1. y \in S /\ y \in Nat /\ x \in Nat /\ x <= y
          BY <1>1, <3>2
        <5>2. QED
          BY <1>1, <5>1
      <4>2. QED
        BY <4>1
    <3>4. Cardinality(T \ {x}) <= Cardinality(More(x))
      BY <1>3, <3>3, FS_Subset
    <3>5. Cardinality(T \ {x}) = Cardinality(T) - 1
      BY <1>5, <3>2, FS_RemoveElement
    <3>6. Cardinality(More(x)) < n
      BY <1>1, <3>2
    <3>7. QED
      BY <1>3, <1>5, <3>4, <3>5, <3>6
  <2>3. QED
    BY <2>1, <2>2
<1>7. ASSUME Cardinality(T) # n, T # S
      PROVE  FALSE
  <2>1. S \ T # {} /\ S \ T \in SUBSET (1..m)
    BY <1>1, <1>7
  <2>2. PICK x \in S \ T : \A y \in S \ T : y <= x
    BY <2>1, LastIs, Zenon
  <2>3. More(x) \in SUBSET T
    <3>1. ASSUME NEW y \in More(x)
          PROVE  y \in T
      <4>1. y \in S /\ y \in Nat /\ x \in Nat /\ x < y
        BY <1>1, <2>2
      <4>2. ~(y <= x)
        BY <4>1
      <4>3. QED
        BY <2>2, <4>1, <4>2
    <3>2. QED
      BY <3>1
  <2>4. Cardinality(More(x)) <= Cardinality(T)
    BY <1>5, <2>3, FS_Subset
  <2>5. Cardinality(More(x)) < n
    BY <1>3, <1>5, <1>6, <1>7, <2>4
  <2>6. QED
    BY <1>1, <2>2, <2>5
<1>8. QED
  BY <1>1, <1>4, <1>5, <1>6, <1>7 DEF T

-----------------------------------------------------------------------------
(* Rows.                                                                   *)

\* The rows of a sequence and their ids.
LEMMA RowsAre ==
  ASSUME NEW D, NEW rows \in Seq([id : D, ended : BOOLEAN])
  PROVE  /\ Len(rows) \in Nat /\ DOMAIN rows = 1..Len(rows)
         /\ \A k \in 1..Len(rows) : rows[k] \in [id : D, ended : BOOLEAN] /\ rows[k].id \in D
                                    /\ rows[k].id \in IdsOf(rows)
         /\ \A i \in IdsOf(rows) : \E k \in 1..Len(rows) : rows[k].id = i
         /\ IdsOf(rows) \subseteq D
         /\ rows = <<>> <=> Len(rows) = 0
         /\ rows # <<>> => 1 \in 1..Len(rows) /\ Len(rows) \in 1..Len(rows)
<1>1. /\ Len(rows) \in Nat /\ DOMAIN rows = 1..Len(rows)
      /\ rows \in [1..Len(rows) -> [id : D, ended : BOOLEAN]]
  BY LenProperties
<1>2. rows = <<>> <=> Len(rows) = 0
  BY EmptySeq
<1>3. QED
  BY <1>1, <1>2 DEF IdsOf

\* No rows are none.
LEMMA NoRows ==
  IdsOf(<<>>) = {} /\ RisingRows(<<>>) /\ Len(<<>>) = 0 /\ DOMAIN <<>> = {}
  BY DEF IdsOf, RisingRows

\* What a row more, a row less and more rows make of rows.
LEMMA IdsOfAppend ==
  ASSUME NEW D, NEW rows \in Seq([id : D, ended : BOOLEAN]), NEW e \in [id : D, ended : BOOLEAN]
  PROVE  /\ Append(rows, e) \in Seq([id : D, ended : BOOLEAN])
         /\ Len(Append(rows, e)) = Len(rows) + 1 /\ Len(rows) \in Nat
         /\ \A k \in 1..Len(rows) : Append(rows, e)[k] = rows[k]
         /\ Append(rows, e)[Len(rows) + 1] = e
         /\ IdsOf(Append(rows, e)) = IdsOf(rows) \cup {e.id}
<1>1. /\ Append(rows, e) \in Seq([id : D, ended : BOOLEAN])
      /\ Len(Append(rows, e)) = Len(rows) + 1 /\ Len(rows) \in Nat
      /\ \A k \in 1..Len(rows) : Append(rows, e)[k] = rows[k]
      /\ Append(rows, e)[Len(rows) + 1] = e
  BY AppendProperties, LenProperties
<1>2. DOMAIN Append(rows, e) = 1..(Len(rows) + 1)
  BY <1>1, LenProperties
<1>3. \A k \in 1..(Len(rows) + 1) : k \in 1..Len(rows) \/ k = Len(rows) + 1
  BY <1>1
<1>4. \A i : i \in IdsOf(Append(rows, e)) => i \in IdsOf(rows) \cup {e.id}
  BY <1>1, <1>2, <1>3, LenProperties DEF IdsOf
<1>5. \A i : i \in IdsOf(rows) \cup {e.id} => i \in IdsOf(Append(rows, e))
  <2>1. \A k \in 1..Len(rows) : k \in 1..(Len(rows) + 1)
    BY <1>1
  <2>2. Len(rows) + 1 \in 1..(Len(rows) + 1)
    BY <1>1
  <2>3. QED
    BY <1>1, <1>2, <2>1, <2>2, LenProperties DEF IdsOf
<1>6. QED
  BY <1>1, <1>4, <1>5

\* Rows without the first.
LEMMA IdsOfTail ==
  ASSUME NEW D, NEW rows \in Seq([id : D, ended : BOOLEAN]), rows # <<>>
  PROVE  /\ Tail(rows) \in Seq([id : D, ended : BOOLEAN])
         /\ Len(Tail(rows)) = Len(rows) - 1 /\ Len(rows) \in Nat \ {0}
         /\ \A k \in 1..(Len(rows) - 1) : Tail(rows)[k] = rows[k + 1]
         /\ Head(rows) = rows[1] /\ Head(rows) \in [id : D, ended : BOOLEAN]
         /\ IdsOf(rows) = {Head(rows).id} \cup IdsOf(Tail(rows))
<1>1. /\ Tail(rows) \in Seq([id : D, ended : BOOLEAN])
      /\ Len(Tail(rows)) = Len(rows) - 1 /\ Len(rows) \in Nat \ {0}
      /\ \A k \in 1..(Len(rows) - 1) : Tail(rows)[k] = rows[k + 1]
      /\ Head(rows) = rows[1] /\ Head(rows) \in [id : D, ended : BOOLEAN]
  <2>1. Len(rows) \in Nat \ {0}
    BY EmptySeq
  <2>2. /\ Tail(rows) \in Seq([id : D, ended : BOOLEAN])
        /\ Len(Tail(rows)) = Len(rows) - 1 /\ Head(rows) \in [id : D, ended : BOOLEAN]
        /\ \A k \in 1..Len(Tail(rows)) : Tail(rows)[k] = rows[k + 1]
    BY HeadTailProperties
  <2>3. Head(rows) = rows[1]
    BY DEF Head
  <2>4. QED
    BY <2>1, <2>2, <2>3
<1>2. DOMAIN Tail(rows) = 1..(Len(rows) - 1) /\ DOMAIN rows = 1..Len(rows)
  BY <1>1, LenProperties
<1>3. \A i : i \in IdsOf(rows) => i \in {Head(rows).id} \cup IdsOf(Tail(rows))
  <2>1. SUFFICES ASSUME NEW k \in 1..Len(rows)
                 PROVE  rows[k].id \in {Head(rows).id} \cup IdsOf(Tail(rows))
    BY <1>2 DEF IdsOf
  <2>2. CASE k = 1
    BY <1>1, <2>2
  <2>3. CASE k # 1
    <3>1. k - 1 \in 1..(Len(rows) - 1) /\ (k - 1) + 1 = k
      BY <1>1, <2>3
    <3>2. Tail(rows)[k - 1] = rows[k]
      BY <1>1, <3>1
    <3>3. QED
      BY <1>2, <3>1, <3>2 DEF IdsOf
  <2>4. QED
    BY <2>2, <2>3
<1>4. \A i : i \in {Head(rows).id} \cup IdsOf(Tail(rows)) => i \in IdsOf(rows)
  <2>1. 1 \in 1..Len(rows) /\ \A k \in 1..(Len(rows) - 1) : k + 1 \in 1..Len(rows)
    BY <1>1
  <2>2. QED
    BY <1>1, <1>2, <2>1 DEF IdsOf
<1>5. QED
  BY <1>1, <1>3, <1>4

\* Rows and rows behind them.
LEMMA IdsOfConcat ==
  ASSUME NEW R, NEW s \in Seq(R), NEW t \in Seq(R)
  PROVE  /\ s \o t \in Seq(R)
         /\ Len(s \o t) = Len(s) + Len(t) /\ Len(s) \in Nat /\ Len(t) \in Nat
         /\ \A k \in 1..Len(s) : (s \o t)[k] = s[k]
         /\ \A k \in 1..Len(t) : (s \o t)[Len(s) + k] = t[k]
         /\ IdsOf(s \o t) = IdsOf(s) \cup IdsOf(t)
<1>1. /\ s \o t \in Seq(R)
      /\ Len(s \o t) = Len(s) + Len(t) /\ Len(s) \in Nat /\ Len(t) \in Nat
      /\ \A k \in 1..(Len(s) + Len(t)) : (s \o t)[k] = IF k <= Len(s) THEN s[k] ELSE t[k - Len(s)]
  BY ConcatProperties, LenProperties
<1>2. ASSUME NEW k \in 1..Len(s)
      PROVE  k \in 1..(Len(s) + Len(t)) /\ (s \o t)[k] = s[k]
  BY <1>1
<1>3. ASSUME NEW k \in 1..Len(t)
      PROVE  Len(s) + k \in 1..(Len(s) + Len(t)) /\ (s \o t)[Len(s) + k] = t[k]
  <2>1. Len(s) + k \in 1..(Len(s) + Len(t)) /\ ~(Len(s) + k <= Len(s)) /\ (Len(s) + k) - Len(s) = k
    BY <1>1
  <2>2. QED
    BY <1>1, <2>1
<1>4. DOMAIN (s \o t) = 1..(Len(s) + Len(t)) /\ DOMAIN s = 1..Len(s) /\ DOMAIN t = 1..Len(t)
  BY <1>1, LenProperties
<1>5. \A i : i \in IdsOf(s \o t) => i \in IdsOf(s) \cup IdsOf(t)
  <2>1. SUFFICES ASSUME NEW k \in 1..(Len(s) + Len(t))
                 PROVE  (s \o t)[k].id \in IdsOf(s) \cup IdsOf(t)
    BY <1>4 DEF IdsOf
  <2>2. CASE k <= Len(s)
    <3>1. k \in 1..Len(s)
      BY <1>1, <2>2
    <3>2. QED
      BY <1>2, <1>4, <3>1 DEF IdsOf
  <2>3. CASE ~(k <= Len(s))
    <3>1. k - Len(s) \in 1..Len(t)
      BY <1>1, <2>3
    <3>2. (s \o t)[k] = t[k - Len(s)]
      BY <1>1, <2>3
    <3>3. QED
      BY <1>4, <3>1, <3>2 DEF IdsOf
  <2>4. QED
    BY <2>2, <2>3
<1>6. \A i : i \in IdsOf(s) \cup IdsOf(t) => i \in IdsOf(s \o t)
  <2>1. \A i \in IdsOf(s) : i \in IdsOf(s \o t)
    BY <1>2, <1>4 DEF IdsOf
  <2>2. \A i \in IdsOf(t) : i \in IdsOf(s \o t)
    BY <1>3, <1>4 DEF IdsOf
  <2>3. QED
    BY <2>1, <2>2
<1>7. QED
  BY <1>1, <1>2, <1>3, <1>5, <1>6

\* The window is longer than a listing is shown.
LEMMA WindowIs == Window \in Nat /\ Window >= 2 /\ Window > Count
  BY CountAssumption DEF Window

\* The last rows are those behind the first d, where d is what is over the window.
LEMMA LastRowsIs ==
  ASSUME NEW D, NEW rows \in Seq([id : D, ended : BOOLEAN])
  PROVE  /\ LastRows(rows) \in Seq([id : D, ended : BOOLEAN])
         /\ \E d \in Nat :
              /\ d = IF Len(rows) > Window THEN Len(rows) - Window ELSE 0
              /\ Len(LastRows(rows)) = Len(rows) - d
              /\ \A k \in 1..(Len(rows) - d) : LastRows(rows)[k] = rows[k + d]
         /\ Len(LastRows(rows)) <= Window
         /\ IdsOf(LastRows(rows)) \subseteq IdsOf(rows)
         /\ rows # <<>> => LastRows(rows) # <<>>
<1>1. /\ Len(rows) \in Nat /\ DOMAIN rows = 1..Len(rows)
      /\ \A k \in 1..Len(rows) : rows[k] \in [id : D, ended : BOOLEAN]
  BY LenProperties
<1>2. PICK d \in Nat : /\ d = IF Len(rows) > Window THEN Len(rows) - Window ELSE 0
                       /\ d <= Len(rows) /\ Len(rows) - d <= Window
                       /\ Len(rows) # 0 => Len(rows) - d # 0
                       /\ LastRows(rows) = SubSeq(rows, d + 1, Len(rows))
  <2>1. CASE Len(rows) > Window
    <3>1. PICK d \in Nat : d = Len(rows) - Window
      BY <1>1, <2>1, WindowIs
    <3>2. d + 1 = Len(rows) - Window + 1
      BY <1>1, <3>1, WindowIs
    <3>3. LastRows(rows) = SubSeq(rows, d + 1, Len(rows))
      BY <2>1, <3>2 DEF LastRows
    <3>4. /\ d <= Len(rows) /\ Len(rows) - d <= Window
          /\ Len(rows) # 0 => Len(rows) - d # 0
      BY <1>1, <2>1, <3>1, WindowIs
    <3>5. QED
      BY <2>1, <3>1, <3>3, <3>4
  <2>2. CASE ~(Len(rows) > Window)
    <3>1. LastRows(rows) = SubSeq(rows, 0 + 1, Len(rows))
      BY <2>2 DEF LastRows
    <3>2. 0 <= Len(rows) /\ Len(rows) - 0 <= Window /\ (Len(rows) # 0 => Len(rows) - 0 # 0)
      BY <1>1, <2>2, WindowIs
    <3>3. QED
      BY <2>2, <3>1, <3>2
  <2>3. QED
    BY <2>1, <2>2
<1>3. d + 1 \in Int
  BY <1>2
<1>4. \A k \in (d + 1)..Len(rows) : rows[k] \in [id : D, ended : BOOLEAN]
  BY <1>1, <1>2
<1>5. /\ LastRows(rows) \in Seq([id : D, ended : BOOLEAN])
      /\ Len(LastRows(rows)) = IF d + 1 <= Len(rows) THEN Len(rows) - (d + 1) + 1 ELSE 0
      /\ \A k \in 1..(Len(rows) - (d + 1) + 1) : LastRows(rows)[k] = rows[(d + 1) + k - 1]
  <2> DEFINE sub == SubSeq(rows, d + 1, Len(rows))
  <2>1. Len(rows) \in Int
    BY <1>1
  <2>2. /\ sub \in Seq([id : D, ended : BOOLEAN])
        /\ Len(sub) = IF d + 1 <= Len(rows) THEN Len(rows) - (d + 1) + 1 ELSE 0
        /\ \A k \in 1..(Len(rows) - (d + 1) + 1) : sub[k] = rows[(d + 1) + k - 1]
    BY <1>3, <1>4, <2>1, SubSeqProperties
  <2>3. LastRows(rows) = sub
    BY <1>2
  <2> HIDE DEF sub
  <2>4. QED
    BY <2>2, <2>3
<1>6. Len(LastRows(rows)) = Len(rows) - d
  BY <1>1, <1>2, <1>3, <1>5
<1>7. ASSUME NEW k \in 1..(Len(rows) - d)
      PROVE  LastRows(rows)[k] = rows[k + d]
  <2>1. k \in 1..(Len(rows) - (d + 1) + 1) /\ (d + 1) + k - 1 = k + d
    BY <1>1
  <2>2. QED
    BY <1>5, <2>1
<1>8. IdsOf(LastRows(rows)) \subseteq IdsOf(rows)
  <2>1. DOMAIN LastRows(rows) = 1..(Len(rows) - d)
    BY <1>5, <1>6, LenProperties
  <2>2. \A k \in 1..(Len(rows) - d) : k + d \in 1..Len(rows)
    BY <1>1
  <2>3. QED
    BY <1>1, <1>7, <2>1, <2>2 DEF IdsOf
<1>9. rows # <<>> => LastRows(rows) # <<>>
  <2>1. rows # <<>> => Len(rows) # 0
    BY EmptySeq
  <2>2. LastRows(rows) = <<>> => Len(LastRows(rows)) = 0
    BY EmptySeq
  <2>3. QED
    BY <1>2, <1>6, <2>1, <2>2
<1>10. QED
  BY <1>2, <1>3, <1>5, <1>6, <1>7, <1>8, <1>9

\* The first rows are a prefix.
LEMMA FirstRowsIs ==
  ASSUME NEW D, NEW rows \in Seq([id : D, ended : BOOLEAN])
  PROVE  /\ FirstRows(rows) \in Seq([id : D, ended : BOOLEAN])
         /\ Len(FirstRows(rows)) = IF Len(rows) > Window THEN Window ELSE Len(rows)
         /\ \A k \in 1..Len(FirstRows(rows)) : k \in 1..Len(rows) /\ FirstRows(rows)[k] = rows[k]
         /\ Len(FirstRows(rows)) <= Window
         /\ IdsOf(FirstRows(rows)) \subseteq IdsOf(rows)
<1>1. /\ Len(rows) \in Nat /\ DOMAIN rows = 1..Len(rows)
      /\ \A k \in 1..Len(rows) : rows[k] \in [id : D, ended : BOOLEAN]
  BY LenProperties
<1>2. PICK n \in Nat : n = IF Len(rows) > Window THEN Window ELSE Len(rows)
  BY <1>1, WindowIs
<1>3. n <= Len(rows) /\ n <= Window /\ FirstRows(rows) = SubSeq(rows, 1, n)
  <2>1. \A l, w \in Nat : LET m == IF l > w THEN w ELSE l IN m <= l /\ m <= w
    OBVIOUS
  <2>2. n <= Len(rows) /\ n <= Window
    BY <1>1, <1>2, <2>1, WindowIs, Zenon
  <2>3. FirstRows(rows) = SubSeq(rows, 1, n)
    BY <1>2, Zenon DEF FirstRows
  <2>4. QED
    BY <2>2, <2>3, Zenon
<1>4. \A k \in 1..n : k \in 1..Len(rows) /\ rows[k] \in [id : D, ended : BOOLEAN]
  BY <1>1, <1>3
<1>5. /\ FirstRows(rows) \in Seq([id : D, ended : BOOLEAN])
      /\ Len(FirstRows(rows)) = IF 1 <= n THEN n - 1 + 1 ELSE 0
      /\ \A k \in 1..(n - 1 + 1) : FirstRows(rows)[k] = rows[1 + k - 1]
  BY <1>3, <1>4, SubSeqProperties
<1>6. Len(FirstRows(rows)) = n
  BY <1>5
<1>7. \A k \in 1..n : FirstRows(rows)[k] = rows[k]
  BY <1>5
<1>8. IdsOf(FirstRows(rows)) \subseteq IdsOf(rows)
  <2>1. DOMAIN FirstRows(rows) = 1..n
    BY <1>5, <1>6, LenProperties
  <2>2. QED
    BY <1>1, <1>4, <1>7, <2>1 DEF IdsOf
<1>9. QED
  BY <1>2, <1>3, <1>4, <1>5, <1>6, <1>7, <1>8, SMTT(20)

\* To look up changes no id; it ends the spans that are closed by now.
LEMMA LookUpIs ==
  ASSUME NEW D, NEW rows \in Seq([id : D, ended : BOOLEAN])
  PROVE  /\ LookUp(rows) \in Seq([id : D, ended : BOOLEAN])
         /\ Len(LookUp(rows)) = Len(rows) /\ DOMAIN LookUp(rows) = DOMAIN rows
         /\ IdsOf(LookUp(rows)) = IdsOf(rows)
         /\ \A k \in DOMAIN rows :
              /\ LookUp(rows)[k].id = rows[k].id
              /\ LookUp(rows)[k].ended <=>
                   log[rows[k].id].kind = "SpanCreate" /\ log[rows[k].id].span_t_id \subseteq closed
<1>1. /\ Len(rows) \in Nat /\ DOMAIN rows = 1..Len(rows)
      /\ \A k \in 1..Len(rows) : rows[k] \in [id : D, ended : BOOLEAN]
  BY LenProperties
<1>2. LookUp(rows) = [k \in 1..Len(rows) |-> [rows[k] EXCEPT !.ended =
        log[rows[k].id].kind = "SpanCreate" /\ log[rows[k].id].span_t_id \subseteq closed]]
  BY <1>1 DEF LookUp
<1>3. ASSUME NEW k \in 1..Len(rows)
      PROVE  /\ LookUp(rows)[k] \in [id : D, ended : BOOLEAN]
             /\ LookUp(rows)[k].id = rows[k].id
             /\ LookUp(rows)[k].ended <=>
                  log[rows[k].id].kind = "SpanCreate" /\ log[rows[k].id].span_t_id \subseteq closed
  BY <1>1, <1>2, ZenonT(30)
<1>4. DOMAIN LookUp(rows) = 1..Len(rows)
  BY <1>2
<1>5. LookUp(rows) \in [1..Len(rows) -> [id : D, ended : BOOLEAN]]
  BY <1>2, <1>3
<1>6. LookUp(rows) \in Seq([id : D, ended : BOOLEAN]) /\ Len(LookUp(rows)) = Len(rows)
  BY <1>1, <1>2, <1>3, <1>5
<1>7. IdsOf(LookUp(rows)) = IdsOf(rows)
  BY <1>1, <1>3, <1>4 DEF IdsOf
<1>8. QED
  BY <1>1, <1>3, <1>4, <1>6, <1>7

-----------------------------------------------------------------------------
(* Types.                                                                  *)

\* What is logged in a step.
Recs == {Start} \cup {case.script[i] : i \in DOMAIN case.script}

\* The log grows at its end.
LEMMA LogGrows ==
  ASSUME NEW R, log \in Seq(R), NEW m, log' = Append(log, m)
  PROVE  /\ Len(log) \in Nat /\ DOMAIN log = 1..Len(log) /\ Len(log') = Len(log) + 1
         /\ DOMAIN log' = 1..(Len(log) + 1) /\ DOMAIN log \subseteq DOMAIN log'
         /\ Len(log') \in DOMAIN log' /\ Len(log') \notin DOMAIN log
         /\ \A i \in DOMAIN log' : i \in DOMAIN log \/ i = Len(log')
         /\ \A i \in DOMAIN log : log'[i] = log[i] /\ i < Len(log')
         /\ log'[Len(log')] = m
         /\ log' \in Seq(R \cup {m})
<1>1. Len(log) \in Nat /\ DOMAIN log = 1..Len(log) /\ log \in [1..Len(log) -> R]
  BY LenProperties
<1>2. log \in Seq(R \cup {m})
  BY SeqMonotonic
<1>3. /\ log' \in Seq(R \cup {m}) /\ Len(log') = Len(log) + 1
      /\ \A i \in 1..Len(log) : log'[i] = log[i]
      /\ log'[Len(log) + 1] = m
  BY <1>2, AppendProperties
<1>4. DOMAIN log' = 1..(Len(log) + 1)
  BY <1>1, <1>3, LenProperties
<1>5. QED
  BY <1>1, <1>3, <1>4

\* The initial states have their types.
LEMMA TypeOKInit ==
  Init => TypeOK
<1> SUFFICES ASSUME Init
             PROVE  TypeOK
  OBVIOUS
<1>1. /\ case \in Cases /\ log = <<>> /\ channel = <<>> /\ filling = <<>> /\ batch = <<>>
      /\ registry = <<>> /\ stream = <<>> /\ shown = <<>> /\ did = {} /\ told = 0
      /\ joining = FALSE /\ watched = FALSE /\ stored = {} /\ closed = {} /\ telling = "no"
      /\ regWatch = FALSE /\ page = 0 /\ pageOpen = TRUE
      /\ isEnd = TRUE /\ noOlder = FALSE /\ stray = FALSE
      /\ seen = {} /\ heard = {} /\ dropped = {} /\ shifted = {} /\ early = {} /\ lost = {}
  BY DEF Init
<1>2. \A S : <<>> \in Seq(S)
  BY EmptySeq
<1>3. Len(<<>>) = 0
  BY EmptySeq
<1>4. request \in [type : {"none", "first", "more", "older"}, at : {"no", "list", "look", "back"},
                   cursor : {0} \cup DOMAIN log, rows : Seq(RowType)]
  BY <1>2 DEF Init, NoRequest
<1>5. source \in [at : {"no", "list", "look", "open"}, cursor : {0} \cup DOMAIN log,
                  rows : Seq(RowType)]
  BY <1>2 DEF Init
<1>6. request.type # "none" /\ Len(request.rows) <= Count + 1
  <2>1. request.type = "first" /\ request.rows = <<>>
    BY DEF Init, NoRequest
  <2>2. QED
    BY <1>3, <2>1, CountAssumption
<1>7. 0 \in 0..PageCap /\ 0 \in 0..Len(batch) /\ Len(shown) <= Window
  BY <1>1, <1>3, CountAssumption, WindowIs
<1>8. QED
  BY <1>1, <1>2, <1>4, <1>5, <1>7, <1>6 DEF TypeOK

\* A longer log keeps the types of what refers to it.
LEMMA TypesKept ==
  ASSUME TypeOK, NEW m \in Recs, log' = Append(log, m), case' = case
  PROVE  /\ log' \in Seq({Start} \cup {case'.script[i] : i \in DOMAIN case'.script})
         /\ DOMAIN log \subseteq DOMAIN log' /\ Len(log') \in DOMAIN log'
         /\ channel \in Seq(DOMAIN log' \cup {Watch})
         /\ filling \in Seq(DOMAIN log') /\ batch \in Seq(DOMAIN log')
         /\ stored \subseteq DOMAIN log'
         /\ closed \subseteq UNION {log'[i].span_t_id : i \in DOMAIN log'}
         /\ registry \in Seq(DOMAIN log' \cup {Watch})
         /\ request \in [type : {"none", "first", "more", "older"},
                         at : {"no", "list", "look", "back"},
                         cursor : {0} \cup DOMAIN log', rows : Seq(RowType')]
         /\ source \in [at : {"no", "list", "look", "open"}, cursor : {0} \cup DOMAIN log',
                        rows : Seq(RowType')]
         /\ stream \in Seq(RowType') /\ shown \in Seq(RowType')
         /\ UNION {seen, heard, dropped, shifted, early, lost} \subseteq DOMAIN log'
<1>1. log \in Seq(Recs)
  BY DEF TypeOK, Recs
<1>2. /\ DOMAIN log \subseteq DOMAIN log' /\ Len(log') \in DOMAIN log'
      /\ \A i \in DOMAIN log : log'[i] = log[i]
      /\ log' \in Seq(Recs \cup {m})
  BY <1>1, LogGrows, Zenon
<1>3. Recs \cup {m} = {Start} \cup {case'.script[i] : i \in DOMAIN case'.script}
  BY DEF Recs
<1>4. RowType \subseteq RowType'
  BY <1>2 DEF RowType
<1>5. /\ channel \in Seq(DOMAIN log' \cup {Watch}) /\ registry \in Seq(DOMAIN log' \cup {Watch})
      /\ filling \in Seq(DOMAIN log') /\ batch \in Seq(DOMAIN log')
  <2>1. DOMAIN log \cup {Watch} \subseteq DOMAIN log' \cup {Watch}
    BY <1>2
  <2>2. /\ channel \in Seq(DOMAIN log \cup {Watch}) /\ registry \in Seq(DOMAIN log \cup {Watch})
        /\ filling \in Seq(DOMAIN log) /\ batch \in Seq(DOMAIN log)
    BY DEF TypeOK
  <2>3. QED
    BY <1>2, <2>1, <2>2, SeqMonotonic
<1>6. Seq(RowType) \subseteq Seq(RowType')
  BY <1>4, SeqMonotonic
<1>7. /\ request \in [type : {"none", "first", "more", "older"},
                      at : {"no", "list", "look", "back"},
                      cursor : {0} \cup DOMAIN log', rows : Seq(RowType')]
      /\ source \in [at : {"no", "list", "look", "open"}, cursor : {0} \cup DOMAIN log',
                     rows : Seq(RowType')]
      /\ stream \in Seq(RowType') /\ shown \in Seq(RowType')
  <2>1. /\ request \in [type : {"none", "first", "more", "older"},
                        at : {"no", "list", "look", "back"},
                        cursor : {0} \cup DOMAIN log, rows : Seq(RowType)]
        /\ source \in [at : {"no", "list", "look", "open"}, cursor : {0} \cup DOMAIN log,
                       rows : Seq(RowType)]
        /\ stream \in Seq(RowType) /\ shown \in Seq(RowType)
    BY DEF TypeOK
  <2>2. QED
    BY <1>2, <1>6, <2>1
<1>8. closed \subseteq UNION {log'[i].span_t_id : i \in DOMAIN log'}
  <2>1. closed \subseteq UNION {log[i].span_t_id : i \in DOMAIN log}
    BY DEF TypeOK
  <2>2. QED
    BY <1>2, <2>1
<1>9. /\ stored \subseteq DOMAIN log'
      /\ UNION {seen, heard, dropped, shifted, early, lost} \subseteq DOMAIN log'
  BY <1>2 DEF TypeOK
<1>10. QED
  BY <1>2, <1>3, <1>5, <1>7, <1>8, <1>9

\* The types of what the view shows and is sent.
LEMMA RowsTyped ==
  ASSUME TypeOK
  PROVE  /\ shown \in Seq([id : DOMAIN log, ended : BOOLEAN])
         /\ stream \in Seq([id : DOMAIN log, ended : BOOLEAN])
         /\ request.rows \in Seq([id : DOMAIN log, ended : BOOLEAN])
         /\ source.rows \in Seq([id : DOMAIN log, ended : BOOLEAN])
         /\ request.cursor \in {0} \cup DOMAIN log /\ source.cursor \in {0} \cup DOMAIN log
         /\ Len(log) \in Nat /\ DOMAIN log = 1..Len(log)
         /\ DOMAIN log \subseteq Nat /\ Watch \notin DOMAIN log
<1>1. Len(log) \in Nat /\ DOMAIN log = 1..Len(log)
  BY LenProperties DEF TypeOK
<1>2. QED
  BY <1>1 DEF TypeOK, RowType, Watch

\* A set of ids that are stored and selected is one of ids up to that of the last
\* record, and so are those of a page.
LEMMA PagesTyped ==
  ASSUME TypeOK
  PROVE  /\ Selected \in SUBSET (1..Len(log)) /\ Len(log) \in Nat
         /\ \A c : PageAfter(c) \in SUBSET (1..Len(log)) /\ PageBefore(c) \in SUBSET (1..Len(log))
<1>1. Selected \in SUBSET (1..Len(log)) /\ Len(log) \in Nat
  BY RowsTyped DEF Selected, TypeOK
<1>2. QED
  BY <1>1 DEF PageAfter, PageBefore, FirstOf, LastOf

\* The rows of a page.
LEMMA PageRowsTyped ==
  ASSUME TypeOK, NEW S \in SUBSET (1..Len(log))
  PROVE  RowsOf(S) \in Seq([id : DOMAIN log, ended : BOOLEAN])
<1>1. Len(log) \in Nat /\ S \subseteq DOMAIN log
  BY RowsTyped
<1>2. RowsOf(S) \in Seq([id : S, ended : BOOLEAN])
  BY <1>1, RowsOfIs
<1>3. [id : S, ended : BOOLEAN] \subseteq [id : DOMAIN log, ended : BOOLEAN]
  BY <1>1
<1>4. QED
  BY <1>2, <1>3, SeqMonotonic

\* The steps of the run's task, the applications and the registry keep the types.
LEMMA TypeOKTask ==
  ASSUME TypeOK, RunRecords \/ Task \/ OtherStarts \/ Registry \/ PageReads \/ PageLeaves
  PROVE  TypeOK'
<1>1. CASE RunRecords
  <2>1. PICK m : m = case.script[Cardinality(Sent) + 1]
    OBVIOUS
  <2>2. m \in Recs
    <3>1. Cardinality(Sent) \in Nat
      <4>1. Sent \in SUBSET (1..Len(log)) /\ Len(log) \in Nat
        BY RowsTyped DEF Sent
      <4>2. QED
        BY <4>1, OrderExists
    <3>2. case.script \in Seq({case.script[i] : i \in DOMAIN case.script})
      BY CasesAssumption DEF TypeOK
    <3>3. DOMAIN case.script = 1..Len(case.script) /\ Len(case.script) \in Nat
      BY <3>2, LenProperties
    <3>4. Cardinality(Sent) + 1 \in DOMAIN case.script
      BY <1>1, <3>1, <3>3 DEF RunRecords
    <3>5. QED
      BY <2>1, <3>4 DEF Recs
  <2>3. log' = Append(log, m) /\ case' = case /\ channel' = Append(channel, Len(log'))
    BY <1>1, <2>1 DEF RunRecords
  <2>4. channel' \in Seq(DOMAIN log' \cup {Watch})
    BY <2>2, <2>3, TypesKept, AppendProperties
  <2>5. /\ log' \in Seq({Start} \cup {case'.script[i] : i \in DOMAIN case'.script})
        /\ filling \in Seq(DOMAIN log') /\ batch \in Seq(DOMAIN log')
        /\ stored \subseteq DOMAIN log'
        /\ closed \subseteq UNION {log'[i].span_t_id : i \in DOMAIN log'}
        /\ request \in [type : {"none", "first", "more", "older"},
                        at : {"no", "list", "look", "back"},
                        cursor : {0} \cup DOMAIN log', rows : Seq(RowType')]
        /\ source \in [at : {"no", "list", "look", "open"}, cursor : {0} \cup DOMAIN log',
                       rows : Seq(RowType')]
        /\ stream \in Seq(RowType') /\ shown \in Seq(RowType')
        /\ UNION {seen, heard, dropped, shifted, early, lost} \subseteq DOMAIN log'
        /\ registry \in Seq(DOMAIN log' \cup {Watch})
    BY <2>2, <2>3, TypesKept
  <2>6. UNCHANGED <<case, filling, joining, batch, did, told, watched, dbVars, registryVars,
        viewVars>>
    BY <1>1 DEF RunRecords
  <2>7. /\ telling' = telling /\ registry' = registry /\ told' = told /\ batch' = batch
           /\ did' = did
        /\ joining' = joining /\ watched' = watched /\ regWatch' = regWatch /\ page' = page
        /\ pageOpen' = pageOpen /\ isEnd' = isEnd /\ noOlder' = noOlder /\ stray' = stray
        /\ filling' = filling /\ stored' = stored /\ closed' = closed /\ request' = request
        /\ source' = source /\ stream' = stream /\ shown' = shown /\ seen' = seen /\ heard' = heard
        /\ dropped' = dropped /\ shifted' = shifted /\ early' = early /\ lost' = lost
    BY <2>6 DEF dbVars, registryVars, viewVars, storeVars, missVars
  <2>8. /\ joining' \in BOOLEAN /\ watched' \in BOOLEAN
        /\ did' \subseteq {"insert", "update"} /\ told' \in 0..Len(batch')
        /\ telling' \in {"no", "page", "view"}
        /\ (telling' # "no" => registry' # <<>> /\ Head(registry') # Watch)
        /\ regWatch' \in BOOLEAN /\ page' \in 0..PageCap /\ pageOpen' \in BOOLEAN
        /\ request'.type = "none" => request' = NoRequest
        /\ Len(request'.rows) <= Count + 1
        /\ Len(shown') <= Window
        /\ isEnd' \in BOOLEAN /\ noOlder' \in BOOLEAN /\ stray' \in BOOLEAN
    BY <2>7 DEF TypeOK
  <2>9. case' \in Cases
    BY <2>3 DEF TypeOK
  <2>10. QED
    BY <2>4, <2>5, <2>7, <2>8, <2>9 DEF TypeOK
<1>2. CASE OtherStarts
  <2>1. /\ Start \in Recs /\ log' = Append(log, Start) /\ case' = case
        /\ registry' = Append(registry, Len(log'))
    BY <1>2 DEF OtherStarts, Recs
  <2>2. registry' \in Seq(DOMAIN log' \cup {Watch})
    BY <2>1, TypesKept, AppendProperties
  <2>3. telling' # "no" => registry' # <<>> /\ Head(registry') # Watch
    <3>1. registry \in Seq(DOMAIN log' \cup {Watch}) /\ Len(log') \in DOMAIN log'
      BY <2>1, TypesKept
    <3>2. registry # <<>> => Len(registry) \in Nat \ {0}
      BY <3>1, EmptySeq
    <3>3. /\ Len(registry') = Len(registry) + 1
          /\ \A k \in 1..Len(registry) : registry'[k] = registry[k]
      BY <2>1, <3>1, AppendProperties
    <3>4. registry # <<>> => registry' # <<>> /\ registry'[1] = registry[1]
      <4>1. Len(<<>>) = 0
        BY EmptySeq
      <4>2. registry # <<>> => Len(registry') # 0 /\ 1 \in 1..Len(registry)
        BY <3>2, <3>3
      <4>3. QED
        BY <3>3, <4>1, <4>2
    <3>5. telling' = telling /\ (telling # "no" => registry # <<>> /\ registry[1] # Watch)
      BY <1>2 DEF OtherStarts, TypeOK, Head
    <3>6. QED
      BY <3>4, <3>5 DEF Head
  <2>4. /\ log' \in Seq({Start} \cup {case'.script[i] : i \in DOMAIN case'.script})
        /\ filling \in Seq(DOMAIN log') /\ batch \in Seq(DOMAIN log')
        /\ stored \subseteq DOMAIN log'
        /\ closed \subseteq UNION {log'[i].span_t_id : i \in DOMAIN log'}
        /\ request \in [type : {"none", "first", "more", "older"},
                        at : {"no", "list", "look", "back"},
                        cursor : {0} \cup DOMAIN log', rows : Seq(RowType')]
        /\ source \in [at : {"no", "list", "look", "open"}, cursor : {0} \cup DOMAIN log',
                       rows : Seq(RowType')]
        /\ stream \in Seq(RowType') /\ shown \in Seq(RowType')
        /\ UNION {seen, heard, dropped, shifted, early, lost} \subseteq DOMAIN log'
        /\ channel \in Seq(DOMAIN log' \cup {Watch})
    BY <2>1, TypesKept
  <2>5. UNCHANGED <<case, taskVars, dbVars, telling, regWatch, page, pageOpen, viewVars>>
    BY <1>2 DEF OtherStarts
  <2>6. telling' \in {"no", "page", "view"} /\ telling' = telling /\ regWatch' = regWatch
        /\ regWatch \in BOOLEAN /\ page' = page /\ pageOpen' = pageOpen
    BY <2>5 DEF TypeOK
  <2>7. QED
    BY <2>2, <2>3, <2>4, <2>5, <2>6
       DEF TypeOK, taskVars, dbVars, viewVars, storeVars, missVars
<1>3. ASSUME log' = log /\ case' = case
      PROVE  /\ RowType' = RowType /\ DOMAIN log' = DOMAIN log
             /\ DOMAIN log \subseteq Nat
  BY <1>3, RowsTyped DEF RowType
<1>4. CASE Receive
  <2>1. log' = log /\ case' = case /\ channel # <<>> /\ channel' = Tail(channel)
    BY <1>4 DEF Receive
  <2>2. channel \in Seq(DOMAIN log \cup {Watch}) /\ filling \in Seq(DOMAIN log)
        /\ joining \in BOOLEAN
    BY DEF TypeOK
  <2>3. channel' \in Seq(DOMAIN log \cup {Watch}) /\ Head(channel) \in DOMAIN log \cup {Watch}
    BY <2>1, <2>2, HeadTailProperties
  <2>4. filling' \in Seq(DOMAIN log) /\ joining' \in BOOLEAN
    <3>1. CASE Head(channel) = Watch
      BY <1>4, <2>2, <3>1 DEF Receive
    <3>2. CASE Head(channel) # Watch
      <4>1. filling' = Append(filling, Head(channel)) /\ joining' = joining
            /\ Head(channel) \in DOMAIN log
        BY <1>4, <2>3, <3>2 DEF Receive
      <4>2. QED
        BY <2>2, <4>1, AppendProperties
    <3>3. QED
      BY <3>1, <3>2
  <2>5. QED
    BY <1>3, <1>4, <2>1, <2>3, <2>4, SMTT(20)
       DEF TypeOK, Receive, dbVars, registryVars, viewVars, storeVars, missVars
<1>5. CASE Swap
  <2>1. log' = log /\ case' = case /\ batch' = filling /\ filling' = <<>> /\ did' = {} /\ told' = 0
    BY <1>5 DEF Swap
  <2>2. filling' \in Seq(DOMAIN log) /\ batch' \in Seq(DOMAIN log) /\ told' \in 0..Len(batch')
    <3>1. batch' \in Seq(DOMAIN log) /\ filling' \in Seq(DOMAIN log)
      BY <2>1, EmptySeq DEF TypeOK
    <3>2. Len(batch') \in Nat
      BY <3>1, LenProperties
    <3>3. QED
      BY <2>1, <3>1, <3>2
  <2>3. lost' \subseteq DOMAIN log
    BY <1>5 DEF Swap, MissedBefore, TypeOK
  <2>4. joining' \in BOOLEAN /\ watched' \in BOOLEAN
    BY <1>5, Zenon DEF Swap, TypeOK
  <2>5. QED
    BY <1>3, <1>5, <2>1, <2>2, <2>3, <2>4 DEF TypeOK, Swap, dbVars, registryVars, storeVars
<1>6. CASE InsertRows
  <2>1. stored' \subseteq DOMAIN log
    <3>1. \A k \in DOMAIN batch : batch[k] \in DOMAIN log
      BY LenProperties, ElementOfSeq DEF TypeOK
    <3>2. QED
      BY <1>6, <3>1 DEF InsertRows, TypeOK
  <2>2. QED
    BY <1>3, <1>6, <2>1 DEF TypeOK, InsertRows, registryVars, viewVars, storeVars, missVars
<1>7. CASE UpdateSpans
  <2>1. closed' \subseteq UNION {log[i].span_t_id : i \in DOMAIN log}
    <3>1. \A k \in DOMAIN batch : batch[k] \in DOMAIN log
      BY LenProperties, ElementOfSeq DEF TypeOK
    <3>2. QED
      BY <1>7, <3>1 DEF UpdateSpans, TypeOK
  <2>2. QED
    BY <1>3, <1>7, <2>1, SMTT(20)
       DEF TypeOK, UpdateSpans, registryVars, viewVars, storeVars, missVars
<1>8. CASE Notify
  <2>1. told' \in 0..Len(batch) /\ batch' = batch /\ told + 1 \in 1..Len(batch)
    <3>1. Len(batch) \in Nat /\ told \in 0..Len(batch)
      BY LenProperties DEF TypeOK
    <3>2. QED
      BY <1>8, <3>1 DEF Notify
  <2>2. stream' \in Seq(RowType)
    <3>1. batch[told + 1] \in DOMAIN log
      BY <2>1, ElementOfSeq DEF TypeOK
    <3>2. Row(batch[told + 1]) \in RowType
      BY <3>1 DEF Row, RowType
    <3>3. stream \in Seq(RowType)
      BY DEF TypeOK
    <3>4. QED
      BY <1>8, <3>2, <3>3, AppendProperties DEF Notify
  <2>3. /\ log' = log /\ case' = case
        /\ UNCHANGED <<channel, filling, joining, did, watched, dbVars, registryVars,
                       request, source, storeVars, missVars>>
    BY <1>8 DEF Notify
  <2>4. /\ RowType' = RowType /\ DOMAIN log' = DOMAIN log
    BY <1>3, <2>3
  <2>5. /\ case' \in Cases
        /\ log' \in Seq({Start} \cup {case'.script[i] : i \in DOMAIN case'.script})
        /\ channel' \in Seq(DOMAIN log' \cup {Watch})
        /\ filling' \in Seq(DOMAIN log') /\ batch' \in Seq(DOMAIN log')
        /\ joining' \in BOOLEAN /\ watched' \in BOOLEAN
        /\ did' \subseteq {"insert", "update"} /\ told' \in 0..Len(batch')
    BY <2>1, <2>3 DEF TypeOK
  <2>6. /\ stored' \subseteq DOMAIN log'
        /\ closed' \subseteq UNION {log'[i].span_t_id : i \in DOMAIN log'}
        /\ UNION {seen', heard', dropped', shifted', early', lost'} \subseteq DOMAIN log'
    BY <2>3 DEF TypeOK, dbVars, missVars
  <2>7. QED
    BY <2>2, <2>3, <2>4, <2>5, <2>6, SMTT(20) DEF TypeOK, registryVars, storeVars, missVars
<1>9. CASE HandleAppRun
  <2>1. stored' \subseteq DOMAIN log /\ telling' = "page"
    <3>1. registry \in Seq(DOMAIN log \cup {Watch}) /\ registry # <<>> /\ Head(registry) # Watch
      BY <1>9 DEF HandleAppRun, TypeOK
    <3>2. Head(registry) \in DOMAIN log
      BY <3>1, HeadTailProperties
    <3>3. QED
      BY <1>9, <3>2 DEF HandleAppRun, TypeOK
  <2>2. QED
    BY <1>3, <1>9, <2>1 DEF TypeOK, HandleAppRun, taskVars, viewVars, storeVars, missVars
<1>10. CASE TellPage
  <2>1. page' \in 0..PageCap
    <3>1. page \in 0..PageCap /\ PageCap \in Nat
      BY CountAssumption DEF TypeOK
    <3>2. QED
      BY <1>10, <3>1 DEF TellPage
  <2>2. QED
    BY <1>3, <1>10, <2>1 DEF TypeOK, TellPage, taskVars, dbVars, viewVars, storeVars, missVars
<1>11. CASE TellView
  <2>1. registry # <<>> /\ Head(registry) # Watch /\ registry \in Seq(DOMAIN log \cup {Watch})
    BY <1>11 DEF TellView, TypeOK
  <2>2. registry' \in Seq(DOMAIN log \cup {Watch}) /\ Head(registry) \in DOMAIN log
    BY <1>11, <2>1, HeadTailProperties DEF TellView
  <2>3. stream' \in Seq(RowType)
    <3>1. Row(Head(registry)) \in RowType
      BY <2>2 DEF Row, RowType
    <3>2. stream \in Seq(RowType)
      BY DEF TypeOK
    <3>3. QED
      BY <1>11, <3>1, <3>2, AppendProperties DEF TellView
  <2>4. QED
    BY <1>3, <1>11, <2>2, <2>3, SMTT(20) DEF TypeOK, TellView, taskVars, dbVars, storeVars, missVars
<1>12. CASE HandleAddRecordWatcher
  <2>1. registry # <<>> /\ Head(registry) = Watch /\ registry \in Seq(DOMAIN log \cup {Watch})
        /\ channel \in Seq(DOMAIN log \cup {Watch})
    BY <1>12 DEF HandleAddRecordWatcher, TypeOK
  <2>2. registry' \in Seq(DOMAIN log \cup {Watch}) /\ channel' \in Seq(DOMAIN log \cup {Watch})
    BY <1>12, <2>1, HeadTailProperties, AppendProperties DEF HandleAddRecordWatcher
  <2>3. telling = "no"
    BY <2>1 DEF TypeOK
  <2>4. QED
    BY <1>3, <1>12, <2>2, <2>3, SMTT(20)
       DEF TypeOK, HandleAddRecordWatcher, dbVars, viewVars, storeVars, missVars
<1>13. CASE PageReads
  <2>1. page' \in 0..PageCap
    BY <1>13, CountAssumption DEF PageReads, TypeOK
  <2>2. QED
    BY <1>3, <1>13, <2>1 DEF TypeOK, PageReads, taskVars, dbVars, viewVars, storeVars, missVars
<1>14. CASE PageLeaves
  <2>1. page' \in 0..PageCap /\ pageOpen' \in BOOLEAN
    <3>1. page' = 0 /\ pageOpen' = FALSE
      BY <1>14, Zenon DEF PageLeaves
    <3>2. page' \in 0..PageCap
      BY <3>1, CountAssumption
    <3>3. pageOpen' \in BOOLEAN
      BY <3>1, Zenon
    <3>4. QED
      BY <3>2, <3>3
  <2>2. QED
    BY <1>3, <1>14, <2>1 DEF TypeOK, PageLeaves, taskVars, dbVars, viewVars, storeVars, missVars
<1>15. QED
  BY <1>1, <1>2, <1>4, <1>5, <1>6, <1>7, <1>8, <1>9, <1>10, <1>11, <1>12, <1>13, <1>14
     DEF Task, Registry

\* A listing has one more row than is asked for at most.
LEMMA PagesBounded ==
  ASSUME TypeOK
  PROVE  \A c : Len(RowsOf(PageAfter(c))) <= Count + 1 /\ Len(RowsOf(PageBefore(c))) <= Count + 1
<1>1. Count + 1 \in Nat \ {0} /\ Len(log) \in Nat /\ Selected \in SUBSET (1..Len(log))
  BY CountAssumption, PagesTyped
<1>3. ASSUME NEW c
      PROVE  Cardinality(PageAfter(c)) \in 0..(Count + 1)
             /\ Cardinality(PageBefore(c)) \in 0..(Count + 1)
  <2>1. {i \in Selected : i > c} \in SUBSET (1..Len(log))
        /\ {i \in Selected : i < c} \in SUBSET (1..Len(log))
    BY <1>1
  <2>2. Cardinality(PageAfter(c)) \in 0..(Count + 1)
    BY <1>1, <2>1, FirstOfIs DEF PageAfter
  <2>3. Cardinality(PageBefore(c)) \in 0..(Count + 1)
    BY <1>1, <2>1, LastOfIs DEF PageBefore
  <2>4. QED
    BY <2>2, <2>3
<1>5. ASSUME NEW c
      PROVE  Len(RowsOf(PageAfter(c))) <= Count + 1 /\ Len(RowsOf(PageBefore(c))) <= Count + 1
  <2>1. /\ Len(RowsOf(PageAfter(c))) = Cardinality(PageAfter(c))
        /\ Len(RowsOf(PageBefore(c))) = Cardinality(PageBefore(c))
    BY <1>1, PagesTyped, RowsOfIs
  <2>2. QED
    BY <1>1, <1>3, <2>1
<1>6. QED
  BY <1>5

\* A function on 1..n is a sequence.
LEMMA SeqOfFunction ==
  ASSUME NEW S, NEW n \in Nat, NEW s \in [1..n -> S]
  PROVE  s \in Seq(S)
  BY SeqDef

\* A listing without a cursor: rows of what is selected, no more than are asked for,
\* each once, by their times, and none of a later time left out.
LEMMA LastPagesAre ==
  ASSUME TypeOK, NEW rows \in LastPages
  PROVE  /\ rows \in Seq([id : Selected, ended : BOOLEAN])
         /\ rows \in Seq([id : DOMAIN log, ended : BOOLEAN])
         /\ Len(rows) \in Nat /\ DOMAIN rows = 1..Len(rows) /\ Len(rows) <= Count + 1
         /\ Len(rows) = Count + 1 \/ Len(rows) = Cardinality(Selected)
         /\ IsFiniteSet(Selected)
         /\ \A j, k \in 1..Len(rows) : j < k =>
              rows[j].id # rows[k].id /\ log[rows[j].id].time <= log[rows[k].id].time
         /\ \A i \in Selected \ IdsOf(rows), k \in 1..Len(rows) :
              log[i].time <= log[rows[k].id].time
<1>1. Selected \in SUBSET (1..Len(log)) /\ Len(log) \in Nat /\ DOMAIN log = 1..Len(log)
  BY PagesTyped, RowsTyped
<1>2. IsFiniteSet(Selected) /\ Cardinality(Selected) \in Nat /\ Count \in Nat
  BY <1>1, AscendingIs, CountAssumption
<1>3. PICK n \in Nat :
        /\ n <= Count + 1 /\ (n = Count + 1 \/ n = Cardinality(Selected))
        /\ rows \in [1..n -> {Row(i) : i \in Selected}]
        /\ \A j, k \in 1..n : j < k => /\ rows[j] # rows[k]
                                       /\ log[rows[j].id].time <= log[rows[k].id].time
        /\ \A i \in Selected \ IdsOf(rows), k \in 1..n : log[i].time <= log[rows[k].id].time
  <2>1. CASE Cardinality(Selected) <= Count
    BY <1>2, <2>1 DEF LastPages
  <2>2. CASE ~(Cardinality(Selected) <= Count)
    BY <1>2, <2>2 DEF LastPages
  <2>3. QED
    BY <2>1, <2>2
<1>4. ASSUME NEW k \in 1..n
      PROVE  rows[k] \in [id : Selected, ended : BOOLEAN] /\ rows[k] = Row(rows[k].id)
  <2>1. rows[k] \in {Row(i) : i \in Selected}
    BY <1>3, <1>4
  <2>2. PICK i \in Selected : rows[k] = Row(i)
    BY <2>1
  <2>3. Row(i) = [id |-> i, ended |-> FALSE]
    BY DEF Row
  <2>4. rows[k] = [id |-> i, ended |-> FALSE]
    BY <2>2, <2>3
  <2>5. rows[k] \in [id : Selected, ended : BOOLEAN]
    BY <2>4
  <2>6. rows[k].id = i
    BY <2>4
  <2>7. QED
    BY <2>2, <2>5, <2>6
<1>5. rows \in [1..n -> [id : Selected, ended : BOOLEAN]]
  BY <1>3, <1>4
<1>6. rows \in Seq([id : Selected, ended : BOOLEAN]) /\ Len(rows) = n /\ DOMAIN rows = 1..n
  <2>1. rows \in Seq([id : Selected, ended : BOOLEAN])
    <3>1. PICK R : R = [id : Selected, ended : BOOLEAN]
      OBVIOUS
    <3>2. rows \in [1..n -> R] /\ n \in Nat
      BY <1>3, <1>5, <3>1
    <3>3. rows \in Seq(R)
      BY <3>2, SeqOfFunction
    <3>4. QED
      BY <3>1, <3>3
  <2>2. DOMAIN rows = 1..n
    BY <1>5
  <2>3. Len(rows) \in Nat /\ DOMAIN rows = 1..Len(rows)
    BY <2>1, LenProperties
  <2>4. Len(rows) = n
    BY <1>3, <2>2, <2>3
  <2>5. QED
    BY <2>1, <2>2, <2>4
<1>7. [id : Selected, ended : BOOLEAN] \subseteq [id : DOMAIN log, ended : BOOLEAN]
  BY <1>1
<1>8. rows \in Seq([id : DOMAIN log, ended : BOOLEAN])
  BY <1>6, <1>7, SeqMonotonic
<1>9. \A j, k \in 1..n : j < k => rows[j].id # rows[k].id
  BY <1>3, <1>4
<1>10. QED
  BY <1>2, <1>3, <1>6, <1>8, <1>9

\* The listings of the server keep the types.
LEMMA TypeOKServer ==
  ASSUME TypeOK, Server
  PROVE  TypeOK'
<1>1. ASSUME log' = log /\ case' = case
      PROVE  RowType' = RowType /\ DOMAIN log' = DOMAIN log
  BY <1>1 DEF RowType
<1>2. /\ request \in [type : {"none", "first", "more", "older"},
         at : {"no", "list", "look", "back"},
                      cursor : {0} \cup DOMAIN log, rows : Seq(RowType)]
      /\ source \in [at : {"no", "list", "look", "open"}, cursor : {0} \cup DOMAIN log,
                     rows : Seq(RowType)]
      /\ request.type = "none" => request = NoRequest
  BY DEF TypeOK
<1>3. NoRequest.at = "no"
  BY DEF NoRequest
<1>4. RowType = [id : DOMAIN log, ended : BOOLEAN]
  BY DEF RowType
<1>5. CASE ServeList
  <2>1. request.type \in {"first", "more", "older"}
    BY <1>2, <1>3, <1>5 DEF ServeList
  <2>2. PICK rows \in Seq(RowType) :
          request' = [request EXCEPT !.at = "look", !.rows = rows] /\ Len(rows) <= Count + 1
    <3>1. CASE request.type = "first"
      <4>1. PICK rows \in LastPages : request' = [request EXCEPT !.at = "look", !.rows = rows]
        BY <1>5, <3>1 DEF ServeList
      <4>2. QED
        BY <1>4, <4>1, LastPagesAre
    <3>2. CASE request.type = "more"
      <4>1. request' = [request EXCEPT !.at = "look", !.rows = RowsOf(PageAfter(request.cursor))]
        BY <1>5, <3>2 DEF ServeList
      <4>2. QED
        BY <1>4, <4>1, PagesTyped, PagesBounded, PageRowsTyped
    <3>3. CASE request.type = "older"
      <4>1. request' = [request EXCEPT !.at = "look", !.rows = RowsOf(PageBefore(request.cursor))]
        BY <1>5, <3>3 DEF ServeList
      <4>2. QED
        BY <1>4, <4>1, PagesTyped, PagesBounded, PageRowsTyped
    <3>4. QED
      BY <2>1, <3>1, <3>2, <3>3
  <2>4. /\ request' \in [type : {"none", "first", "more", "older"},
           at : {"no", "list", "look", "back"},
                         cursor : {0} \cup DOMAIN log, rows : Seq(RowType)]
        /\ request'.type # "none" /\ Len(request'.rows) <= Count + 1
    BY <1>2, <2>1, <2>2
  <2>5. seen' \subseteq DOMAIN log /\ lost' \subseteq DOMAIN log
    BY <1>5 DEF ServeList, TypeOK
  <2>6. UNCHANGED <<case, log, taskVars, dbVars, registryVars, source, stream, storeVars, heard,
                    dropped, shifted, early, stray>>
    BY <1>5 DEF ServeList
  <2>7. QED
    BY <1>1, <2>4, <2>5, <2>6 DEF TypeOK, taskVars, dbVars, registryVars, storeVars
<1>6. CASE ServeLookUp
  <2>1. LookUp(request.rows) \in Seq(RowType) /\ Len(LookUp(request.rows)) <= Count + 1
    <3>1. Len(request.rows) <= Count + 1
      BY DEF TypeOK
    <3>2. QED
      BY <1>2, <1>4, <3>1, LookUpIs
  <2>2. request' = [request EXCEPT !.at = "back", !.rows = LookUp(request.rows)]
    BY <1>2, <1>6 DEF ServeLookUp
  <2>3. request.type # "none"
    BY <1>2, <1>3, <1>6 DEF ServeLookUp
  <2>4. /\ request' \in [type : {"none", "first", "more", "older"},
           at : {"no", "list", "look", "back"},
                         cursor : {0} \cup DOMAIN log, rows : Seq(RowType)]
        /\ request'.type # "none" /\ Len(request'.rows) <= Count + 1
    BY <1>2, <2>1, <2>2, <2>3
  <2>5. seen' \subseteq DOMAIN log
    BY <1>6 DEF ServeLookUp, TypeOK
  <2>6. QED
    BY <1>1, <1>6, <2>4, <2>5
       DEF TypeOK, ServeLookUp, taskVars, dbVars, registryVars, storeVars
<1>7. CASE SubscribeList
  <2>1. PICK rows \in Seq(RowType) : source' = [source EXCEPT !.at = "look", !.rows = rows]
    <3>1. PICK rows : /\ source' = [source EXCEPT !.at = "look", !.rows = rows]
                      /\ rows \in LastPages \/ rows = RowsOf(PageAfter(source.cursor))
      BY <1>7 DEF SubscribeList
    <3>2. rows \in Seq(RowType)
      BY <1>4, <3>1, LastPagesAre, PagesTyped, PageRowsTyped
    <3>3. QED
      BY <3>1, <3>2
  <2>3. source' \in [at : {"no", "list", "look", "open"}, cursor : {0} \cup DOMAIN log,
                     rows : Seq(RowType)]
    BY <1>2, <2>1
  <2>4. QED
    BY <1>1, <1>7, <2>3
       DEF TypeOK, SubscribeList, taskVars, dbVars, registryVars, storeVars, missVars
<1>8. CASE Subscribe
  <2>1. LookUp(source.rows) \in Seq(RowType)
    BY <1>2, <1>4, LookUpIs
  <2>2. source' = [source EXCEPT !.at = "open", !.rows = LookUp(source.rows)]
        /\ stream' = LookUp(source.rows)
    BY <1>2, <1>8 DEF Subscribe
  <2>3. /\ source' \in [at : {"no", "list", "look", "open"}, cursor : {0} \cup DOMAIN log,
                        rows : Seq(RowType)]
        /\ stream' \in Seq(RowType)
    BY <1>2, <2>1, <2>2
  <2>4. registry' = Append(registry, Watch) /\ registry \in Seq(DOMAIN log \cup {Watch})
        /\ telling' = telling
    BY <1>8 DEF Subscribe, TypeOK
  <2>5. registry' \in Seq(DOMAIN log \cup {Watch})
    BY <2>4, AppendProperties
  <2>6. registry # <<>> => registry' # <<>> /\ Head(registry') = Head(registry)
    <3>1. registry # <<>> => Len(registry) \in Nat \ {0}
      BY <2>4, EmptySeq
    <3>2. /\ Len(registry') = Len(registry) + 1
          /\ \A k \in 1..Len(registry) : registry'[k] = registry[k]
      BY <2>4, AppendProperties
    <3>3. Len(<<>>) = 0
      BY EmptySeq
    <3>4. registry # <<>> => Len(registry') # 0 /\ 1 \in 1..Len(registry)
      BY <3>1, <3>2
    <3>5. QED
      BY <3>2, <3>3, <3>4 DEF Head
  <2>7. telling' # "no" => registry' # <<>> /\ Head(registry') # Watch
    BY <2>4, <2>6 DEF TypeOK
  <2>8. UNCHANGED <<case, log, taskVars, dbVars, telling, regWatch, page, pageOpen, request,
                    storeVars, missVars>>
    BY <1>8 DEF Subscribe
  <2>9. QED
    BY <1>1, <2>3, <2>5, <2>7, <2>8 DEF TypeOK, taskVars, dbVars, storeVars, missVars
<1>9. QED
  BY <1>5, <1>6, <1>7, <1>8 DEF Server

\* The rows that arrive are typed.
LEMMA ArrivalTyped ==
  ASSUME TypeOK
  PROVE  /\ Len(request.rows) = Count + 1 =>
              /\ request.rows # <<>>
              /\ Tail(request.rows) \in Seq([id : DOMAIN log, ended : BOOLEAN])
              /\ Len(Tail(request.rows)) = Count
              /\ \A k \in 1..Count : Tail(request.rows)[k] = request.rows[k + 1]
              /\ IdsOf(request.rows) = {request.rows[1].id} \cup IdsOf(Tail(request.rows))
              /\ SubSeq(request.rows, 1, Count) \in Seq([id : DOMAIN log, ended : BOOLEAN])
              /\ Len(SubSeq(request.rows, 1, Count)) = Count
              /\ \A k \in 1..Count : SubSeq(request.rows, 1, Count)[k] = request.rows[k]
              /\ IdsOf(SubSeq(request.rows, 1, Count)) \subseteq IdsOf(request.rows)
<1> SUFFICES ASSUME Len(request.rows) = Count + 1
             PROVE  /\ request.rows # <<>>
                    /\ Tail(request.rows) \in Seq([id : DOMAIN log, ended : BOOLEAN])
                    /\ Len(Tail(request.rows)) = Count
                    /\ \A k \in 1..Count : Tail(request.rows)[k] = request.rows[k + 1]
                    /\ IdsOf(request.rows) = {request.rows[1].id} \cup IdsOf(Tail(request.rows))
                    /\ SubSeq(request.rows, 1, Count) \in Seq([id : DOMAIN log, ended : BOOLEAN])
                    /\ Len(SubSeq(request.rows, 1, Count)) = Count
                    /\ \A k \in 1..Count : SubSeq(request.rows, 1, Count)[k] = request.rows[k]
                    /\ IdsOf(SubSeq(request.rows, 1, Count)) \subseteq IdsOf(request.rows)
  OBVIOUS
<1> DEFINE D == DOMAIN log
<1>1. request.rows \in Seq([id : D, ended : BOOLEAN]) /\ Count \in Nat
  BY RowsTyped, CountAssumption
<1>2. request.rows # <<>>
  <2>1. Len(<<>>) = 0
    BY EmptySeq
  <2>2. QED
    BY <1>1, <2>1
<1>3. /\ Tail(request.rows) \in Seq([id : D, ended : BOOLEAN])
      /\ Len(Tail(request.rows)) = Len(request.rows) - 1
      /\ \A k \in 1..(Len(request.rows) - 1) : Tail(request.rows)[k] = request.rows[k + 1]
      /\ IdsOf(request.rows) = {request.rows[1].id} \cup IdsOf(Tail(request.rows))
  BY <1>1, <1>2, IdsOfTail
<1>4. Len(request.rows) - 1 = Count
  BY <1>1
<1>5. \A k \in 1..Count : k \in 1..Len(request.rows)
      /\ request.rows[k] \in [id : D, ended : BOOLEAN]
  <2>1. \A k \in 1..(Count + 1) : request.rows[k] \in [id : D, ended : BOOLEAN]
    BY <1>1, RowsAre
  <2>2. \A k \in 1..Count : k \in 1..(Count + 1)
    BY <1>1
  <2>3. QED
    BY <2>1, <2>2
<1>6. /\ SubSeq(request.rows, 1, Count) \in Seq([id : D, ended : BOOLEAN])
      /\ Len(SubSeq(request.rows, 1, Count)) = IF 1 <= Count THEN Count - 1 + 1 ELSE 0
      /\ \A k \in 1..(Count - 1 + 1) : SubSeq(request.rows, 1, Count)[k] = request.rows[1 + k - 1]
  BY <1>1, <1>5, SubSeqProperties
<1>7. Len(SubSeq(request.rows, 1, Count)) = Count
  BY <1>1, <1>6
<1>8. \A k \in 1..Count : SubSeq(request.rows, 1, Count)[k] = request.rows[k]
  BY <1>1, <1>6
<1>9. IdsOf(SubSeq(request.rows, 1, Count)) \subseteq IdsOf(request.rows)
  <2>1. DOMAIN SubSeq(request.rows, 1, Count) = 1..Count
    BY <1>6, <1>7, LenProperties
  <2>2. DOMAIN request.rows = 1..Len(request.rows)
    BY <1>1, LenProperties
  <2>3. QED
    BY <1>5, <1>8, <2>1, <2>2 DEF IdsOf
<1>10. QED
  BY <1>2, <1>3, <1>4, <1>6, <1>7, <1>8, <1>9

\* The view keeps the types.
LEMMA TypeOKView ==
  ASSUME TypeOK, View
  PROVE  TypeOK'
<1>1. ASSUME log' = log /\ case' = case
      PROVE  RowType' = RowType /\ DOMAIN log' = DOMAIN log
  BY <1>1 DEF RowType
<1>2. /\ request \in [type : {"none", "first", "more", "older"},
         at : {"no", "list", "look", "back"},
                      cursor : {0} \cup DOMAIN log, rows : Seq(RowType)]
      /\ source \in [at : {"no", "list", "look", "open"}, cursor : {0} \cup DOMAIN log,
                     rows : Seq(RowType)]
      /\ shown \in Seq(RowType) /\ stream \in Seq(RowType)
  BY DEF TypeOK
<1>3. /\ NoRequest \in [type : {"none", "first", "more", "older"},
         at : {"no", "list", "look", "back"},
                        cursor : {0} \cup DOMAIN log, rows : Seq(RowType)]
      /\ NoRequest.type = "none" /\ Len(NoRequest.rows) = 0
  BY EmptySeq DEF NoRequest
<1>4. RowType = [id : DOMAIN log, ended : BOOLEAN]
  BY DEF RowType
<1>5. /\ DOMAIN log \subseteq Nat /\ Count \in Nat /\ Window \in Nat /\ Count <= Window
      /\ isEnd \in BOOLEAN /\ noOlder \in BOOLEAN /\ stray \in BOOLEAN
      /\ seen \subseteq DOMAIN log /\ heard \subseteq DOMAIN log /\ dropped \subseteq DOMAIN log
      /\ shifted \subseteq DOMAIN log /\ early \subseteq DOMAIN log /\ lost \subseteq DOMAIN log
  <2>1. DOMAIN log \subseteq Nat
    BY RowsTyped
  <2>2. Count \in Nat /\ Window \in Nat /\ Count <= Window
    BY WindowIs, CountAssumption
  <2>3. /\ isEnd \in BOOLEAN /\ noOlder \in BOOLEAN /\ stray \in BOOLEAN
        /\ seen \subseteq DOMAIN log /\ heard \subseteq DOMAIN log /\ dropped \subseteq DOMAIN log
        /\ shifted \subseteq DOMAIN log /\ early \subseteq DOMAIN log /\ lost \subseteq DOMAIN log
    BY DEF TypeOK
  <2>4. QED
    BY <2>1, <2>2, <2>3
<1>6. CASE FirstArrives
  <2>1. PICK rows : /\ rows = IF Len(request.rows) = Count + 1 THEN Tail(request.rows)
                       ELSE request.rows
                    /\ shown' = rows
                    /\ source' = [source EXCEPT !.at = "list",
                                    !.cursor = IF rows = <<>> THEN 0 ELSE rows[Len(rows)].id]
                    /\ noOlder' = ~(Len(request.rows) = Count + 1)
    BY <1>6 DEF FirstArrives
  <2>2. rows \in Seq(RowType)
    BY <1>2, <1>4, <1>6, <2>1, ArrivalTyped DEF FirstArrives
  <2>3. source' \in [at : {"no", "list", "look", "open"}, cursor : {0} \cup DOMAIN log,
                     rows : Seq(RowType)]
    <3>1. rows # <<>> => rows[Len(rows)].id \in DOMAIN log
      BY <1>4, <2>2, RowsAre
    <3>2. QED
      BY <1>2, <2>1, <3>1
  <2>4. Len(shown') <= Window
    <3>1. Len(request.rows) \in Nat /\ Len(request.rows) <= Count + 1
      BY <1>2, LenProperties DEF TypeOK
    <3>2. CASE Len(request.rows) = Count + 1
      BY <1>5, <2>1, <3>2, ArrivalTyped
    <3>3. CASE Len(request.rows) # Count + 1
      BY <1>5, <2>1, <3>1, <3>3
    <3>4. QED
      BY <3>2, <3>3
  <2>5. noOlder' \in BOOLEAN
    BY <2>1
  <2>6. /\ UNCHANGED <<case, log, taskVars, dbVars, registryVars, stream, isEnd, missVars>>
        /\ request' = NoRequest
    BY <1>6 DEF FirstArrives
  <2>7. shown' \in Seq(RowType)
    BY <2>1, <2>2
  <2>8. /\ case' = case /\ log' = log /\ RowType' = RowType /\ DOMAIN log' = DOMAIN log
        /\ Window' = Window
    BY <1>1, <1>5, <2>6 DEF Window
  <2>9. /\ case' \in Cases
        /\ log' \in Seq({Start} \cup {case'.script[i] : i \in DOMAIN case'.script})
        /\ channel' \in Seq(DOMAIN log' \cup {Watch})
        /\ filling' \in Seq(DOMAIN log') /\ batch' \in Seq(DOMAIN log')
        /\ joining' \in BOOLEAN /\ watched' \in BOOLEAN
        /\ did' \subseteq {"insert", "update"} /\ told' \in 0..Len(batch')
    BY <2>6, <2>8 DEF TypeOK, taskVars
  <2>10. /\ stored' \subseteq DOMAIN log'
         /\ closed' \subseteq UNION {log'[i].span_t_id : i \in DOMAIN log'}
         /\ UNION {seen', heard', dropped', shifted', early', lost'} \subseteq DOMAIN log'
         /\ stray' \in BOOLEAN
    BY <2>6, <2>8 DEF TypeOK, dbVars, missVars
  <2>11. /\ registry' \in Seq(DOMAIN log' \cup {Watch})
         /\ telling' \in {"no", "page", "view"}
         /\ telling' # "no" => registry' # <<>> /\ Head(registry') # Watch
         /\ regWatch' \in BOOLEAN /\ page' \in 0..PageCap /\ pageOpen' \in BOOLEAN
    BY <2>6, <2>8 DEF TypeOK, registryVars
  <2>12. /\ stream' \in Seq(RowType') /\ isEnd' \in BOOLEAN
    BY <2>6, <2>8 DEF TypeOK
  <2>13. /\ source' \in [at : {"no", "list", "look", "open"}, cursor : {0} \cup DOMAIN log',
                         rows : Seq(RowType')]
         /\ shown' \in Seq(RowType') /\ Len(shown') <= Window' /\ noOlder' \in BOOLEAN
    BY <2>3, <2>4, <2>5, <2>7, <2>8
  <2>14. /\ request' \in [type : {"none", "first", "more", "older"},
                          at : {"no", "list", "look", "back"},
                          cursor : {0} \cup DOMAIN log', rows : Seq(RowType')]
         /\ request'.type = "none" => request' = NoRequest
         /\ Len(request'.rows) <= Count + 1
    BY <1>3, <1>5, <2>6, <2>8
  <2>15. QED
    BY <2>9, <2>10, <2>11, <2>12, <2>13, <2>14 DEF TypeOK
<1>7. CASE FetchMore
  <2>1. shown[Len(shown)].id \in DOMAIN log
    BY <1>2, <1>4, <1>7, RowsAre DEF FetchMore
  <2>2. /\ request' \in [type : {"none", "first", "more", "older"},
           at : {"no", "list", "look", "back"},
                         cursor : {0} \cup DOMAIN log, rows : Seq(RowType)]
        /\ request'.type # "none" /\ Len(request'.rows) <= Count + 1
    <3>1. /\ <<>> \in Seq(RowType) /\ Len(<<>>) <= Count + 1
      BY <1>5, EmptySeq
    <3>2. request' = [type |-> "more", at |-> "list", cursor |-> shown[Len(shown)].id,
          rows |-> <<>>]
      BY <1>7 DEF FetchMore, NoRequest
    <3>3. QED
      BY <2>1, <3>1, <3>2
  <2>3. QED
    BY <1>1, <1>7, <2>2 DEF TypeOK, FetchMore, taskVars, dbVars, registryVars, storeVars
<1>8. CASE FetchOlder
  <2>1. shown[1].id \in DOMAIN log
    BY <1>2, <1>4, <1>8, RowsAre DEF FetchOlder
  <2>2. /\ request' \in [type : {"none", "first", "more", "older"},
           at : {"no", "list", "look", "back"},
                         cursor : {0} \cup DOMAIN log, rows : Seq(RowType)]
        /\ request'.type # "none" /\ Len(request'.rows) <= Count + 1
    <3>1. /\ <<>> \in Seq(RowType) /\ Len(<<>>) <= Count + 1
      BY <1>5, EmptySeq
    <3>2. request' = [type |-> "older", at |-> "list", cursor |-> shown[1].id, rows |-> <<>>]
      BY <1>8 DEF FetchOlder, NoRequest
    <3>3. QED
      BY <2>1, <3>1, <3>2
  <2>3. QED
    BY <1>1, <1>8, <2>2 DEF TypeOK, FetchOlder, taskVars, dbVars, registryVars, storeVars
<1>9. \A R : StaleCloses(R) \subseteq DOMAIN log
  BY <1>5 DEF StaleCloses
<1>10. CASE MoreArrives
  <2>1. PICK rows, all :
          /\ rows = IF Len(request.rows) = Count + 1 THEN SubSeq(request.rows, 1, Count)
             ELSE request.rows
          /\ all = shown \o rows
          /\ shown' = LastRows(all) /\ noOlder' = NoOlderThan(all)
          /\ isEnd' = ~(Len(request.rows) = Count + 1)
          /\ early' = early \cup (IdsOf(rows) \ heard)
          /\ lost' = lost \cup StaleCloses(rows)
                          \cup (IF Len(request.rows) = Count + 1 THEN {} ELSE dropped \ IdsOf(all))
    BY <1>10 DEF MoreArrives
  <2>2. rows \in Seq(RowType) /\ IdsOf(rows) \subseteq DOMAIN log
    <3>1. rows \in Seq(RowType)
      BY <1>2, <1>4, <1>10, <2>1, ArrivalTyped DEF MoreArrives
    <3>2. QED
      BY <1>4, <3>1, RowsAre
  <2>3. all \in Seq(RowType)
    BY <1>2, <2>1, <2>2, ConcatProperties
  <2>4. shown' \in Seq(RowType) /\ Len(shown') <= Window
    BY <1>4, <2>1, <2>3, LastRowsIs
  <2>5. early' \subseteq DOMAIN log /\ lost' \subseteq DOMAIN log
    BY <1>5, <1>9, <2>1, <2>2
  <2>6. noOlder' \in BOOLEAN /\ isEnd' \in BOOLEAN
    BY <1>5, <2>1, Zenon DEF NoOlderThan
  <2>7. QED
    <3>1. /\ UNCHANGED <<case, log, taskVars, dbVars, registryVars, source, stream, seen, heard,
                          dropped, shifted, stray>>
          /\ request' = NoRequest
      BY <1>10 DEF MoreArrives
    <3>2. QED
      BY <1>1, <1>3, <1>5, <2>4, <2>5, <2>6, <3>1, SMTT(20)
         DEF TypeOK, taskVars, dbVars, registryVars
<1>11. CASE OlderArrives
  <2>1. PICK rows, all :
          /\ rows = IF Len(request.rows) = Count + 1 THEN Tail(request.rows) ELSE request.rows
          /\ all = rows \o shown
          /\ shown' = FirstRows(all)
          /\ noOlder' = (noOlder \/ ~(Len(request.rows) = Count + 1))
          /\ isEnd' = (isEnd /\ Len(all) <= Window)
          /\ early' = early \cup (IdsOf(rows) \ heard)
          /\ lost' = lost \cup StaleCloses(rows) \cup shifted
    BY <1>11 DEF OlderArrives
  <2>2. rows \in Seq(RowType) /\ IdsOf(rows) \subseteq DOMAIN log
    <3>1. rows \in Seq(RowType)
      BY <1>2, <1>4, <1>11, <2>1, ArrivalTyped DEF OlderArrives
    <3>2. QED
      BY <1>4, <3>1, RowsAre
  <2>3. all \in Seq(RowType)
    BY <1>2, <2>1, <2>2, ConcatProperties
  <2>4. shown' \in Seq(RowType) /\ Len(shown') <= Window
    BY <1>4, <2>1, <2>3, FirstRowsIs
  <2>5. early' \subseteq DOMAIN log /\ lost' \subseteq DOMAIN log
    BY <1>5, <1>9, <2>1, <2>2
  <2>6. noOlder' \in BOOLEAN /\ isEnd' \in BOOLEAN
    BY <1>5, <2>1, Zenon
  <2>7. QED
    <3>1. /\ UNCHANGED <<case, log, taskVars, dbVars, registryVars, source, stream, seen, heard,
                          dropped, shifted, stray>>
          /\ request' = NoRequest
      BY <1>11 DEF OlderArrives
    <3>2. QED
      BY <1>1, <1>3, <1>5, <2>4, <2>5, <2>6, <3>1, SMTT(20)
         DEF TypeOK, taskVars, dbVars, registryVars
<1>12. CASE EventArrives
  <2>1. PICK e \in RowType : e = Head(stream)
    BY <1>2, <1>4, <1>12, IdsOfTail DEF EventArrives
  <2>2. stream' \in Seq(RowType) /\ heard' \subseteq DOMAIN log
    <3>1. e.id \in DOMAIN log
      BY <1>4, <2>1
    <3>2. stream' \in Seq(RowType)
      BY <1>2, <1>4, <1>12, IdsOfTail DEF EventArrives
    <3>3. QED
      BY <1>5, <1>12, <2>1, <3>1, <3>2 DEF EventArrives
  <2>3. /\ shown' \in Seq(RowType) /\ Len(shown') <= Window
        /\ noOlder' \in BOOLEAN /\ stray' \in BOOLEAN
        /\ shifted' \subseteq DOMAIN log /\ dropped' \subseteq DOMAIN log
    <3>1. CASE EventAppends(e) /\ isEnd
      <4>1. PICK all : all = Append(shown, e)
        OBVIOUS
      <4>2. /\ shown' = LastRows(all) /\ noOlder' = NoOlderThan(all)
            /\ shifted' = shifted \cup IdsOf(SubSeq(all, 1, Len(all) - Window))
            /\ stray' = (stray \/ log[e.id] = Start) /\ dropped' = dropped
        BY <3>1, <4>1 DEF EventAppends
      <4>3. all \in Seq(RowType)
        BY <1>2, <2>1, <4>1, AppendProperties
      <4>4. shown' \in Seq(RowType) /\ Len(shown') <= Window
        BY <1>4, <4>2, <4>3, LastRowsIs
      <4>5. noOlder' \in BOOLEAN /\ stray' \in BOOLEAN
        BY <1>5, <4>2, Zenon DEF NoOlderThan
      <4>6. IdsOf(SubSeq(all, 1, Len(all) - Window)) \subseteq DOMAIN log
        <5>1. Len(all) \in Nat /\ \A k \in 1..Len(all) : all[k] \in RowType
          BY <4>3, LenProperties, ElementOfSeq
        <5>2. /\ 1 \in Int /\ Len(all) - Window \in Int
              /\ \A k \in 1..(Len(all) - Window) : all[k] \in RowType
          BY <1>5, <5>1
        <5>3. SubSeq(all, 1, Len(all) - Window) \in Seq(RowType)
          BY <5>2, SubSeqProperties
        <5>4. PICK head : head = SubSeq(all, 1, Len(all) - Window)
          OBVIOUS
        <5>5. head \in Seq([id : DOMAIN log, ended : BOOLEAN])
          BY <1>4, <5>3, <5>4
        <5>6. IdsOf(head) \subseteq DOMAIN log
          BY <5>5, RowsAre
        <5>7. QED
          BY <5>4, <5>6
      <4>7. QED
        BY <1>5, <4>2, <4>4, <4>5, <4>6
    <3>2. CASE EventAppends(e) /\ ~isEnd
      <4>1. UNCHANGED <<shown, noOlder, shifted, stray>> /\ dropped' = dropped \cup {e.id}
        BY <3>2 DEF EventAppends
      <4>2. e.id \in DOMAIN log
        BY <1>4, <2>1
      <4>3. QED
        BY <1>2, <1>5, <4>1, <4>2 DEF TypeOK
    <3>3. CASE EventChanges(e)
      <4>1. /\ UNCHANGED <<noOlder, dropped, shifted, stray>>
            /\ shown' = [k \in DOMAIN shown |->
                 [shown[k] EXCEPT !.ended = @ \/ (/\ Closes(e.id)
                                                  /\ log[shown[k].id].kind = "SpanCreate"
                                                  /\ log[shown[k].id].span_t_id
                                                     = log[e.id].span_t_id)]]
        BY <3>3 DEF EventChanges
      <4>2. /\ Len(shown) \in Nat /\ DOMAIN shown = 1..Len(shown)
            /\ \A k \in 1..Len(shown) : shown[k] \in [id : DOMAIN log, ended : BOOLEAN]
        BY <1>2, <1>4, LenProperties, ElementOfSeq
      <4>3. ASSUME NEW k \in 1..Len(shown)
            PROVE  shown'[k] \in RowType
        <5>1. shown'[k] = [shown[k] EXCEPT !.ended = shown[k].ended \/ (/\ Closes(e.id)
                                                  /\ log[shown[k].id].kind = "SpanCreate"
                                                  /\ log[shown[k].id].span_t_id
                                                     = log[e.id].span_t_id)]
          BY <4>1, <4>2
        <5>2. QED
          BY <1>4, <4>2, <5>1
      <4>4. shown' \in Seq(RowType) /\ Len(shown') = Len(shown)
        BY <4>1, <4>2, <4>3
      <4>5. Len(shown) <= Window
        BY DEF TypeOK
      <4>6. QED
        BY <1>5, <4>1, <4>4, <4>5
    <3>4. QED
      BY <1>12, <2>1, <3>1, <3>2, <3>3 DEF EventArrives
  <2>4. QED
    BY <1>1, <1>12, <2>2, <2>3
       DEF TypeOK, EventArrives, taskVars, dbVars, registryVars
<1>13. QED
  BY <1>6, <1>7, <1>8, <1>10, <1>11, <1>12 DEF View

\* A step that changes nothing keeps the types.
LEMMA TypeOKStutters ==
  ASSUME TypeOK, UNCHANGED vars
  PROVE  TypeOK'
<1>1. /\ case' = case /\ log' = log /\ telling' = telling /\ registry' = registry /\ told' = told
      /\ batch' = batch /\ did' = did /\ channel' = channel
      /\ joining' = joining /\ watched' = watched /\ regWatch' = regWatch /\ page' = page
      /\ pageOpen' = pageOpen /\ isEnd' = isEnd /\ noOlder' = noOlder /\ stray' = stray
      /\ filling' = filling /\ stored' = stored /\ closed' = closed /\ request' = request
      /\ source' = source /\ stream' = stream /\ shown' = shown /\ seen' = seen /\ heard' = heard
      /\ dropped' = dropped /\ shifted' = shifted /\ early' = early /\ lost' = lost
  BY DEF vars, taskVars, dbVars, registryVars, viewVars, storeVars, missVars
<1>2. RowType' = RowType
  BY <1>1 DEF RowType
<1>3. QED
  BY <1>1, <1>2 DEF TypeOK

\* Every step keeps the types.
LEMMA TypeOKNext ==
  ASSUME TypeOK, [Next]_vars
  PROVE  TypeOK'
<1>1. CASE RunRecords \/ Task \/ OtherStarts \/ Registry \/ PageReads \/ PageLeaves
  BY <1>1, TypeOKTask
<1>2. CASE Server
  BY <1>2, TypeOKServer
<1>3. CASE View
  BY <1>3, TypeOKView
<1>4. CASE UNCHANGED vars
  BY <1>4, TypeOKStutters
<1>5. QED
  BY <1>1, <1>2, <1>3, <1>4 DEF Next

\* Every id is that of a record, and listings, window and channels keep their bounds.
THEOREM ViewTyped == Spec => []TypeOK
<1>1. Init => TypeOK
  BY TypeOKInit
<1>2. TypeOK /\ [Next]_vars => TypeOK'
  BY TypeOKNext
<1>3. QED
  BY <1>1, <1>2, PTL DEF Spec

-----------------------------------------------------------------------------
(* The log.                                                                *)

\* The place of a record of the run in its script grows with its id.
LEMMA PlacesGrow ==
  ASSUME TypeOK, LogInv, NEW i \in Sent, NEW j \in Sent
  PROVE  /\ Cardinality(Sent \cap 1..i) \in Nat
         /\ Cardinality(Sent \cap 1..i) < Cardinality(Sent \cap 1..j) => i < j
<1>1. Sent \in SUBSET (1..Len(log)) /\ Len(log) \in Nat /\ i \in Nat /\ j \in Nat
  BY RowsTyped DEF Sent
<1>2. Sent \cap 1..i \in SUBSET (1..Len(log)) /\ Sent \cap 1..j \in SUBSET (1..Len(log))
  BY <1>1
<1>3. /\ IsFiniteSet(Sent \cap 1..i) /\ Cardinality(Sent \cap 1..i) \in Nat
      /\ IsFiniteSet(Sent \cap 1..j) /\ Cardinality(Sent \cap 1..j) \in Nat
  BY <1>1, <1>2, OrderExists
<1>4. ASSUME j <= i
      PROVE  Cardinality(Sent \cap 1..j) <= Cardinality(Sent \cap 1..i)
  <2>1. Sent \cap 1..j \subseteq Sent \cap 1..i
    BY <1>1, <1>4
  <2>2. QED
    BY <1>3, <2>1, FS_Subset
<1>5. QED
  BY <1>1, <1>3, <1>4

\* What there is to know of the records: a page's filters agree on what events
\* append; a close comes after its span, and is told if the span may be shown.
LEMMA LogFacts ==
  ASSUME TypeOK, LogInv
  PROVE  /\ Len(log) \in Nat /\ DOMAIN log = 1..Len(log) /\ Sent \subseteq DOMAIN log
         /\ Sent \subseteq Nat /\ 0 \notin Sent
         /\ Sels \subseteq Finds /\ Finds \subseteq Sent /\ Lives \subseteq Sent
         /\ Appended \subseteq Sent /\ Noted \subseteq Sent /\ SelApps \subseteq Sels \cap Appended
         /\ Appended \cap Lives = Appended \cap Finds
         /\ \A i, c : <<i, c>> \in Ends =>
              /\ i \in Sent /\ c \in Sent /\ i < c /\ i \in Appended /\ c \notin Appended
              /\ i \in Finds => c \in Lives
         /\ Selected = Sels \cap stored
<1>1. /\ Len(log) \in Nat /\ DOMAIN log = 1..Len(log) /\ Sent \subseteq DOMAIN log
      /\ Sent \subseteq Nat /\ 0 \notin Sent
  BY RowsTyped DEF Sent
<1>2. case \in Cases /\ IsPageFilter(filter)
  BY CasesAssumption DEF TypeOK, filter
<1>3. Sels \subseteq Finds
  BY <1>2, SearchNarrows DEF Sels, Finds
<1>4. \A i \in Sent : IsRunRecord(log[i])
  <2>1. \A k \in DOMAIN case.script : IsRunRecord(case.script[k])
    BY <1>2, CasesAssumption
  <2>2. QED
    BY <2>1 DEF LogInv
<1>5. Appended \cap Lives = Appended \cap Finds
  <2>1. ASSUME NEW i \in Sent, Appends(i)
        PROVE  LiveSelects(filter, log[i]) <=> SqlSelects([filter EXCEPT !.search = {}], log[i])
    <3>1. log[i].kind \notin Changing
      BY <1>4, <2>1 DEF Appends, Changing
    <3>2. QED
      BY <1>2, <1>4, <3>1, FiltersOfPageAgree
  <2>2. QED
    BY <2>1 DEF Appended, Lives, Finds
<1>6. ASSUME NEW i \in Sent, NEW c \in Sent, log[i].kind = "SpanCreate", log[c].kind = "SpanClose",
             log[i].span_t_id = log[c].span_t_id
      PROVE  /\ i < c /\ Appends(i) /\ ~Appends(c)
             /\ i \in Finds => c \in Lives
  <2>1. PICK j \in DOMAIN case.script, k \in DOMAIN case.script :
          /\ j = Cardinality(Sent \cap 1..i) /\ log[i] = case.script[j]
          /\ k = Cardinality(Sent \cap 1..c) /\ log[c] = case.script[k]
    BY DEF LogInv
  <2>2. ClosesSpan(case.script, j, k)
    BY <1>2, <1>6, <2>1, CasesAssumption
  <2>3. i < c
    <3>1. Cardinality(Sent \cap 1..i) < Cardinality(Sent \cap 1..c)
      BY <2>1, <2>2 DEF ClosesSpan
    <3>2. QED
      BY <3>1, PlacesGrow
  <2>4. Appends(i) /\ ~Appends(c)
    BY <1>6 DEF Appends
  <2>5. ASSUME i \in Finds
        PROVE  c \in Lives
    <3>1. SqlSelects([filter EXCEPT !.search = {}], log[i])
      BY <2>5 DEF Finds
    <3>2. /\ log[i].run = log[c].run /\ log[i].level = log[c].level
          /\ log[i].parent_span_t_id = log[c].parent_span_t_id
      BY <2>1, <2>2 DEF ClosesSpan
    <3>3. LiveSelects(filter, log[c])
      BY <1>2, <1>4, <1>6, <3>1, <3>2, CloseIsTold
    <3>4. QED
      BY <3>3 DEF Lives
  <2>6. QED
    BY <2>3, <2>4, <2>5
<1>7. ASSUME NEW i, NEW c, <<i, c>> \in Ends
      PROVE  /\ i \in Sent /\ c \in Sent /\ i < c /\ i \in Appended /\ c \notin Appended
             /\ i \in Finds => c \in Lives
  <2>1. i \in Sent /\ c \in Sent /\ log[i].kind = "SpanCreate" /\ log[c].kind = "SpanClose"
        /\ log[i].span_t_id = log[c].span_t_id
    BY <1>7 DEF Ends, Closes
  <2>2. QED
    BY <1>6, <2>1 DEF Appended
<1>8. Selected = Sels \cap stored
  <2>1. \A i \in stored : i \in DOMAIN log
    BY DEF TypeOK
  <2>2. ~SqlSelects(filter, Start)
    BY <1>2, StartNotListed DEF filter
  <2>3. \A i \in stored : SqlSelects(filter, log[i]) => i \in Sent
    BY <2>1, <2>2 DEF Sent
  <2>4. QED
    BY <2>3 DEF Selected, Sels
<1>9. QED
  BY <1>1, <1>3, <1>5, <1>7, <1>8 DEF Finds, Lives, Appended, Noted, SelApps

\* No step but one of the run changes what its records are.
LogKept ==
  /\ Sent' = Sent /\ Sels' = Sels /\ Finds' = Finds /\ Lives' = Lives /\ Appended' = Appended
  /\ SelApps' = SelApps /\ Ends' = Ends

\* A step that records nothing leaves the log as it is.
LEMMA LogSame ==
  ASSUME log' = log, case' = case
  PROVE  LogKept /\ (LogInv => LogInv') /\ (closed' = closed => Noted' = Noted)
<1>1. Sent' = Sent
  BY DEF Sent
<1>2. Sels' = Sels /\ Finds' = Finds /\ Lives' = Lives
  BY <1>1 DEF Sels, Finds, Lives, filter
<1>3. Appended' = Appended
  BY <1>1 DEF Appended, Appends
<1>4. Ends' = Ends
  BY <1>1 DEF Ends, Closes
<1>5. SelApps' = SelApps
  BY <1>2, <1>3 DEF SelApps
<1>6. LogInv => LogInv'
  BY <1>1 DEF LogInv
<1>7. closed' = closed => Noted' = Noted
  BY <1>1 DEF Noted, Closes
<1>8. QED
  BY <1>1, <1>2, <1>3, <1>4, <1>5, <1>6, <1>7 DEF LogKept

\* Another application's start is no record of the run.
LEMMA LogOfOthers ==
  ASSUME TypeOK, LogInv, OtherStarts
  PROVE  LogKept /\ LogInv' /\ Noted' = Noted
<1>1. log' = Append(log, Start) /\ case' = case /\ closed' = closed
  BY DEF OtherStarts, dbVars
<1>2. log \in Seq(Recs)
  BY DEF TypeOK, Recs
<1>3. /\ \A i \in DOMAIN log' : i \in DOMAIN log \/ i = Len(log')
      /\ \A i \in DOMAIN log : log'[i] = log[i]
      /\ log'[Len(log')] = Start /\ DOMAIN log \subseteq DOMAIN log'
  BY <1>1, <1>2, LogGrows
<1>4. Sent' = Sent /\ \A i \in Sent : log'[i] = log[i]
  BY <1>3 DEF Sent
<1>5. Sels' = Sels /\ Finds' = Finds /\ Lives' = Lives
  BY <1>1, <1>4 DEF Sels, Finds, Lives, filter
<1>6. Appended' = Appended
  BY <1>4 DEF Appended, Appends
<1>7. Ends' = Ends
  BY <1>4 DEF Ends, Closes
<1>8. SelApps' = SelApps
  BY <1>5, <1>6 DEF SelApps
<1>9. LogInv'
  BY <1>1, <1>4 DEF LogInv
<1>10. Noted' = Noted
  BY <1>1, <1>4 DEF Noted, Closes
<1>11. QED
  BY <1>4, <1>5, <1>6, <1>7, <1>8, <1>9, <1>10 DEF LogKept

\* A record of the run comes after all others, and changes nothing of them.
LogMore(n) ==
  /\ n \in Nat \ {0} /\ n \notin DOMAIN log /\ (\A i \in DOMAIN log : i < n)
  /\ Sent' = Sent \cup {n}
  /\ Sels \subseteq Sels' /\ Sels' \subseteq Sels \cup {n}
  /\ Finds \subseteq Finds' /\ Finds' \subseteq Finds \cup {n}
  /\ Lives \subseteq Lives' /\ Lives' \subseteq Lives \cup {n}
  /\ Appended \subseteq Appended' /\ Appended' \subseteq Appended \cup {n}
  /\ SelApps \subseteq SelApps' /\ SelApps' \subseteq SelApps \cup {n}
  /\ Noted \subseteq Noted' /\ Noted' \subseteq Noted \cup {n}
  /\ \A i, c \in DOMAIN log : <<i, c>> \in Ends' => <<i, c>> \in Ends

\* A record of the run is the next of its script.
LEMMA LogOfRun ==
  ASSUME TypeOK, LogInv, RunRecords
  PROVE  LogInv' /\ LogMore(Len(log')) /\ channel' = Append(channel, Len(log'))
<1>1. Sent \in SUBSET (1..Len(log)) /\ Len(log) \in Nat
  BY RowsTyped DEF Sent
<1>2. PICK c \in Nat : c = Cardinality(Sent)
  BY <1>1, OrderExists
<1>3. /\ log' = Append(log, case.script[c + 1]) /\ case' = case /\ closed' = closed
      /\ channel' = Append(channel, Len(log')) /\ c < Len(case.script)
  BY <1>2 DEF RunRecords, dbVars
<1>4. case \in Cases /\ case.script \in Seq({case.script[i] : i \in DOMAIN case.script})
  BY CasesAssumption DEF TypeOK
<1>5. c + 1 \in DOMAIN case.script
  <2>1. DOMAIN case.script = 1..Len(case.script) /\ Len(case.script) \in Nat
    BY <1>4, LenProperties
  <2>2. QED
    BY <1>2, <1>3, <2>1
<1>6. case.script[c + 1] # Start
  <2>1. IsRunRecord(case.script[c + 1])
    BY <1>4, <1>5, CasesAssumption
  <2>2. QED
    BY <2>1, StartAssumption DEF IsRunRecord
<1>7. log \in Seq(Recs)
  BY DEF TypeOK, Recs
<1>8. PICK n \in Nat \ {0} :
        /\ n = Len(log') /\ n \notin DOMAIN log /\ (\A i \in DOMAIN log : i < n)
        /\ \A i \in DOMAIN log' : i \in DOMAIN log \/ i = n
        /\ \A i \in DOMAIN log : log'[i] = log[i]
        /\ log'[n] = case.script[c + 1] /\ DOMAIN log \subseteq DOMAIN log' /\ n \in DOMAIN log'
  <2>1. Len(log') = Len(log) + 1
    BY <1>3, <1>7, LogGrows
  <2>2. Len(log') \in Nat \ {0}
    BY <1>1, <2>1
  <2>3. QED
    BY <1>3, <1>7, <2>2, LogGrows
<1>9. Sent' = Sent \cup {n} /\ n \notin Sent /\ Sent \subseteq DOMAIN log
  BY <1>6, <1>8 DEF Sent
<1>10. \A i \in Sent : log'[i] = log[i] /\ i < n
  BY <1>8, <1>9
<1>11. LogInv'
  <2>1. ASSUME NEW i \in Sent
        PROVE  Sent' \cap 1..i = Sent \cap 1..i
    <3>1. n \notin 1..i
      BY <1>1, <1>8, <1>10
    <3>2. QED
      BY <1>9, <3>1
  <2>2. Sent' \cap 1..n = Sent \cup {n}
    <3>1. Sent \subseteq 1..n /\ n \in 1..n
      BY <1>1, <1>8, <1>10
    <3>2. QED
      BY <1>9, <3>1
  <2>3. Cardinality(Sent \cup {n}) = c + 1
    <3>1. IsFiniteSet(Sent)
      BY <1>1, OrderExists
    <3>2. QED
      BY <1>2, <1>9, <3>1, FS_AddElement
  <2>4. ASSUME NEW i \in Sent'
        PROVE  /\ Cardinality(Sent' \cap 1..i) \in DOMAIN case.script
               /\ log'[i] = case.script[Cardinality(Sent' \cap 1..i)]
    <3>1. CASE i \in Sent
      BY <1>10, <2>1, <3>1 DEF LogInv
    <3>2. CASE i = n
      BY <1>5, <1>8, <2>2, <2>3, <3>2
    <3>3. QED
      BY <1>9, <3>1, <3>2
  <2>5. QED
    BY <1>3, <2>4 DEF LogInv
<1>12. /\ Sels \subseteq Sels' /\ Sels' \subseteq Sels \cup {n}
       /\ Finds \subseteq Finds' /\ Finds' \subseteq Finds \cup {n}
       /\ Lives \subseteq Lives' /\ Lives' \subseteq Lives \cup {n}
  BY <1>3, <1>9, <1>10 DEF Sels, Finds, Lives, filter
<1>13. Appended \subseteq Appended' /\ Appended' \subseteq Appended \cup {n}
  BY <1>9, <1>10 DEF Appended, Appends
<1>14. SelApps \subseteq SelApps' /\ SelApps' \subseteq SelApps \cup {n}
  BY <1>12, <1>13 DEF SelApps
<1>15. Noted \subseteq Noted' /\ Noted' \subseteq Noted \cup {n}
  BY <1>3, <1>9, <1>10 DEF Noted, Closes
<1>16. ASSUME NEW i \in DOMAIN log, NEW e \in DOMAIN log, <<i, e>> \in Ends'
       PROVE  <<i, e>> \in Ends
  <2>1. i # n /\ e # n
    BY <1>8
  <2>2. i \in Sent' /\ e \in Sent' /\ log'[i].kind = "SpanCreate" /\ log'[e].kind = "SpanClose"
        /\ log'[i].span_t_id = log'[e].span_t_id
    BY <1>16 DEF Ends, Closes
  <2>3. i \in Sent /\ e \in Sent
    BY <1>9, <2>1, <2>2
  <2>4. QED
    BY <1>10, <2>2, <2>3 DEF Ends, Closes
<1>17. QED
  BY <1>3, <1>8, <1>9, <1>11, <1>12, <1>13, <1>14, <1>15, <1>16 DEF LogMore

\* What a step does to the log.
LEMMA LogNext ==
  ASSUME TypeOK, LogInv, [Next]_vars
  PROVE  /\ LogInv' /\ Noted \subseteq Noted'
         /\ LogKept \/ (RunRecords /\ LogMore(Len(log')))
<1>1. CASE RunRecords
  BY <1>1, LogOfRun DEF LogMore
<1>2. CASE OtherStarts
  BY <1>2, LogOfOthers
<1>3. ASSUME log' = log, case' = case, closed \subseteq closed'
      PROVE  LogInv' /\ Noted \subseteq Noted' /\ LogKept
  <2>1. LogInv' /\ LogKept
    BY <1>3, LogSame
  <2>2. Noted \subseteq Noted'
    BY <1>3, <2>1 DEF Noted, Closes, LogKept
  <2>3. QED
    BY <2>1, <2>2
<1>4. CASE Task
  <2>1. Receive \/ Swap \/ InsertRows \/ Notify => log' = log /\ case' = case /\ closed' = closed
    BY DEF Receive, Swap, InsertRows, Notify, dbVars
  <2>2. UpdateSpans => log' = log /\ case' = case /\ closed \subseteq closed'
    BY DEF UpdateSpans
  <2>3. QED
    BY <1>3, <1>4, <2>1, <2>2 DEF Task
<1>5. CASE Registry \/ PageReads \/ PageLeaves
  <2>1. log' = log /\ case' = case /\ closed' = closed
    BY <1>5 DEF Registry, HandleAppRun, TellPage, TellView, HandleAddRecordWatcher, PageReads,
                PageLeaves, dbVars
  <2>2. QED
    BY <1>3, <2>1
<1>6. CASE Server
  <2>1. log' = log /\ case' = case /\ closed' = closed
    BY <1>6 DEF Server, ServeList, ServeLookUp, SubscribeList, Subscribe, dbVars
  <2>2. QED
    BY <1>3, <2>1
<1>7. CASE View
  <2>1. log' = log /\ case' = case /\ closed' = closed
    BY <1>7 DEF View, FirstArrives, FetchMore, FetchOlder, MoreArrives, OlderArrives, EventArrives,
                dbVars
  <2>2. QED
    BY <1>3, <2>1
<1>8. CASE UNCHANGED vars
  BY <1>3, <1>8 DEF vars, dbVars
<1>9. QED
  BY <1>1, <1>2, <1>4, <1>5, <1>6, <1>7, <1>8 DEF Next

-----------------------------------------------------------------------------
(* The task.                                                               *)

\* What is in a sequence to which something is appended, and in its tail.
LEMMA IdsInAppend ==
  ASSUME NEW S, NEW s \in Seq(S), NEW x \in S
  PROVE  /\ IdsIn(Append(s, x)) = IdsIn(s) \cup {x}
         /\ Len(s) \in Nat /\ DOMAIN s = 1..Len(s) /\ DOMAIN Append(s, x) = 1..(Len(s) + 1)
         /\ \A k \in 1..Len(s) : Append(s, x)[k] = s[k]
         /\ Append(s, x)[Len(s) + 1] = x
<1>1. /\ Append(s, x) \in Seq(S) /\ Len(Append(s, x)) = Len(s) + 1 /\ Len(s) \in Nat
      /\ \A k \in 1..Len(s) : Append(s, x)[k] = s[k]
      /\ Append(s, x)[Len(s) + 1] = x
  BY AppendProperties, LenProperties
<1>2. DOMAIN Append(s, x) = 1..(Len(s) + 1) /\ DOMAIN s = 1..Len(s)
  BY <1>1, LenProperties
<1>3. \A k \in 1..(Len(s) + 1) : k \in 1..Len(s) \/ k = Len(s) + 1
  BY <1>1
<1>4. Len(s) + 1 \in 1..(Len(s) + 1) /\ \A k \in 1..Len(s) : k \in 1..(Len(s) + 1)
  BY <1>1
<1>5. IdsIn(Append(s, x)) = IdsIn(s) \cup {x}
  BY <1>1, <1>2, <1>3, <1>4 DEF IdsIn
<1>6. QED
  BY <1>1, <1>2, <1>5

\* What a sequence is without its first member.
LEMMA IdsInTail ==
  ASSUME NEW S, NEW s \in Seq(S), s # <<>>
  PROVE  /\ IdsIn(s) = {Head(s)} \cup IdsIn(Tail(s))
         /\ Head(s) \in S /\ Head(s) = s[1]
         /\ Len(s) \in Nat \ {0} /\ DOMAIN s = 1..Len(s) /\ DOMAIN Tail(s) = 1..(Len(s) - 1)
         /\ \A k \in 1..(Len(s) - 1) : Tail(s)[k] = s[k + 1] /\ k + 1 \in 1..Len(s)
<1>1. /\ Tail(s) \in Seq(S) /\ Len(Tail(s)) = Len(s) - 1 /\ Head(s) \in S
      /\ \A k \in 1..Len(Tail(s)) : Tail(s)[k] = s[k + 1]
  BY HeadTailProperties
<1>2. Len(s) \in Nat \ {0} /\ DOMAIN s = 1..Len(s)
  BY EmptySeq, LenProperties
<1>3. DOMAIN Tail(s) = 1..(Len(s) - 1)
  BY <1>1, LenProperties
<1>4. Head(s) = s[1] /\ 1 \in 1..Len(s)
  BY <1>2 DEF Head
<1>5. \A k \in 1..(Len(s) - 1) : Tail(s)[k] = s[k + 1] /\ k + 1 \in 1..Len(s)
  BY <1>1, <1>2
<1>6. ASSUME NEW k \in 1..Len(s)
      PROVE  s[k] \in {Head(s)} \cup IdsIn(Tail(s))
  <2>1. CASE k = 1
    BY <1>4, <2>1
  <2>2. CASE k # 1
    <3>1. k - 1 \in 1..(Len(s) - 1) /\ (k - 1) + 1 = k
      BY <1>2, <2>2
    <3>2. s[k] = Tail(s)[k - 1]
      BY <1>5, <3>1
    <3>3. QED
      BY <1>3, <3>1, <3>2 DEF IdsIn
  <2>3. QED
    BY <2>1, <2>2
<1>7. IdsIn(s) = {Head(s)} \cup IdsIn(Tail(s))
  <2>1. IdsIn(s) \subseteq {Head(s)} \cup IdsIn(Tail(s))
    BY <1>2, <1>6 DEF IdsIn
  <2>2. {Head(s)} \cup IdsIn(Tail(s)) \subseteq IdsIn(s)
    BY <1>2, <1>3, <1>4, <1>5 DEF IdsIn
  <2>3. QED
    BY <2>1, <2>2
<1>8. QED
  BY <1>1, <1>2, <1>3, <1>4, <1>5, <1>7

\* What is stored, and what is told, comes before what is not; when a batch is done
\* all but what is ahead is stored and told.
LEMMA TaskFacts ==
  ASSUME TypeOK, TaskInv
  PROVE  /\ \A i \in Sent \ stored, j \in stored \cap Sent : j < i
         /\ Untold \subseteq Sent
         /\ \A i \in Sent \ Untold, j \in Untold : i < j
         /\ BatchDone => Untold = Ahead /\ stored \cap Sent = Sent \ Ahead
<1>1. /\ Len(batch) \in Nat /\ DOMAIN batch = 1..Len(batch) /\ told \in 0..Len(batch)
      /\ \A k \in 1..Len(batch) : batch[k] \in InBatch
      /\ \A i \in InBatch : \E k \in 1..Len(batch) : batch[k] = i
  BY LenProperties, SMTT(20) DEF TypeOK, InBatch, IdsIn
<1>2. /\ InBatch \cup Ahead \subseteq Sent
      /\ \A i \in InBatch, j \in Ahead : i < j
      /\ \A i \in Old, j \in InBatch \cup Ahead : i < j
      /\ stored \cap Sent = Old \cup IF "insert" \in did THEN InBatch ELSE {}
      /\ \A j, k \in 1..Len(batch) : j < k => batch[j] < batch[k]
  BY <1>1 DEF TaskInv, Rising
<1>3. \A i \in Sent \ stored, j \in stored \cap Sent : j < i
  <2>1. \A i \in Sent : i \in Old \/ i \in InBatch \/ i \in Ahead
    BY DEF Old
  <2>2. CASE "insert" \in did
    BY <1>2, <2>1, <2>2
  <2>3. CASE "insert" \notin did
    BY <1>2, <2>1, <2>3
  <2>4. QED
    BY <2>2, <2>3
<1>4. \A k \in (told + 1)..Len(batch) : k \in 1..Len(batch)
  BY <1>1
<1>5. Untold \subseteq Sent
  BY <1>1, <1>2, <1>4 DEF Untold
<1>6. ASSUME NEW i \in Sent \ Untold, NEW j \in Untold
      PROVE  i < j
  <2>1. i \notin Ahead /\ (\A k \in (told + 1)..Len(batch) : batch[k] # i)
    BY DEF Untold
  <2>2. CASE i \in Old
    <3>1. j \in InBatch \cup Ahead
      BY <1>1, <1>4 DEF Untold
    <3>2. QED
      BY <1>2, <2>2, <3>1
  <2>3. CASE i \in InBatch
    <3>1. PICK k \in 1..Len(batch) : batch[k] = i
      BY <1>1, <2>3
    <3>2. k <= told
      BY <1>1, <2>1, <3>1
    <3>3. CASE j \in Ahead
      BY <1>2, <2>3, <3>3
    <3>4. CASE j \notin Ahead
      <4>1. PICK m \in (told + 1)..Len(batch) : batch[m] = j
        BY <3>4 DEF Untold
      <4>2. m \in 1..Len(batch) /\ k < m
        BY <1>1, <3>2, <4>1
      <4>3. QED
        BY <1>2, <3>1, <4>1, <4>2
    <3>5. QED
      BY <3>3, <3>4
  <2>4. QED
    BY <2>1, <2>2, <2>3 DEF Old
<1>7. ASSUME BatchDone
      PROVE  Untold = Ahead /\ stored \cap Sent = Sent \ Ahead
  <2>1. CASE batch = <<>>
    <3>1. Len(batch) = 0
      BY <2>1, EmptySeq
    <3>2. InBatch = {}
      BY <1>1, <3>1
    <3>3. {batch[k] : k \in (told + 1)..Len(batch)} = {}
      BY <1>1, <3>1
    <3>4. QED
      BY <1>2, <3>2, <3>3 DEF Untold, Old
  <2>2. CASE "insert" \in did /\ told = Len(batch)
    <3>1. {batch[k] : k \in (told + 1)..Len(batch)} = {}
      BY <1>1, <2>2
    <3>2. Old \cup InBatch = Sent \ Ahead
      <4>1. Sent \subseteq Nat
        BY RowsTyped DEF Sent
      <4>2. ASSUME NEW i \in InBatch, i \in Ahead
            PROVE  FALSE
        <5>1. i \in Nat /\ i < i
          BY <1>2, <4>1, <4>2
        <5>2. QED
          BY <5>1
      <4>3. QED
        BY <1>2, <4>2 DEF Old
    <3>3. QED
      BY <1>2, <2>2, <3>1, <3>2 DEF Untold
  <2>3. QED
    BY <1>7, <2>1, <2>2 DEF BatchDone
<1>8. QED
  BY <1>3, <1>5, <1>6, <1>7

\* What a step of the task's other parts leaves alone.
LEMMA TaskFrame ==
  ASSUME TaskInv, LogKept, UNCHANGED <<channel, filling, batch, did>>,
         stored' \cap Sent = stored \cap Sent
  PROVE  TaskInv'
<1>1. Sent' = Sent /\ Old' = Old /\ InBatch' = InBatch /\ Ahead' = Ahead
  BY DEF LogKept, Old, InBatch, Ahead
<1>2. QED
  BY <1>1 DEF TaskInv, Rising, IdsIn

\* A record goes to the end of the channel.
LEMMA TaskInvRecords ==
  ASSUME TypeOK, LogInv, TaskInv, RunRecords
  PROVE  TaskInv' /\ Untold' = Untold \cup {Len(log')}
<1>1. PICK n \in Nat \ {0} : /\ n = Len(log') /\ n \notin DOMAIN log
                                /\ (\A i \in DOMAIN log : i < n)
                       /\ Sent' = Sent \cup {n} /\ channel' = Append(channel, n)
  BY LogOfRun DEF LogMore
<1>2. UNCHANGED <<filling, batch, did, told, stored>>
  BY DEF RunRecords, dbVars
<1>3. channel \in Seq(DOMAIN log \cup {n, Watch}) /\ Sent \subseteq DOMAIN log /\ n # Watch
  <2>1. channel \in Seq(DOMAIN log \cup {Watch})
    BY DEF TypeOK
  <2>2. DOMAIN log \cup {Watch} \subseteq DOMAIN log \cup {n, Watch}
    OBVIOUS
  <2>3. QED
    BY <2>1, <2>2, SeqMonotonic DEF Sent, Watch
<1>4. /\ IdsIn(channel') = IdsIn(channel) \cup {n}
      /\ Len(channel) \in Nat /\ DOMAIN channel = 1..Len(channel)
      /\ DOMAIN channel' = 1..(Len(channel) + 1)
      /\ \A k \in 1..Len(channel) : channel'[k] = channel[k]
      /\ channel'[Len(channel) + 1] = n
  BY <1>1, <1>3, IdsInAppend
<1>5. Ahead' = Ahead \cup {n} /\ InBatch' = InBatch /\ Untold' = Untold \cup {n}
  BY <1>2, <1>3, <1>4 DEF Ahead, InBatch, Untold
<1>6. /\ InBatch \cup Ahead \subseteq Sent /\ Rising(batch) /\ Rising(filling)
      /\ \A j, k \in DOMAIN channel :
           j < k /\ channel[j] # Watch /\ channel[k] # Watch => channel[j] < channel[k]
      /\ \A i \in IdsIn(filling), j \in IdsIn(channel) \ {Watch} : i < j
      /\ \A i \in InBatch, j \in Ahead : i < j
      /\ \A i \in Old, j \in InBatch \cup Ahead : i < j
      /\ stored \cap Sent = Old \cup IF "insert" \in did THEN InBatch ELSE {}
      /\ stored \subseteq DOMAIN log
  BY DEF TaskInv, TypeOK
<1>7. Old' = Old
  BY <1>1, <1>3, <1>5, <1>6 DEF Old
<1>8. InBatch' \cup Ahead' \subseteq Sent'
  BY <1>1, <1>5, <1>6
<1>9. \A j, k \in DOMAIN channel' :
        j < k /\ channel'[j] # Watch /\ channel'[k] # Watch => channel'[j] < channel'[k]
  <2>1. SUFFICES ASSUME NEW j \in 1..(Len(channel) + 1), NEW k \in 1..(Len(channel) + 1),
                        j < k, channel'[j] # Watch, channel'[k] # Watch
                 PROVE  channel'[j] < channel'[k]
    BY <1>4
  <2>2. j \in 1..Len(channel)
    BY <1>4, <2>1
  <2>3. CASE k \in 1..Len(channel)
    BY <1>4, <1>6, <2>1, <2>2, <2>3
  <2>4. CASE k = Len(channel) + 1
    <3>1. channel[j] \in DOMAIN log
      BY <1>4, <2>1, <2>2, ElementOfSeq DEF TypeOK
    <3>2. QED
      BY <1>1, <1>4, <2>2, <2>4, <3>1
  <2>5. QED
    BY <1>4, <2>3, <2>4
<1>10. \A i \in IdsIn(filling), j \in IdsIn(channel') \ {Watch} : i < j
  <2>1. IdsIn(filling) \subseteq DOMAIN log
    BY <1>3, <1>6 DEF Ahead
  <2>2. QED
    BY <1>1, <1>4, <1>6, <2>1
<1>11. \A i \in InBatch, j \in Ahead' : i < j
  BY <1>1, <1>3, <1>5, <1>6
<1>12. \A i \in Old, j \in InBatch \cup Ahead' : i < j
  <2>1. Old \subseteq DOMAIN log
    BY <1>3 DEF Old
  <2>2. QED
    BY <1>1, <1>5, <1>6, <2>1
<1>13. stored' \cap Sent' = stored \cap Sent
  BY <1>1, <1>2, <1>6
<1>14. IdsIn(filling)' = IdsIn(filling) /\ Rising(batch)' /\ Rising(filling)'
  BY <1>2, <1>6 DEF IdsIn, Rising
<1>15. QED
  BY <1>1, <1>2, <1>5, <1>6, <1>7, <1>8, <1>9, <1>10, <1>11, <1>12, <1>13, <1>14 DEF TaskInv

\* The task takes what is first in the channel to the end of its buffer.
LEMMA TaskInvReceive ==
  ASSUME TypeOK, LogInv, TaskInv, Receive
  PROVE  TaskInv' /\ Untold' = Untold
<1>1. /\ channel # <<>> /\ channel' = Tail(channel) /\ LogKept
      /\ UNCHANGED <<batch, did, told, stored>>
  BY LogSame DEF Receive, dbVars
<1>2. PICK h : h = Head(channel)
  OBVIOUS
<1>3. /\ channel \in Seq(DOMAIN log \cup {Watch}) /\ filling \in Seq(DOMAIN log)
      /\ DOMAIN log \subseteq Nat /\ Watch \notin DOMAIN log
  BY RowsTyped DEF TypeOK
<1>4. /\ IdsIn(channel) = {h} \cup IdsIn(channel')
      /\ h \in DOMAIN log \cup {Watch} /\ h = channel[1]
      /\ Len(channel) \in Nat \ {0} /\ DOMAIN channel = 1..Len(channel)
      /\ DOMAIN channel' = 1..(Len(channel) - 1)
      /\ \A k \in 1..(Len(channel) - 1) : channel'[k] = channel[k + 1] /\ k + 1 \in 1..Len(channel)
  BY <1>1, <1>2, <1>3, IdsInTail
<1>5. /\ InBatch \cup Ahead \subseteq Sent /\ Rising(batch) /\ Rising(filling)
      /\ \A j, k \in 1..Len(channel) :
           j < k /\ channel[j] # Watch /\ channel[k] # Watch => channel[j] < channel[k]
      /\ \A i \in IdsIn(filling), j \in IdsIn(channel) \ {Watch} : i < j
      /\ \A i \in InBatch, j \in Ahead : i < j
      /\ \A i \in Old, j \in InBatch \cup Ahead : i < j
      /\ stored \cap Sent = Old \cup IF "insert" \in did THEN InBatch ELSE {}
  BY <1>4 DEF TaskInv
<1>6. Sent' = Sent /\ InBatch' = InBatch /\ Rising(batch)'
  BY <1>1, <1>5 DEF LogKept, InBatch, Rising, IdsIn
<1>7. \A j, k \in DOMAIN channel' :
        j < k /\ channel'[j] # Watch /\ channel'[k] # Watch => channel'[j] < channel'[k]
  <2>1. ASSUME NEW j \in 1..(Len(channel) - 1), NEW k \in 1..(Len(channel) - 1),
                        j < k, channel'[j] # Watch, channel'[k] # Watch
        PROVE  channel'[j] < channel'[k]
    <3>1. j + 1 < k + 1
      BY <1>4, <2>1
    <3>2. QED
      BY <1>4, <1>5, <2>1, <3>1
  <2>2. QED
    BY <1>4, <2>1
<1>8. CASE h = Watch
  <2>1. filling' = filling
    BY <1>2, <1>8 DEF Receive
  <2>2. Ahead' = Ahead /\ IdsIn(filling)' = IdsIn(filling) /\ Rising(filling)'
        /\ IdsIn(channel') \ {Watch} = IdsIn(channel) \ {Watch}
    <3>1. IdsIn(channel') \ {Watch} = IdsIn(channel) \ {Watch}
      BY <1>4, <1>8
    <3>2. QED
      BY <1>5, <2>1, <3>1 DEF Ahead, IdsIn, Rising
  <2>3. Old' = Old /\ Untold' = Untold
    BY <1>1, <1>6, <2>2 DEF Old, Untold
  <2>4. QED
    BY <1>1, <1>5, <1>6, <1>7, <2>2, <2>3 DEF TaskInv
<1>9. CASE h # Watch
  <2>1. filling' = Append(filling, h) /\ h \in DOMAIN log
    BY <1>2, <1>4, <1>9 DEF Receive
  <2>2. /\ IdsIn(filling') = IdsIn(filling) \cup {h}
        /\ Len(filling) \in Nat /\ DOMAIN filling = 1..Len(filling)
        /\ DOMAIN filling' = 1..(Len(filling) + 1)
        /\ \A k \in 1..Len(filling) : filling'[k] = filling[k]
        /\ filling'[Len(filling) + 1] = h
    BY <1>3, <2>1, IdsInAppend
  <2>3. Ahead' = Ahead
    BY <1>4, <1>9, <2>2 DEF Ahead
  <2>4. Old' = Old /\ Untold' = Untold
    BY <1>1, <1>6, <2>3 DEF Old, Untold
  <2>5. \A i \in IdsIn(filling) : i < h
    BY <1>4, <1>5, <1>9
  <2>6. Rising(filling')
    <3>1. ASSUME NEW j \in 1..(Len(filling) + 1), NEW k \in 1..(Len(filling) + 1), j < k
          PROVE  filling'[j] < filling'[k]
      <4>1. j \in 1..Len(filling)
        BY <2>2, <3>1
      <4>2. CASE k \in 1..Len(filling)
        BY <1>5, <2>2, <3>1, <4>1, <4>2 DEF Rising
      <4>3. CASE k = Len(filling) + 1
        BY <2>2, <2>5, <4>1, <4>3 DEF IdsIn
      <4>4. QED
        BY <2>2, <4>2, <4>3
    <3>2. QED
      BY <2>2, <3>1 DEF Rising
  <2>7. \A j \in IdsIn(channel') \ {Watch} : h < j
    <3>1. ASSUME NEW k \in 1..(Len(channel) - 1), channel'[k] # Watch
          PROVE  h < channel'[k]
      <4>1. 1 < k + 1 /\ k + 1 \in 1..Len(channel) /\ 1 \in 1..Len(channel)
        BY <1>4
      <4>2. QED
        BY <1>4, <1>5, <1>9, <3>1, <4>1
    <3>2. QED
      BY <1>4, <3>1 DEF IdsIn
  <2>8. \A i \in IdsIn(filling'), j \in IdsIn(channel') \ {Watch} : i < j
    BY <1>4, <1>5, <2>2, <2>7
  <2>9. QED
    BY <1>1, <1>5, <1>6, <1>7, <2>3, <2>4, <2>6, <2>8 DEF TaskInv, IdsIn, Rising
<1>10. QED
  BY <1>8, <1>9

\* The batch that is done goes, and the buffer is the next.
LEMMA TaskInvSwap ==
  ASSUME TypeOK, LogInv, TaskInv, Swap
  PROVE  /\ TaskInv' /\ Untold' = Untold /\ Untold = Ahead /\ stored' = stored
         /\ stored \cap Sent = Sent \ Untold
<1>1. /\ BatchDone /\ batch' = filling /\ filling' = <<>> /\ did' = {} /\ told' = 0
      /\ channel' = channel /\ stored' = stored /\ LogKept
  BY LogSame DEF Swap, dbVars
<1>2. Untold = Ahead /\ stored \cap Sent = Sent \ Ahead
  BY <1>1, TaskFacts
<1>3. /\ InBatch \cup Ahead \subseteq Sent /\ Rising(batch) /\ Rising(filling)
      /\ \A j, k \in DOMAIN channel :
           j < k /\ channel[j] # Watch /\ channel[k] # Watch => channel[j] < channel[k]
      /\ \A i \in IdsIn(filling), j \in IdsIn(channel) \ {Watch} : i < j
      /\ \A i \in InBatch, j \in Ahead : i < j
      /\ \A i \in Old, j \in InBatch \cup Ahead : i < j
  BY DEF TaskInv
<1>4. InBatch' = IdsIn(filling) /\ Ahead' = IdsIn(channel) \ {Watch} /\ IdsIn(filling') = {}
  BY <1>1 DEF InBatch, Ahead, IdsIn
<1>5. InBatch' \cup Ahead' = Ahead
  BY <1>4 DEF Ahead
<1>6. Sent' = Sent /\ Old' = Sent \ Ahead
  BY <1>1, <1>5 DEF LogKept, Old
<1>7. Untold' = Ahead
  <2>1. Len(batch') \in Nat /\ DOMAIN batch' = 1..Len(batch')
    BY <1>1, LenProperties DEF TypeOK
  <2>2. {batch'[k] : k \in (told' + 1)..Len(batch')} = InBatch'
    BY <1>1, <2>1 DEF InBatch, IdsIn
  <2>3. QED
    BY <1>5, <2>2 DEF Untold
<1>8. \A i \in Sent \ Ahead, j \in Ahead : i < j
  BY <1>2, TaskFacts
<1>9. Rising(batch') /\ Rising(filling')
  BY <1>1, <1>3 DEF Rising
<1>10. stored' \cap Sent' = Old' \cup IF "insert" \in did' THEN InBatch' ELSE {}
  BY <1>1, <1>2, <1>6
<1>11. TaskInv'
  BY <1>1, <1>3, <1>4, <1>5, <1>6, <1>8, <1>9, <1>10 DEF TaskInv, IdsIn
<1>12. QED
  BY <1>1, <1>2, <1>7, <1>11

\* Every step keeps the run's records in their order.
LEMMA TaskInvNext ==
  ASSUME TypeOK, LogInv, TaskInv, PhaseInv, [Next]_vars
  PROVE  TaskInv'
<1>1. CASE RunRecords
  BY <1>1, TaskInvRecords
<1>2. CASE Receive
  BY <1>2, TaskInvReceive
<1>3. CASE Swap
  BY <1>3, TaskInvSwap
<1>4. CASE InsertRows
  <2>1. /\ did' = did \cup {"insert"} /\ stored' = stored \cup InBatch /\ "insert" \notin did
        /\ UNCHANGED <<channel, filling, batch>> /\ LogKept
    BY <1>4, LogSame DEF InsertRows, InBatch, IdsIn
  <2>2. Sent' = Sent /\ Old' = Old /\ InBatch' = InBatch /\ Ahead' = Ahead /\ InBatch \subseteq Sent
    BY <2>1 DEF LogKept, Old, InBatch, Ahead, TaskInv
  <2>3. stored' \cap Sent' = Old' \cup IF "insert" \in did' THEN InBatch' ELSE {}
    BY <2>1, <2>2 DEF TaskInv
  <2>4. QED
    BY <2>1, <2>2, <2>3 DEF TaskInv, Rising, IdsIn
<1>5. CASE UpdateSpans
  <2>1. /\ did' = did \cup {"update"} /\ UNCHANGED <<channel, filling, batch, stored>> /\ LogKept
    BY <1>5, LogSame DEF UpdateSpans
  <2>2. Sent' = Sent /\ Old' = Old /\ InBatch' = InBatch /\ Ahead' = Ahead
    BY <2>1 DEF LogKept, Old, InBatch, Ahead
  <2>3. "insert" \in did' <=> "insert" \in did
    BY <2>1
  <2>4. QED
    BY <2>1, <2>2, <2>3 DEF TaskInv, Rising, IdsIn
<1>6. CASE HandleAppRun
  <2>1. Head(registry) \in IdsIn(registry)
    <3>1. registry # <<>> /\ registry \in Seq(DOMAIN log \cup {Watch})
      BY <1>6 DEF HandleAppRun, TypeOK
    <3>2. QED
      BY <3>1, IdsInTail
  <2>2. /\ UNCHANGED <<channel, filling, batch, did>> /\ LogKept
        /\ stored' = stored \cup {Head(registry)}
    BY <1>6, LogSame DEF HandleAppRun, taskVars
  <2>3. Head(registry) \notin Sent
    BY <2>1 DEF PhaseInv
  <2>4. QED
    BY <2>2, <2>3, TaskFrame
<1>7. CASE HandleAddRecordWatcher
  <2>1. /\ UNCHANGED <<filling, batch, did, stored>> /\ LogKept /\ channel' = Append(channel, Watch)
    BY <1>7, LogSame DEF HandleAddRecordWatcher, dbVars
  <2>2. channel \in Seq(DOMAIN log \cup {Watch}) /\ Watch \in DOMAIN log \cup {Watch}
    BY DEF TypeOK
  <2>3. /\ IdsIn(channel') = IdsIn(channel) \cup {Watch}
        /\ Len(channel) \in Nat /\ DOMAIN channel = 1..Len(channel)
        /\ DOMAIN channel' = 1..(Len(channel) + 1)
        /\ \A k \in 1..Len(channel) : channel'[k] = channel[k]
        /\ channel'[Len(channel) + 1] = Watch
    BY <2>1, <2>2, IdsInAppend
  <2>4. IdsIn(channel') \ {Watch} = IdsIn(channel) \ {Watch}
    BY <2>3
  <2>5. Sent' = Sent /\ InBatch' = InBatch /\ Ahead' = Ahead /\ Old' = Old
    BY <2>1, <2>4 DEF LogKept, Old, InBatch, Ahead
  <2>6. \A j, k \in DOMAIN channel' :
          j < k /\ channel'[j] # Watch /\ channel'[k] # Watch => channel'[j] < channel'[k]
    <3>1. \A k \in DOMAIN channel' : channel'[k] # Watch => k \in DOMAIN channel
          /\ channel'[k] = channel[k]
      BY <2>3
    <3>2. QED
      BY <3>1 DEF TaskInv
  <2>7. QED
    BY <2>1, <2>4, <2>5, <2>6 DEF TaskInv, Rising, IdsIn
<1>8. ASSUME LogKept, UNCHANGED <<channel, filling, batch, did, stored>>
      PROVE  TaskInv'
  BY <1>8, TaskFrame DEF LogKept
<1>9. CASE OtherStarts
  BY <1>8, <1>9, LogOfOthers DEF OtherStarts, taskVars, dbVars
<1>10. CASE Notify \/ TellPage \/ TellView \/ PageReads \/ PageLeaves
  <2>1. log' = log /\ case' = case /\ UNCHANGED <<channel, filling, batch, did, stored>>
    BY <1>10 DEF Notify, TellPage, TellView, PageReads, PageLeaves, taskVars, dbVars
  <2>2. QED
    BY <1>8, <2>1, LogSame
<1>11. CASE Server
  <2>1. log' = log /\ case' = case /\ UNCHANGED <<channel, filling, batch, did, stored>>
    BY <1>11 DEF Server, ServeList, ServeLookUp, SubscribeList, Subscribe, taskVars, dbVars
  <2>2. QED
    BY <1>8, <2>1, LogSame
<1>12. CASE View
  <2>1. log' = log /\ case' = case /\ UNCHANGED <<channel, filling, batch, did, stored>>
    BY <1>12 DEF View, FirstArrives, FetchMore, FetchOlder, MoreArrives, OlderArrives, EventArrives,
                 taskVars, dbVars
  <2>2. QED
    BY <1>8, <2>1, LogSame
<1>13. CASE UNCHANGED vars
  <2>1. log' = log /\ case' = case /\ UNCHANGED <<channel, filling, batch, did, stored>>
    BY <1>13 DEF vars, taskVars, dbVars
  <2>2. QED
    BY <1>8, <2>1, LogSame
<1>14. QED
  BY <1>1, <1>2, <1>3, <1>4, <1>5, <1>6, <1>7, <1>9, <1>10, <1>11, <1>12, <1>13
     DEF Next, Task, Registry

-----------------------------------------------------------------------------
(* What the view shows after a step.                                       *)

\* An event that appends: the window moves by one row at most.
LEMMA EventShown ==
  ASSUME TypeOK, NEW e \in [id : DOMAIN log, ended : BOOLEAN], EventAppends(e), isEnd
  PROVE  \E d \in {0, 1} :
           /\ Len(shown') = Len(shown) + 1 - d /\ Len(shown) \in Nat
           /\ DOMAIN shown = 1..Len(shown) /\ DOMAIN shown' = 1..(Len(shown) + 1 - d)
           /\ \A k \in 1..(Len(shown) - d) : shown'[k] = shown[k + d] /\ k + d \in 1..Len(shown)
           /\ shown'[Len(shown) + 1 - d] = e
           /\ d = 1 => Len(shown) >= 2 /\ ~noOlder' /\ shifted' = shifted \cup {shown[1].id}
           /\ d = 0 => noOlder' = noOlder /\ shifted' = shifted
           /\ IdsOf(shown') \subseteq IdsOf(shown) \cup {e.id}
           /\ stray' = (stray \/ log[e.id] = Start) /\ dropped' = dropped
<1>1. PICK all : all = Append(shown, e)
  OBVIOUS
<1>2. /\ shown' = LastRows(all) /\ noOlder' = NoOlderThan(all)
      /\ shifted' = shifted \cup IdsOf(SubSeq(all, 1, Len(all) - Window))
      /\ stray' = (stray \/ log[e.id] = Start) /\ dropped' = dropped
  BY <1>1 DEF EventAppends
<1>3. /\ shown \in Seq([id : DOMAIN log, ended : BOOLEAN]) /\ Len(shown) <= Window
      /\ noOlder \in BOOLEAN
  BY RowsTyped DEF TypeOK
<1>4. /\ all \in Seq([id : DOMAIN log, ended : BOOLEAN])
      /\ Len(all) = Len(shown) + 1 /\ Len(shown) \in Nat
      /\ \A k \in 1..Len(shown) : all[k] = shown[k]
      /\ all[Len(shown) + 1] = e
      /\ IdsOf(all) = IdsOf(shown) \cup {e.id}
      /\ DOMAIN shown = 1..Len(shown)
  BY <1>1, <1>3, IdsOfAppend, LenProperties
<1>5. PICK d \in Nat :
        /\ d = IF Len(all) > Window THEN Len(all) - Window ELSE 0
        /\ Len(shown') = Len(all) - d
        /\ \A k \in 1..(Len(all) - d) : shown'[k] = all[k + d]
        /\ shown' \in Seq([id : DOMAIN log, ended : BOOLEAN]) /\ IdsOf(shown') \subseteq IdsOf(all)
  BY <1>2, <1>4, LastRowsIs
<1>6. Window \in Nat /\ Window >= 2
  BY WindowIs
<1>7. /\ d \in {0, 1} /\ Len(shown') = Len(shown) + 1 - d
      /\ d = 1 => Len(all) - Window = 1 /\ Len(shown) >= 2 /\ Len(all) > Window
      /\ d = 0 => Len(all) <= Window
  BY <1>3, <1>4, <1>5, <1>6
<1>8. DOMAIN shown' = 1..(Len(shown) + 1 - d)
  BY <1>5, <1>7, LenProperties
<1>9. ASSUME NEW k \in 1..(Len(shown) - d)
      PROVE  shown'[k] = shown[k + d] /\ k + d \in 1..Len(shown)
  <2>1. k + d \in 1..Len(shown) /\ k \in 1..(Len(all) - d)
    BY <1>4, <1>7
  <2>2. QED
    BY <1>4, <1>5, <2>1
<1>10. shown'[Len(shown) + 1 - d] = e
  <2>1. Len(shown) + 1 - d \in 1..(Len(all) - d) /\ Len(shown) + 1 - d + d = Len(shown) + 1
    BY <1>4, <1>7
  <2>2. QED
    BY <1>4, <1>5, <2>1
<1>11. ASSUME d = 1
       PROVE  ~noOlder' /\ shifted' = shifted \cup {shown[1].id}
  <2>1. ~noOlder'
    <3>1. noOlder' = (noOlder /\ Len(all) <= Window)
      BY <1>2 DEF NoOlderThan
    <3>2. ~(Len(all) <= Window)
      BY <1>4, <1>6, <1>7, <1>11
    <3>3. QED
      BY <3>1, <3>2
  <2>2. /\ SubSeq(all, 1, 1) \in Seq([id : DOMAIN log, ended : BOOLEAN])
        /\ Len(SubSeq(all, 1, 1)) = 1 /\ SubSeq(all, 1, 1)[1] = all[1]
    <3>1. 1 \in 1..Len(all)
      BY <1>4
    <3>2. all[1] \in [id : DOMAIN log, ended : BOOLEAN]
      BY <1>4, <3>1, RowsAre
    <3>3. \A k \in 1..1 : all[k] \in [id : DOMAIN log, ended : BOOLEAN]
      BY <3>2
    <3>4. QED
      BY <3>3, SubSeqProperties
  <2>3. DOMAIN SubSeq(all, 1, 1) = {1}
    BY <2>2, LenProperties
  <2>4. IdsOf(SubSeq(all, 1, 1)) = {all[1].id}
    BY <2>2, <2>3 DEF IdsOf
  <2>5. all[1] = shown[1]
    BY <1>4, <1>7, <1>11
  <2>6. QED
    BY <1>2, <1>7, <1>11, <2>1, <2>4, <2>5
<1>12. ASSUME d = 0
       PROVE  noOlder' = noOlder /\ shifted' = shifted
  <2>1. noOlder' = noOlder
    <3>1. noOlder' = (noOlder /\ Len(all) <= Window)
      BY <1>2 DEF NoOlderThan
    <3>2. Len(all) <= Window
      BY <1>7, <1>12
    <3>3. QED
      BY <1>3, <3>1, <3>2, Zenon
  <2>2. SubSeq(all, 1, Len(all) - Window) = <<>>
    <3>1. Len(all) - Window < 1 /\ Len(all) - Window \in Int
      BY <1>4, <1>6, <1>7, <1>12
    <3>2. QED
      BY <3>1, SubSeqEmpty
  <2>3. QED
    BY <1>2, <2>1, <2>2, NoRows
<1>13. QED
  BY <1>2, <1>4, <1>5, <1>7, <1>8, <1>9, <1>10, <1>11, <1>12

\* An event that changes: the rows stay, and those of the span that closes end.
LEMMA ChangeShown ==
  ASSUME TypeOK, NEW e \in [id : DOMAIN log, ended : BOOLEAN], EventChanges(e)
  PROVE  /\ Len(shown') = Len(shown) /\ DOMAIN shown' = DOMAIN shown
         /\ shown' = <<>> <=> shown = <<>>
         /\ IdsOf(shown') = IdsOf(shown)
         /\ \A k \in DOMAIN shown :
              /\ shown'[k].id = shown[k].id
              /\ shown'[k].ended <=> shown[k].ended \/ <<shown[k].id, e.id>> \in Ends
         /\ UNCHANGED <<noOlder, dropped, shifted, stray>>
<1>1. /\ UNCHANGED <<noOlder, dropped, shifted, stray>>
      /\ shown' = [k \in DOMAIN shown |->
           [shown[k] EXCEPT !.ended = @ \/ (/\ Closes(e.id)
                                            /\ log[shown[k].id].kind = "SpanCreate"
                                            /\ log[shown[k].id].span_t_id = log[e.id].span_t_id)]]
  BY DEF EventChanges
<1>2. /\ Len(shown) \in Nat /\ DOMAIN shown = 1..Len(shown)
      /\ \A k \in 1..Len(shown) : shown[k] \in [id : DOMAIN log, ended : BOOLEAN]
  BY RowsTyped, LenProperties, ElementOfSeq
<1>3. ASSUME NEW k \in DOMAIN shown
      PROVE  /\ shown'[k] \in [id : DOMAIN log, ended : BOOLEAN] /\ shown'[k].id = shown[k].id
             /\ shown'[k].ended <=> shown[k].ended \/ <<shown[k].id, e.id>> \in Ends
  <2>1. /\ shown'[k].id = shown[k].id
        /\ shown'[k].ended = (shown[k].ended \/ (/\ Closes(e.id)
                                               /\ log[shown[k].id].kind = "SpanCreate"
                                               /\ log[shown[k].id].span_t_id = log[e.id].span_t_id))
        /\ shown'[k] \in [id : DOMAIN log, ended : BOOLEAN]
    BY <1>1, <1>2
  <2>2. ASSUME NEW i \in DOMAIN log, log[i].kind \in {"SpanCreate", "SpanClose"}
        PROVE  i \in Sent
    BY <2>2, StartAssumption DEF Sent
  <2>3. (/\ Closes(e.id) /\ log[shown[k].id].kind = "SpanCreate"
         /\ log[shown[k].id].span_t_id = log[e.id].span_t_id) <=> <<shown[k].id, e.id>> \in Ends
    <3>1. shown[k].id \in DOMAIN log /\ e.id \in DOMAIN log
      BY <1>2
    <3>2. QED
      BY <2>2, <3>1 DEF Ends, Closes
  <2>4. QED
    BY <2>1, <2>3
<1>4. DOMAIN shown' = DOMAIN shown
  BY <1>1
<1>5. shown' \in Seq([id : DOMAIN log, ended : BOOLEAN]) /\ Len(shown') = Len(shown)
  <2>1. ASSUME NEW k \in 1..Len(shown)
        PROVE  shown'[k] \in [id : DOMAIN log, ended : BOOLEAN]
    BY <1>2, <1>3
  <2>2. QED
    BY <1>1, <1>2, <2>1
<1>6. shown' = <<>> <=> shown = <<>>
  BY <1>5, RowsTyped, EmptySeq
<1>7. IdsOf(shown') = IdsOf(shown)
  BY <1>3, <1>4 DEF IdsOf
<1>8. QED
  BY <1>1, <1>3, <1>4, <1>5, <1>6, <1>7

\* The first listing.
LEMMA FirstShown ==
  ASSUME TypeOK, FirstArrives
  PROVE  \E d \in {0, 1} :
           /\ d = 1 <=> Full
           /\ Len(Rows) \in Nat /\ DOMAIN Rows = 1..Len(Rows)
           /\ Len(shown') = Len(Rows) - d /\ Len(shown') \in Nat
           /\ DOMAIN shown' = 1..(Len(Rows) - d)
           /\ \A k \in 1..(Len(Rows) - d) : shown'[k] = Rows[k + d] /\ k + d \in 1..Len(Rows)
           /\ IdsOf(shown') \subseteq Listed
           /\ noOlder' = ~Full
           /\ shown' = <<>> => Rows = <<>> /\ ~Full
           /\ shown' # <<>> => /\ source'.cursor = shown'[Len(shown')].id
                               /\ shown'[Len(shown')] = Rows[Len(Rows)]
                               /\ Len(shown') \in 1..Len(shown') /\ Len(Rows) \in 1..Len(Rows)
           /\ shown' = <<>> => source'.cursor = 0
           /\ source'.at = "list" /\ source'.rows = source.rows
<1>1. PICK rows : /\ rows = IF Len(request.rows) = Count + 1 THEN Tail(request.rows)
                     ELSE request.rows
                  /\ shown' = rows
                  /\ source' = [source EXCEPT !.at = "list",
                                  !.cursor = IF rows = <<>> THEN 0 ELSE rows[Len(rows)].id]
                  /\ noOlder' = ~(Len(request.rows) = Count + 1)
  BY DEF FirstArrives
<1>2. /\ Rows \in Seq([id : DOMAIN log, ended : BOOLEAN]) /\ Count \in Nat \ {0}
      /\ source \in [at : {"no", "list", "look", "open"}, cursor : {0} \cup DOMAIN log,
                     rows : Seq(RowType)]
  BY RowsTyped, CountAssumption DEF Rows, TypeOK
<1>3. Len(Rows) \in Nat /\ DOMAIN Rows = 1..Len(Rows)
  BY <1>2, LenProperties
<1>4. PICK d \in {0, 1} :
        /\ d = 1 <=> Full
        /\ rows \in Seq([id : DOMAIN log, ended : BOOLEAN]) /\ Len(rows) = Len(Rows) - d
        /\ Len(rows) \in Nat
        /\ \A k \in 1..(Len(Rows) - d) : rows[k] = Rows[k + d] /\ k + d \in 1..Len(Rows)
        /\ IdsOf(rows) \subseteq Listed
  <2>1. CASE Full
    <3>1. /\ rows \in Seq([id : DOMAIN log, ended : BOOLEAN]) /\ Len(rows) = Count
          /\ \A k \in 1..Count : rows[k] = Rows[k + 1]
          /\ IdsOf(rows) \subseteq Listed /\ Len(Rows) = Count + 1
      BY <1>1, <2>1, ArrivalTyped DEF Full, Rows, Listed
    <3>2. Len(Rows) - 1 = Count /\ \A k \in 1..Count : k + 1 \in 1..Len(Rows)
      BY <1>2, <3>1
    <3>3. QED
      BY <1>2, <2>1, <3>1, <3>2
  <2>2. CASE ~Full
    <3>1. rows = Rows /\ IdsOf(rows) \subseteq Listed
      BY <1>1, <2>2 DEF Full, Rows, Listed
    <3>2. Len(Rows) - 0 = Len(Rows) /\ \A k \in 1..Len(Rows) : k + 0 = k
      BY <1>3
    <3>3. /\ 0 = 1 <=> Full
          /\ rows \in Seq([id : DOMAIN log, ended : BOOLEAN]) /\ Len(rows) = Len(Rows) - 0
          /\ Len(rows) \in Nat
          /\ \A k \in 1..(Len(Rows) - 0) : rows[k] = Rows[k + 0] /\ k + 0 \in 1..Len(Rows)
          /\ IdsOf(rows) \subseteq Listed
      BY <1>2, <1>3, <2>2, <3>1, <3>2
    <3>4. QED
      BY <3>3
  <2>3. QED
    BY <2>1, <2>2
<1>5. DOMAIN rows = 1..(Len(Rows) - d)
  BY <1>4, LenProperties
<1>6. rows = <<>> => Rows = <<>> /\ ~Full
  <2>1. ASSUME rows = <<>>
        PROVE  Rows = <<>> /\ ~Full
    <3>1. Len(rows) = 0
      BY <2>1, EmptySeq
    <3>2. ~Full
      <4>1. Full => Len(Rows) = Count + 1 /\ d = 1
        BY <1>4 DEF Full
      <4>2. QED
        BY <1>2, <1>4, <3>1, <4>1
    <3>3. Len(Rows) = 0
      BY <1>3, <1>4, <3>1, <3>2
    <3>4. QED
      BY <1>2, <3>2, <3>3, EmptySeq
  <2>2. QED
    BY <2>1
<1>7. rows # <<>> => /\ Len(rows) \in 1..Len(rows) /\ rows[Len(rows)] = Rows[Len(Rows)]
                     /\ Len(Rows) \in 1..Len(Rows)
  <2>1. ASSUME rows # <<>>
        PROVE  /\ Len(rows) \in 1..Len(rows) /\ rows[Len(rows)] = Rows[Len(Rows)]
               /\ Len(Rows) \in 1..Len(Rows)
    <3>1. Len(rows) \in 1..Len(rows)
      BY <1>4, <2>1, RowsAre
    <3>2. Len(rows) \in 1..(Len(Rows) - d) /\ Len(rows) + d = Len(Rows)
      BY <1>3, <1>4, <3>1
    <3>3. QED
      BY <1>3, <1>4, <3>1, <3>2
  <2>2. QED
    BY <2>1
<1>8. source'.at = "list" /\ source'.rows = source.rows
      /\ source'.cursor = IF rows = <<>> THEN 0 ELSE rows[Len(rows)].id
  BY <1>1, <1>2
<1>9. noOlder' = ~Full
  BY <1>1 DEF Full, Rows
<1>10. QED
  BY <1>1, <1>3, <1>4, <1>5, <1>6, <1>7, <1>8, <1>9, ZenonT(30)

\* More records: the window moves, and keeps a row of those it had.
LEMMA MoreShown ==
  ASSUME TypeOK, MoreArrives, shown # <<>>
  PROVE  \E c \in Nat, d \in Nat :
           /\ Len(Rows) \in Nat /\ c <= Len(Rows) /\ (~Full => c = Len(Rows))
           /\ Len(shown) \in Nat /\ d < Len(shown)
           /\ DOMAIN shown = 1..Len(shown) /\ DOMAIN Rows = 1..Len(Rows)
           /\ Len(shown') = Len(shown) - d + c /\ DOMAIN shown' = 1..(Len(shown) - d + c)
           /\ \A k \in 1..(Len(shown) - d) : shown'[k] = shown[k + d] /\ k + d \in 1..Len(shown)
           /\ \A k \in 1..c : shown'[Len(shown) - d + k] = Rows[k] /\ k \in 1..Len(Rows)
           /\ noOlder' => noOlder /\ d = 0
           /\ isEnd' = ~Full
           /\ early' = early \cup ({Rows[k].id : k \in 1..c} \ heard)
           /\ {Rows[k].id : k \in 1..c} \subseteq Listed
           /\ lost \subseteq lost'
           /\ \A k \in 1..c : ~Rows[k].ended =>
                \A x \in heard : <<Rows[k].id, x>> \in Ends => x \in lost'
           /\ ~Full => dropped \subseteq lost' \cup IdsOf(shown) \cup {Rows[k].id : k \in 1..c}
           /\ \A i \in IdsOf(shown') : i \in IdsOf(shown) \/ i \in {Rows[k].id : k \in 1..c}
<1>1. PICK rows, all :
        /\ rows = IF Len(request.rows) = Count + 1 THEN SubSeq(request.rows, 1, Count)
           ELSE request.rows
        /\ all = shown \o rows
        /\ shown' = LastRows(all) /\ noOlder' = NoOlderThan(all)
        /\ isEnd' = ~(Len(request.rows) = Count + 1)
        /\ early' = early \cup (IdsOf(rows) \ heard)
        /\ lost' = lost \cup StaleCloses(rows)
                        \cup (IF Len(request.rows) = Count + 1 THEN {} ELSE dropped \ IdsOf(all))
  BY DEF MoreArrives
<1>2. /\ Rows \in Seq([id : DOMAIN log, ended : BOOLEAN]) /\ Count \in Nat \ {0}
      /\ shown \in Seq([id : DOMAIN log, ended : BOOLEAN]) /\ Len(shown) <= Window
      /\ Len(Rows) <= Count + 1 /\ heard \subseteq DOMAIN log
  BY RowsTyped, CountAssumption DEF Rows, TypeOK
<1>3. /\ Len(Rows) \in Nat /\ DOMAIN Rows = 1..Len(Rows)
      /\ Len(shown) \in Nat \ {0} /\ DOMAIN shown = 1..Len(shown)
  BY <1>2, LenProperties, EmptySeq
<1>4. PICK c \in Nat :
        /\ rows \in Seq([id : DOMAIN log, ended : BOOLEAN]) /\ Len(rows) = c
        /\ c <= Len(Rows) /\ (~Full => c = Len(Rows)) /\ c <= Count
        /\ \A k \in 1..c : rows[k] = Rows[k] /\ k \in 1..Len(Rows)
        /\ IdsOf(rows) \subseteq Listed
  <2>1. CASE Full
    <3>1. /\ rows \in Seq([id : DOMAIN log, ended : BOOLEAN]) /\ Len(rows) = Count
          /\ \A k \in 1..Count : rows[k] = Rows[k]
          /\ IdsOf(rows) \subseteq Listed /\ Len(Rows) = Count + 1
      BY <1>1, <2>1, ArrivalTyped DEF Full, Rows, Listed
    <3>2. Count <= Len(Rows) /\ \A k \in 1..Count : k \in 1..Len(Rows)
      BY <1>2, <3>1
    <3>3. QED
      BY <1>2, <2>1, <3>1, <3>2
  <2>2. CASE ~Full
    <3>1. rows = Rows /\ IdsOf(rows) \subseteq Listed /\ Len(Rows) # Count + 1
      BY <1>1, <2>2 DEF Full, Rows, Listed
    <3>2. Len(Rows) <= Count /\ Len(Rows) <= Len(Rows)
      <4>1. Len(Rows) \in Nat /\ Len(Rows) <= Count + 1 /\ Count \in Nat
        BY <1>2, <1>3
      <4>2. QED
        BY <3>1, <4>1
    <3>3. Len(Rows) \in Nat /\ Rows \in Seq([id : DOMAIN log, ended : BOOLEAN])
      BY <1>2, <1>3
    <3>4. QED
      BY <2>2, <3>1, <3>2, <3>3
  <2>3. QED
    BY <2>1, <2>2
<1>5. DOMAIN rows = 1..c
  BY <1>4, LenProperties
<1>6. IdsOf(rows) = {Rows[k].id : k \in 1..c}
  BY <1>4, <1>5 DEF IdsOf
<1>7. /\ all \in Seq([id : DOMAIN log, ended : BOOLEAN])
      /\ Len(all) = Len(shown) + c
      /\ \A k \in 1..Len(shown) : all[k] = shown[k]
      /\ \A k \in 1..c : all[Len(shown) + k] = rows[k]
      /\ IdsOf(all) = IdsOf(shown) \cup IdsOf(rows)
  <2> DEFINE R == [id : DOMAIN log, ended : BOOLEAN]
  <2>1. shown \in Seq(R) /\ rows \in Seq(R)
    BY <1>2, <1>4
  <2>2. Len(rows) = c /\ all = shown \o rows
    BY <1>1, <1>4
  <2> HIDE DEF R
  <2>3. shown \o rows \in Seq(R)
    BY <2>1, ConcatProperties
  <2>4. Len(shown \o rows) = Len(shown) + Len(rows)
    BY <2>1, IdsOfConcat
  <2>5. IdsOf(shown \o rows) = IdsOf(shown) \cup IdsOf(rows)
    BY <2>1, IdsOfConcat
  <2>6. \A k \in 1..Len(shown) : (shown \o rows)[k] = shown[k]
    BY <2>1, IdsOfConcat
  <2>7. \A k \in 1..Len(rows) : (shown \o rows)[Len(shown) + k] = rows[k]
    BY <2>1, IdsOfConcat
  <2>8. QED
    BY <2>2, <2>3, <2>6, <2>7, <2>4, <2>5 DEF R
<1>8. PICK d \in Nat :
        /\ d = IF Len(all) > Window THEN Len(all) - Window ELSE 0
        /\ Len(shown') = Len(all) - d
        /\ \A k \in 1..(Len(all) - d) : shown'[k] = all[k + d]
        /\ shown' \in Seq([id : DOMAIN log, ended : BOOLEAN]) /\ IdsOf(shown') \subseteq IdsOf(all)
  BY <1>1, <1>7, LastRowsIs
<1>9. PICK s \in Nat \ {0}, w \in Nat, a \in Nat :
       /\ s = Len(shown) /\ w = Window /\ a = Len(all) /\ a = s + c /\ s <= w /\ c < w
       /\ d = (IF a > w THEN a - w ELSE 0)
  <2>1. Len(shown) \in Nat \ {0} /\ Window \in Nat /\ Count < Window
    BY <1>3, WindowIs
  <2>2. Len(all) = Len(shown) + c /\ c <= Count /\ Count \in Nat /\ Len(shown) <= Window
    BY <1>2, <1>4, <1>7
  <2>3. Len(all) \in Nat /\ c < Window
    BY <2>1, <2>2
  <2>4. d = (IF Len(all) > Window THEN Len(all) - Window ELSE 0)
    BY <1>8
  <2>5. QED
    BY <2>1, <2>2, <2>3, <2>4
<1>10. d < Len(shown) /\ Len(shown') = Len(shown) - d + c
  <2>1. d < s /\ a - d = s - d + c
    BY <1>9
  <2>2. QED
    BY <1>8, <1>9, <2>1
<1>11. DOMAIN shown' = 1..(Len(shown) - d + c)
  BY <1>8, <1>10, LenProperties
<1>12. ASSUME NEW k \in 1..(Len(shown) - d)
       PROVE  shown'[k] = shown[k + d] /\ k + d \in 1..Len(shown)
  <2>1. k + d \in 1..Len(shown) /\ k \in 1..(Len(all) - d)
    <3>1. k \in 1..(s - d) /\ d < s
      BY <1>10, <1>9
    <3>2. k + d \in 1..s /\ k \in 1..(a - d)
      BY <1>9, <3>1
    <3>3. QED
      BY <1>9, <3>2
  <2>2. QED
    BY <1>7, <1>8, <2>1
<1>13. ASSUME NEW k \in 1..c
       PROVE  shown'[Len(shown) - d + k] = Rows[k] /\ k \in 1..Len(Rows)
  <2>1. /\ Len(shown) - d + k \in 1..(Len(all) - d)
        /\ Len(shown) - d + k + d = Len(shown) + k
    <3>1. d < s
      BY <1>10, <1>9
    <3>2. s - d + k \in 1..(a - d) /\ s - d + k + d = s + k
      BY <1>9, <3>1
    <3>3. QED
      BY <1>9, <3>2
  <2>2. shown'[Len(shown) - d + k] = all[Len(shown) - d + k + d]
    BY <1>8, <2>1
  <2>3. all[Len(shown) + k] = rows[k]
    BY <1>7
  <2>4. rows[k] = Rows[k] /\ k \in 1..Len(Rows)
    BY <1>4
  <2>5. QED
    BY <2>1, <2>2, <2>3, <2>4, Zenon
<1>14. noOlder' => noOlder /\ d = 0
  <2>1. noOlder' => noOlder /\ Len(all) <= Window
    BY <1>1 DEF NoOlderThan
  <2>2. Len(all) <= Window => d = 0
    BY <1>9
  <2>3. QED
    BY <2>1, <2>2
<1>15. isEnd' = ~Full
  BY <1>1 DEF Full, Rows
<1>16. ASSUME NEW k \in 1..c, ~Rows[k].ended, NEW x \in heard, <<Rows[k].id, x>> \in Ends
       PROVE  x \in lost'
  <2>1. /\ Closes(x) /\ log[Rows[k].id].kind = "SpanCreate"
        /\ log[Rows[k].id].span_t_id = log[x].span_t_id
    BY <1>16 DEF Ends
  <2>2. x \in StaleCloses(rows)
    BY <1>4, <1>5, <1>16, <2>1 DEF StaleCloses
  <2>3. QED
    BY <1>1, <2>2
<1>17. ~Full => dropped \subseteq lost' \cup IdsOf(shown) \cup {Rows[k].id : k \in 1..c}
  BY <1>1, <1>6, <1>7 DEF Full, Rows
<1>18. \A i \in IdsOf(shown') : i \in IdsOf(shown) \/ i \in {Rows[k].id : k \in 1..c}
  BY <1>6, <1>7, <1>8
<1>19. early' = early \cup ({Rows[k].id : k \in 1..c} \ heard) /\ lost \subseteq lost'
  BY <1>1, <1>6
<1>20. {Rows[k].id : k \in 1..c} \subseteq Listed
  BY <1>4, <1>6
<1>21. QED
  BY <1>3, <1>4, <1>10, <1>11, <1>12, <1>13, <1>14, <1>15, <1>16, <1>17, <1>18, <1>19, <1>20

\* A page of c rows, n at most, leaves room in a window of w for some of the l rows shown.
LEMMA WindowCut ==
  ASSUME NEW c \in Nat, NEW l \in Nat, NEW n \in Nat, NEW w \in Nat, NEW a,
         a = c + l, c <= n, w > n, a > w
  PROVE  w - c \in Nat /\ w = c + (w - c) /\ 1 <= w - c /\ w - c <= l /\ ~(a <= w)
OBVIOUS

\* Older records: the window has all of them, and a row of those it had.
LEMMA OlderShown ==
  ASSUME TypeOK, OlderArrives, shown # <<>>
  PROVE  \E d \in {0, 1}, c \in Nat, m \in Nat :
           /\ d = 1 <=> Full
           /\ Len(Rows) \in Nat /\ c = Len(Rows) - d
           /\ Len(shown) \in Nat /\ 1 <= m /\ m <= Len(shown)
           /\ DOMAIN shown = 1..Len(shown) /\ DOMAIN Rows = 1..Len(Rows)
           /\ Len(shown') = c + m /\ DOMAIN shown' = 1..(c + m)
           /\ \A k \in 1..c : shown'[k] = Rows[k + d] /\ k + d \in 1..Len(Rows)
           /\ \A k \in 1..m : shown'[c + k] = shown[k] /\ k \in 1..Len(shown)
           /\ Full => c >= 1
           /\ noOlder' = (noOlder \/ ~Full)
           /\ isEnd' => isEnd /\ m = Len(shown)
           /\ early' = early \cup ({Rows[k + d].id : k \in 1..c} \ heard)
           /\ {Rows[k + d].id : k \in 1..c} \subseteq Listed
           /\ lost \cup shifted \subseteq lost'
           /\ \A k \in 1..c : ~Rows[k + d].ended =>
                \A x \in heard : <<Rows[k + d].id, x>> \in Ends => x \in lost'
           /\ \A i \in IdsOf(shown') : i \in IdsOf(shown) \/ i \in {Rows[k + d].id : k \in 1..c}
<1>1. PICK rows, all :
        /\ rows = IF Len(request.rows) = Count + 1 THEN Tail(request.rows) ELSE request.rows
        /\ all = rows \o shown
        /\ shown' = FirstRows(all)
        /\ noOlder' = (noOlder \/ ~(Len(request.rows) = Count + 1))
        /\ isEnd' = (isEnd /\ Len(all) <= Window)
        /\ early' = early \cup (IdsOf(rows) \ heard)
        /\ lost' = lost \cup StaleCloses(rows) \cup shifted
  BY DEF OlderArrives
<1>2. /\ Rows \in Seq([id : DOMAIN log, ended : BOOLEAN]) /\ Count \in Nat \ {0}
      /\ shown \in Seq([id : DOMAIN log, ended : BOOLEAN]) /\ Len(shown) <= Window
      /\ Len(Rows) <= Count + 1 /\ heard \subseteq DOMAIN log
  BY RowsTyped, CountAssumption DEF Rows, TypeOK
<1>3. /\ Len(Rows) \in Nat /\ DOMAIN Rows = 1..Len(Rows)
      /\ Len(shown) \in Nat \ {0} /\ DOMAIN shown = 1..Len(shown)
  BY <1>2, LenProperties, EmptySeq
<1>4. PICK d \in {0, 1}, c \in Nat :
        /\ d = 1 <=> Full
        /\ rows \in Seq([id : DOMAIN log, ended : BOOLEAN]) /\ Len(rows) = c /\ c = Len(Rows) - d
        /\ c <= Count /\ (Full => c >= 1)
        /\ \A k \in 1..c : rows[k] = Rows[k + d] /\ k + d \in 1..Len(Rows)
        /\ IdsOf(rows) \subseteq Listed
  <2>1. CASE Full
    <3>1. /\ rows \in Seq([id : DOMAIN log, ended : BOOLEAN]) /\ Len(rows) = Count
          /\ \A k \in 1..Count : rows[k] = Rows[k + 1]
          /\ IdsOf(rows) \subseteq Listed /\ Len(Rows) = Count + 1
      BY <1>1, <2>1, ArrivalTyped DEF Full, Rows, Listed
    <3>2. /\ Count = Len(Rows) - 1 /\ Count <= Count /\ Count >= 1 /\ Count \in Nat
          /\ \A k \in 1..Count : k + 1 \in 1..Len(Rows)
      BY <1>2, <3>1
    <3>3. QED
      BY <2>1, <3>1, <3>2
  <2>2. CASE ~Full
    <3>1. rows = Rows /\ IdsOf(rows) \subseteq Listed /\ Len(Rows) # Count + 1
      BY <1>1, <2>2 DEF Full, Rows, Listed
    <3>2. Len(Rows) <= Count /\ Len(Rows) = Len(Rows) - 0 /\ \A k \in 1..Len(Rows) : k + 0 = k
      <4>1. Len(Rows) \in Nat /\ Len(Rows) <= Count + 1 /\ Count \in Nat
        BY <1>2, <1>3
      <4>2. QED
        BY <3>1, <4>1
    <3>3. Len(Rows) \in Nat /\ Rows \in Seq([id : DOMAIN log, ended : BOOLEAN])
      BY <1>2, <1>3
    <3>4. /\ 0 = 1 <=> Full
          /\ rows \in Seq([id : DOMAIN log, ended : BOOLEAN]) /\ Len(rows) = Len(Rows)
          /\ Len(Rows) = Len(Rows) - 0 /\ Len(Rows) <= Count /\ (Full => Len(Rows) >= 1)
          /\ \A k \in 1..Len(Rows) : rows[k] = Rows[k + 0] /\ k + 0 \in 1..Len(Rows)
          /\ IdsOf(rows) \subseteq Listed
      BY <2>2, <3>1, <3>2, <3>3
    <3>5. QED
      BY <3>3, <3>4
  <2>3. QED
    BY <2>1, <2>2
<1>5. DOMAIN rows = 1..c
  BY <1>4, LenProperties
<1>6. IdsOf(rows) = {Rows[k + d].id : k \in 1..c}
  BY <1>4, <1>5 DEF IdsOf
<1>7. /\ all \in Seq([id : DOMAIN log, ended : BOOLEAN])
      /\ Len(all) = c + Len(shown)
      /\ \A k \in 1..c : all[k] = rows[k]
      /\ \A k \in 1..Len(shown) : all[c + k] = shown[k]
      /\ IdsOf(all) = IdsOf(rows) \cup IdsOf(shown)
  <2> DEFINE R == [id : DOMAIN log, ended : BOOLEAN]
  <2>1. shown \in Seq(R) /\ rows \in Seq(R)
    BY <1>2, <1>4
  <2>2. Len(rows) = c /\ all = rows \o shown
    BY <1>1, <1>4
  <2> HIDE DEF R
  <2>3. rows \o shown \in Seq(R)
    BY <2>1, ConcatProperties
  <2>4. Len(rows \o shown) = Len(rows) + Len(shown)
    BY <2>1, IdsOfConcat
  <2>5. IdsOf(rows \o shown) = IdsOf(rows) \cup IdsOf(shown)
    BY <2>1, IdsOfConcat
  <2>6. \A k \in 1..Len(rows) : (rows \o shown)[k] = rows[k]
    BY <2>1, IdsOfConcat
  <2>7. \A k \in 1..Len(shown) : (rows \o shown)[Len(rows) + k] = shown[k]
    BY <2>1, IdsOfConcat
  <2>8. QED
    BY <2>2, <2>3, <2>6, <2>7, <2>4, <2>5 DEF R
<1>8. /\ shown' \in Seq([id : DOMAIN log, ended : BOOLEAN])
      /\ Len(shown') = IF Len(all) > Window THEN Window ELSE Len(all)
      /\ \A k \in 1..Len(shown') : k \in 1..Len(all) /\ shown'[k] = all[k]
      /\ IdsOf(shown') \subseteq IdsOf(all)
  <2>1. shown' = FirstRows(all) /\ all \in Seq([id : DOMAIN log, ended : BOOLEAN])
    BY <1>1, <1>7
  <2>2. QED
    BY <2>1, FirstRowsIs
<1>9. PICK m \in Nat : /\ Len(shown') = c + m /\ 1 <= m /\ m <= Len(shown)
                       /\ Len(all) <= Window => m = Len(shown)
  <2>1. Window \in Nat /\ Window > Count /\ Count \in Nat
    BY <1>2, WindowIs
  <2>2. CASE Len(all) > Window
    <3>1. Len(shown') = Window
      BY <1>8, <2>2
    <3>2. Len(all) = c + Len(shown) /\ c \in Nat /\ c <= Count /\ Len(shown) \in Nat
      BY <1>3, <1>4, <1>7
    <3>3. Window - c \in Nat /\ Len(shown') = c + (Window - c) /\ 1 <= Window - c
          /\ Window - c <= Len(shown) /\ ~(Len(all) <= Window)
      <4>1. /\ Window - c \in Nat /\ Window = c + (Window - c) /\ 1 <= Window - c
            /\ Window - c <= Len(shown) /\ ~(Len(all) <= Window)
        BY <2>1, <2>2, <3>2, WindowCut
      <4>2. QED
        BY <3>1, <4>1, Zenon
    <3>4. QED
      BY <3>3
  <2>3. CASE ~(Len(all) > Window)
    <3>1. Len(shown') = c + Len(shown) /\ 1 <= Len(shown) /\ Len(shown) <= Len(shown)
      BY <1>3, <1>7, <1>8, <2>3
    <3>2. QED
      BY <1>3, <3>1
  <2>4. QED
    BY <2>2, <2>3
<1>10. DOMAIN shown' = 1..(c + m)
  BY <1>8, <1>9, LenProperties
<1>11. ASSUME NEW k \in 1..c
       PROVE  shown'[k] = Rows[k + d] /\ k + d \in 1..Len(Rows)
  <2>1. k \in 1..Len(shown')
    BY <1>9
  <2>2. QED
    BY <1>4, <1>7, <1>8, <2>1
<1>12. ASSUME NEW k \in 1..m
       PROVE  shown'[c + k] = shown[k] /\ k \in 1..Len(shown)
  <2>1. c + k \in 1..Len(shown') /\ k \in 1..Len(shown)
    <3>1. Len(shown') = c + m /\ m <= Len(shown) /\ Len(shown) \in Nat
      BY <1>3, <1>9
    <3>2. c + k \in 1..(c + m) /\ k \in 1..Len(shown)
      BY <3>1
    <3>3. QED
      BY <3>1, <3>2, Zenon
  <2>2. QED
    BY <1>7, <1>8, <2>1
<1>13. isEnd' => isEnd /\ m = Len(shown)
  BY <1>1, <1>9
<1>14. noOlder' = (noOlder \/ ~Full)
  BY <1>1 DEF Full, Rows
<1>15. ASSUME NEW k \in 1..c, ~Rows[k + d].ended, NEW x \in heard, <<Rows[k + d].id, x>> \in Ends
       PROVE  x \in lost'
  <2>1. /\ Closes(x) /\ log[Rows[k + d].id].kind = "SpanCreate"
        /\ log[Rows[k + d].id].span_t_id = log[x].span_t_id
    BY <1>15 DEF Ends
  <2>2. x \in StaleCloses(rows)
    BY <1>4, <1>5, <1>15, <2>1 DEF StaleCloses
  <2>3. QED
    BY <1>1, <2>2
<1>16. \A i \in IdsOf(shown') : i \in IdsOf(shown) \/ i \in {Rows[k + d].id : k \in 1..c}
  BY <1>6, <1>7, <1>8
<1>17. /\ early' = early \cup ({Rows[k + d].id : k \in 1..c} \ heard)
       /\ lost \cup shifted \subseteq lost' /\ {Rows[k + d].id : k \in 1..c} \subseteq Listed
  BY <1>1, <1>4, <1>6
<1>18. QED
  BY <1>3, <1>4, <1>9, <1>10, <1>11, <1>12, <1>13, <1>14, <1>15, <1>16, <1>17

-----------------------------------------------------------------------------
(* The phases.                                                             *)

\* The two halves of PhaseInv: who waits where, and what the listings leave.
SourcePhase ==
  /\ IdsIn(registry) \cap Sent = {}
  /\ source.at # "open" =>
       /\ ~watched /\ ~joining /\ ~regWatch
       /\ Watch \notin IdsIn(channel) /\ Watch \notin IdsIn(registry)
       /\ stream = <<>> /\ heard = {}
  /\ source.at \in {"no", "list"} => source.rows = <<>>

\* The part about the listing under way.
RequestPhase ==
  /\ request.type # "none" => request.at # "no"
  /\ request.type = "first" =>
       /\ source.at = "no" /\ source.cursor = 0
       /\ shown = <<>> /\ isEnd /\ early = {} /\ lost = {} /\ ~stray
  /\ request.type = "first" /\ request.at = "list" => seen = {}
  /\ request.type \in {"more", "older"} => shown # <<>>
  /\ request.type = "more" => ~isEnd /\ request.cursor = shown[Len(shown)].id
  /\ request.type = "older" => ~noOlder
  /\ shown = <<>> => isEnd

\* The phases are those of the subscription and those of the listing.
LEMMA PhaseParts ==
  PhaseInv <=> SourcePhase /\ RequestPhase
  BY DEF PhaseInv, SourcePhase, RequestPhase

\* The records of others in the registry are none of the run's.
LEMMA RegistryTyped ==
  ASSUME TypeOK
  PROVE  /\ registry \in Seq(DOMAIN log \cup {Watch}) /\ channel \in Seq(DOMAIN log \cup {Watch})
         /\ IdsIn(registry) \subseteq DOMAIN log \cup {Watch}
         /\ IdsIn(channel) \subseteq DOMAIN log \cup {Watch}
         /\ 0 \notin Sent /\ Sent \subseteq DOMAIN log /\ Watch = 0
<1>1. registry \in Seq(DOMAIN log \cup {Watch}) /\ channel \in Seq(DOMAIN log \cup {Watch})
  BY DEF TypeOK
<1>2. \A k \in DOMAIN registry : registry[k] \in DOMAIN log \cup {Watch}
  BY <1>1, LenProperties, ElementOfSeq
<1>3. \A k \in DOMAIN channel : channel[k] \in DOMAIN log \cup {Watch}
  BY <1>1, LenProperties, ElementOfSeq
<1>4. Watch \notin DOMAIN log
  BY RowsTyped
<1>5. QED
  BY <1>1, <1>2, <1>3, <1>4 DEF IdsIn, Sent, Watch

\* The steps of the run, its task and the applications, and the subscription.
LEMMA SourcePhaseTask ==
  ASSUME TypeOK, LogInv, SourcePhase, RunRecords \/ OtherStarts \/ Task
  PROVE  SourcePhase'
<1>1. CASE RunRecords
  <2>1. PICK n \in Nat \ {0} : /\ n = Len(log') /\ n \notin DOMAIN log
                               /\ Sent' = Sent \cup {n} /\ channel' = Append(channel, n)
    BY <1>1, LogOfRun DEF LogMore
  <2>2. UNCHANGED <<source, watched, joining, regWatch, registry, stream, heard>>
    BY <1>1 DEF RunRecords, registryVars, viewVars, missVars
  <2>3. channel \in Seq(DOMAIN log \cup {n, Watch})
    <3>1. DOMAIN log \cup {Watch} \subseteq DOMAIN log \cup {n, Watch}
      OBVIOUS
    <3>2. QED
      BY <3>1, RegistryTyped, SeqMonotonic
  <2>4. IdsIn(channel') = IdsIn(channel) \cup {n} /\ n # Watch
    BY <2>1, <2>3, IdsInAppend DEF Watch
  <2>5. n \notin IdsIn(registry)
    BY <2>1, RegistryTyped
  <2>6. IdsIn(registry') \cap Sent' = {}
    BY <2>1, <2>2, <2>5 DEF SourcePhase
  <2>7. source'.at # "open" => Watch \notin IdsIn(channel')
    BY <2>2, <2>4 DEF SourcePhase
  <2>8. QED
    BY <2>2, <2>6, <2>7 DEF SourcePhase, IdsIn
<1>2. CASE OtherStarts
  <2>1. /\ registry' = Append(registry, Len(log')) /\ Sent' = Sent
        /\ UNCHANGED <<source, watched, joining, regWatch, channel, stream, heard>>
    BY <1>2, LogOfOthers DEF OtherStarts, taskVars, viewVars, missVars, LogKept
  <2>2. Len(log') # Watch /\ Len(log') \notin Sent /\ Len(log') \in Nat
    <3>1. log' = Append(log, Start) /\ log \in Seq(Recs)
      BY <1>2 DEF OtherStarts, TypeOK, Recs
    <3>2. Len(log') \notin DOMAIN log /\ Len(log') = Len(log) + 1 /\ Len(log) \in Nat
      BY <3>1, LogGrows
    <3>3. QED
      BY <3>2, RegistryTyped DEF Watch
  <2>3. registry \in Seq(DOMAIN log \cup {Watch, Len(log')})
    <3>1. DOMAIN log \cup {Watch} \subseteq DOMAIN log \cup {Watch, Len(log')}
      OBVIOUS
    <3>2. QED
      BY <3>1, RegistryTyped, SeqMonotonic
  <2>4. IdsIn(registry') = IdsIn(registry) \cup {Len(log')}
    BY <2>1, <2>3, IdsInAppend
  <2>5. QED
    BY <2>1, <2>2, <2>4 DEF SourcePhase, IdsIn
<1>3. CASE Receive
  <2>1. /\ channel # <<>> /\ channel' = Tail(channel) /\ Sent' = Sent
        /\ UNCHANGED <<source, watched, regWatch, registry, stream, heard>>
        /\ joining' = joining \/ Head(channel) = Watch
    BY <1>3, LogSame DEF Receive, registryVars, viewVars, missVars, LogKept
  <2>2. IdsIn(channel) = {Head(channel)} \cup IdsIn(channel')
    BY <2>1, RegistryTyped, IdsInTail
  <2>3. source.at # "open" => joining' = joining /\ Watch \notin IdsIn(channel')
    BY <2>1, <2>2 DEF SourcePhase
  <2>4. QED
    BY <2>1, <2>3 DEF SourcePhase, IdsIn
<1>4. CASE Swap
  <2>1. /\ Sent' = Sent /\ watched' = (watched \/ joining) /\ joining' = FALSE
        /\ UNCHANGED <<source, channel, regWatch, registry, stream, heard>>
    BY <1>4, LogSame DEF Swap, registryVars, LogKept
  <2>2. source'.at # "open" => ~watched' /\ ~joining'
    BY <2>1 DEF SourcePhase
  <2>3. QED
    BY <2>1, <2>2 DEF SourcePhase, IdsIn
<1>5. CASE InsertRows \/ UpdateSpans
  <2>1. /\ Sent' = Sent
        /\ UNCHANGED <<source, watched, joining, channel, regWatch, registry, stream, heard>>
    BY <1>5, LogSame DEF InsertRows, UpdateSpans, registryVars, viewVars, missVars, LogKept
  <2>2. QED
    BY <2>1 DEF SourcePhase, IdsIn
<1>6. CASE Notify
  <2>1. /\ Sent' = Sent /\ (~watched => stream' = stream)
        /\ UNCHANGED <<source, watched, joining, channel, regWatch, registry, heard>>
    BY <1>6, LogSame DEF Notify, registryVars, missVars, LogKept
  <2>2. QED
    BY <2>1 DEF SourcePhase, IdsIn
<1>7. QED
  BY <1>1, <1>2, <1>3, <1>4, <1>5, <1>6 DEF Task

\* The steps of the registry and the subscription.
LEMMA SourcePhaseRegistry ==
  ASSUME TypeOK, LogInv, SourcePhase, Registry \/ PageReads \/ PageLeaves
  PROVE  SourcePhase'
<1>1. CASE HandleAppRun \/ TellPage \/ PageReads \/ PageLeaves
  <2>1. /\ Sent' = Sent
        /\ UNCHANGED <<source, watched, joining, channel, regWatch, registry, stream, heard>>
    BY <1>1, LogSame DEF HandleAppRun, TellPage, PageReads, PageLeaves, taskVars, viewVars,
       missVars,
                         LogKept
  <2>2. QED
    BY <2>1 DEF SourcePhase, IdsIn
<1>2. CASE TellView
  <2>1. /\ Sent' = Sent /\ registry' = Tail(registry) /\ (~regWatch => stream' = stream)
        /\ UNCHANGED <<source, watched, joining, channel, regWatch, heard>>
    BY <1>2, LogSame DEF TellView, taskVars, missVars, LogKept
  <2>2. registry # <<>>
    BY <1>2 DEF TellView, TypeOK
  <2>3. IdsIn(registry) = {Head(registry)} \cup IdsIn(registry')
    BY <2>1, <2>2, RegistryTyped, IdsInTail
  <2>4. QED
    BY <2>1, <2>3 DEF SourcePhase, IdsIn
<1>3. CASE HandleAddRecordWatcher
  <2>1. /\ Sent' = Sent /\ registry' = Tail(registry) /\ registry # <<>> /\ Head(registry) = Watch
        /\ UNCHANGED <<source, watched, joining, stream, heard>>
    BY <1>3, LogSame DEF HandleAddRecordWatcher, viewVars, missVars, LogKept
  <2>2. IdsIn(registry) = {Head(registry)} \cup IdsIn(registry')
    BY <2>1, RegistryTyped, IdsInTail
  <2>3. source.at = "open"
    BY <2>1, <2>2 DEF SourcePhase
  <2>4. QED
    BY <2>1, <2>2, <2>3 DEF SourcePhase
<1>4. QED
  BY <1>1, <1>2, <1>3 DEF Registry

\* The steps of the server and the view, and the subscription.
LEMMA SourcePhaseView ==
  ASSUME TypeOK, LogInv, PhaseInv, Server \/ View \/ UNCHANGED vars
  PROVE  SourcePhase'
<1>1. SourcePhase /\ RequestPhase
  BY PhaseParts
<1>2. source \in [at : {"no", "list", "look", "open"}, cursor : {0} \cup DOMAIN log,
                  rows : Seq(RowType)]
  BY DEF TypeOK
<1>3. CASE SubscribeList
  <2>1. /\ Sent' = Sent /\ source.at = "list" /\ source'.at = "look"
        /\ UNCHANGED <<watched, joining, channel, regWatch, registry, stream, heard>>
    BY <1>2, <1>3, LogSame DEF SubscribeList, taskVars, registryVars, missVars, LogKept
  <2>2. QED
    BY <1>1, <2>1 DEF SourcePhase, IdsIn
<1>4. CASE Subscribe
  <2>1. Sent' = Sent /\ source'.at = "open" /\ registry' = Append(registry, Watch)
    BY <1>2, <1>4, LogSame DEF Subscribe, LogKept
  <2>2. IdsIn(registry') = IdsIn(registry) \cup {Watch}
    BY <2>1, RegistryTyped, IdsInAppend
  <2>3. IdsIn(registry') \cap Sent' = {}
    BY <1>1, <2>1, <2>2, RegistryTyped DEF SourcePhase
  <2>4. QED
    BY <2>1, <2>3 DEF SourcePhase
<1>5. CASE FirstArrives
  <2>1. /\ Sent' = Sent /\ source'.at = "list" /\ source'.rows = source.rows
        /\ UNCHANGED <<watched, joining, channel, regWatch, registry, stream, heard>>
    BY <1>5, LogSame, FirstShown DEF FirstArrives, taskVars, registryVars, missVars, LogKept
  <2>2. source.at = "no"
    BY <1>1, <1>5 DEF RequestPhase, FirstArrives
  <2>3. QED
    BY <1>1, <2>1, <2>2, SMTT(20) DEF SourcePhase, IdsIn
<1>6. CASE EventArrives
  <2>1. stream # <<>>
    BY <1>6 DEF EventArrives
  <2>2. /\ Sent' = Sent
        /\ UNCHANGED <<source, watched, joining, channel, regWatch, registry>>
    BY <1>6, LogSame DEF EventArrives, taskVars, registryVars, LogKept
  <2>3. source.at = "open"
    BY <1>1, <2>1 DEF SourcePhase
  <2>4. QED
    BY <1>1, <2>2, <2>3 DEF SourcePhase, IdsIn
<1>7. ASSUME Sent' = Sent,
             UNCHANGED <<source, watched, joining, channel, regWatch, registry, stream, heard>>
      PROVE  SourcePhase'
  BY <1>1, <1>7 DEF SourcePhase, IdsIn
<1>8. CASE ServeList \/ ServeLookUp
  <2>1. /\ Sent' = Sent
        /\ UNCHANGED <<source, watched, joining, channel, regWatch, registry, stream, heard>>
    BY <1>8, LogSame DEF ServeList, ServeLookUp, taskVars, registryVars, LogKept
  <2>2. QED
    BY <1>7, <2>1
<1>9. CASE FetchMore \/ FetchOlder \/ MoreArrives \/ OlderArrives
  <2>1. /\ Sent' = Sent
        /\ UNCHANGED <<source, watched, joining, channel, regWatch, registry, stream, heard>>
    BY <1>9, LogSame DEF FetchMore, FetchOlder, MoreArrives, OlderArrives, taskVars, registryVars,
                         LogKept
  <2>2. QED
    BY <1>7, <2>1
<1>10. CASE UNCHANGED vars
  <2>1. /\ Sent' = Sent
        /\ UNCHANGED <<source, watched, joining, channel, regWatch, registry, stream, heard>>
    BY <1>10, LogSame DEF vars, taskVars, registryVars, viewVars, missVars, LogKept
  <2>2. QED
    BY <1>7, <2>1
<1>11. QED
  BY <1>3, <1>4, <1>5, <1>6, <1>8, <1>9, <1>10 DEF Server, View

\* Nothing but the view and its listings changes what the listings leave.
LEMMA RequestPhaseTask ==
  ASSUME TypeOK, PhaseInv, RunRecords \/ OtherStarts \/ Task \/ Registry \/ PageReads \/ PageLeaves
  PROVE  RequestPhase'
<1>1. SourcePhase /\ RequestPhase
  BY PhaseParts
<1>2. UNCHANGED <<request, source, shown, isEnd, noOlder, early, stray, seen>>
  BY DEF RunRecords, OtherStarts, Task, Receive, Swap, InsertRows, UpdateSpans, Notify, Registry,
         HandleAppRun, TellPage, TellView, HandleAddRecordWatcher, PageReads, PageLeaves,
         viewVars, storeVars, missVars
<1>3. source.at = "no" => lost' = lost
  <2>1. CASE Swap
    BY <1>1, <2>1 DEF Swap, SourcePhase
  <2>2. CASE RunRecords \/ OtherStarts \/ Receive \/ InsertRows \/ UpdateSpans
    BY <2>2 DEF RunRecords, OtherStarts, Receive, InsertRows, UpdateSpans, viewVars, missVars
  <2>3. CASE Notify \/ Registry \/ PageReads \/ PageLeaves
    BY <2>3 DEF Notify, Registry, HandleAppRun, TellPage, TellView, HandleAddRecordWatcher,
                PageReads, PageLeaves, viewVars, missVars
  <2>4. QED
    BY <2>1, <2>2, <2>3 DEF Task
<1>4. QED
  BY <1>1, <1>2, <1>3 DEF RequestPhase

\* The steps of the server and the view, and the listing under way.
LEMMA RequestPhaseView ==
  ASSUME TypeOK, PhaseInv, Server \/ View \/ UNCHANGED vars
  PROVE  RequestPhase'
<1>1. SourcePhase /\ RequestPhase
  BY PhaseParts
<1>2. /\ source \in [at : {"no", "list", "look", "open"}, cursor : {0} \cup DOMAIN log,
                     rows : Seq(RowType)]
      /\ request \in [type : {"none", "first", "more", "older"},
         at : {"no", "list", "look", "back"},
                      cursor : {0} \cup DOMAIN log, rows : Seq(RowType)]
      /\ NoRequest.type = "none"
  BY DEF TypeOK, NoRequest
<1>3. CASE ServeList
  <2>1. /\ request'.type = request.type /\ request'.at = "look" /\ request'.cursor = request.cursor
        /\ UNCHANGED <<source, shown, isEnd, noOlder, early, stray>>
        /\ request.type = "first" => lost' = lost
    BY <1>2, <1>3 DEF ServeList, storeVars
  <2>2. QED
    BY <1>1, <2>1 DEF RequestPhase
<1>4. CASE ServeLookUp
  <2>1. /\ request'.type = request.type /\ request'.at = "back" /\ request'.cursor = request.cursor
        /\ UNCHANGED <<source, shown, isEnd, noOlder, early, stray, lost>>
    BY <1>2, <1>4 DEF ServeLookUp, storeVars
  <2>2. QED
    BY <1>1, <2>1 DEF RequestPhase
<1>5. CASE SubscribeList \/ Subscribe
  <2>1. UNCHANGED <<request, shown, isEnd, noOlder, early, lost, stray, seen>> /\ source.at # "no"
    BY <1>5 DEF SubscribeList, Subscribe, storeVars, missVars
  <2>2. QED
    BY <1>1, <2>1 DEF RequestPhase
<1>6. CASE FirstArrives
  <2>1. request'.type = "none" /\ isEnd' = isEnd /\ request.type = "first"
    BY <1>2, <1>6 DEF FirstArrives
  <2>2. isEnd'
    BY <1>1, <2>1 DEF RequestPhase
  <2>3. QED
    BY <2>1, <2>2 DEF RequestPhase
<1>7. CASE FetchMore
  <2>1. /\ request' = [type |-> "more", at |-> "list", cursor |-> shown[Len(shown)].id,
           rows |-> <<>>]
        /\ ~isEnd /\ shown # <<>> /\ UNCHANGED <<shown, isEnd>>
    BY <1>7 DEF FetchMore, NoRequest, storeVars
  <2>2. /\ request'.type = "more" /\ request'.at = "list" /\ request'.cursor = shown[Len(shown)].id
    BY <2>1
  <2>3. QED
    BY <2>1, <2>2 DEF RequestPhase
<1>8. CASE FetchOlder
  <2>1. /\ request' = [type |-> "older", at |-> "list", cursor |-> shown[1].id, rows |-> <<>>]
        /\ ~noOlder /\ shown # <<>> /\ UNCHANGED <<shown, isEnd, noOlder>>
    BY <1>8 DEF FetchOlder, NoRequest, storeVars
  <2>2. request'.type = "older" /\ request'.at = "list"
    BY <2>1
  <2>3. QED
    BY <2>1, <2>2 DEF RequestPhase
<1>9. CASE MoreArrives
  <2>1. request'.type = "none" /\ shown # <<>>
    BY <1>1, <1>2, <1>9 DEF MoreArrives, RequestPhase
  <2>2. PICK c \in Nat, d \in Nat : Len(shown) \in Nat /\ d < Len(shown)
             /\ Len(shown') = Len(shown) - d + c
    BY <1>9, <2>1, MoreShown
  <2>3. Len(shown') # 0
    BY <2>2
  <2>4. shown' # <<>>
    BY <2>3, EmptySeq
  <2>5. QED
    BY <2>1, <2>4 DEF RequestPhase
<1>10. CASE OlderArrives
  <2>1. request'.type = "none" /\ shown # <<>>
    BY <1>1, <1>2, <1>10 DEF OlderArrives, RequestPhase
  <2>2. PICK c \in Nat, m \in Nat : 1 <= m /\ Len(shown') = c + m
    BY <1>10, <2>1, OlderShown
  <2>3. Len(shown') # 0
    BY <2>2
  <2>4. shown' # <<>>
    BY <2>3, EmptySeq
  <2>5. QED
    BY <2>1, <2>4 DEF RequestPhase
<1>11. CASE EventArrives
  <2>1. PICK e \in [id : DOMAIN log, ended : BOOLEAN] : e = Head(stream)
    BY <1>11, RowsTyped, IdsOfTail DEF EventArrives
  <2>2. /\ UNCHANGED <<request, source, isEnd>> /\ stream # <<>>
        /\ EventAppends(e) \/ EventChanges(e)
    BY <1>11, <2>1 DEF EventArrives
  <2>3. request.type # "first"
    BY <1>1, <2>2 DEF SourcePhase, RequestPhase
  <2>4. CASE EventAppends(e) /\ isEnd
    <3>1. PICK d \in {0, 1} :
            /\ Len(shown') = Len(shown) + 1 - d /\ Len(shown) \in Nat
            /\ d = 1 => Len(shown) >= 2 /\ ~noOlder'
            /\ d = 0 => noOlder' = noOlder
      BY <2>4, EventShown
    <3>2. Len(shown') # 0
      BY <3>1
    <3>3. shown' # <<>> /\ (noOlder' => noOlder)
      BY <3>1, <3>2, EmptySeq
    <3>4. QED
      BY <1>1, <2>2, <2>3, <2>4, <3>3 DEF RequestPhase
  <2>5. CASE EventAppends(e) /\ ~isEnd
    <3>1. UNCHANGED <<shown, noOlder>>
      BY <2>5 DEF EventAppends
    <3>2. QED
      BY <1>1, <2>2, <2>3, <3>1 DEF RequestPhase
  <2>6. CASE EventChanges(e)
    <3>1. /\ Len(shown') = Len(shown) /\ noOlder' = noOlder /\ (shown' = <<>> <=> shown = <<>>)
          /\ \A k \in DOMAIN shown : shown'[k].id = shown[k].id
      BY <2>6, ChangeShown
    <3>2. shown # <<>> => Len(shown) \in DOMAIN shown
      <4>1. shown \in Seq([id : DOMAIN log, ended : BOOLEAN])
        BY RowsTyped
      <4>2. QED
        BY <4>1, RowsAre
    <3>3. shown # <<>> => shown'[Len(shown')].id = shown[Len(shown)].id
      BY <3>1, <3>2
    <3>4. QED
      BY <1>1, <2>2, <2>3, <3>1, <3>3 DEF RequestPhase
  <2>7. QED
    BY <2>2, <2>4, <2>5, <2>6
<1>12. CASE UNCHANGED vars
  <2>1. UNCHANGED <<request, source, shown, isEnd, noOlder, early, lost, stray, seen>>
    BY <1>12 DEF vars, viewVars, storeVars, missVars
  <2>2. QED
    BY <1>1, <2>1 DEF RequestPhase
<1>13. QED
  BY <1>3, <1>4, <1>5, <1>6, <1>7, <1>8, <1>9, <1>10, <1>11, <1>12 DEF Server, View

\* Every step leaves alone what its phase does not concern.
LEMMA PhaseInvNext ==
  ASSUME TypeOK, LogInv, PhaseInv, [Next]_vars
  PROVE  PhaseInv'
<1>1. SourcePhase
  BY PhaseParts
<1>2. SourcePhase'
  BY <1>1, SourcePhaseTask, SourcePhaseRegistry, SourcePhaseView DEF Next
<1>3. RequestPhase'
  BY RequestPhaseTask, RequestPhaseView DEF Next
<1>4. QED
  BY <1>2, <1>3 DEF PhaseInv, SourcePhase, RequestPhase

-----------------------------------------------------------------------------
(* The steps that leave the view and its subscription alone.               *)

\* The view and its subscription are left alone.
ViewKept ==
  UNCHANGED <<request, source, stream, shown, isEnd, noOlder, seen, heard, dropped, shifted, early,
              lost, stray, watched>>

\* They only store more, note more closes, and record more.
QuietStep ==
  /\ ViewKept
  /\ stored \subseteq stored' /\ Noted \subseteq Noted'
  /\ \/ LogKept /\ Untold' = Untold
     \/ LogMore(Len(log')) /\ Untold' = Untold \cup {Len(log')}

\* Every id in the view is that of a record.
LEMMA ViewFacts ==
  ASSUME TypeOK
  PROVE  /\ seen \subseteq DOMAIN log /\ heard \subseteq DOMAIN log /\ dropped \subseteq DOMAIN log
         /\ shifted \subseteq DOMAIN log /\ early \subseteq DOMAIN log /\ lost \subseteq DOMAIN log
         /\ stored \subseteq DOMAIN log
         /\ IdsOf(stream) \subseteq DOMAIN log /\ IdsOf(shown) \subseteq DOMAIN log
         /\ Listed \subseteq DOMAIN log /\ IdsOf(source.rows) \subseteq DOMAIN log
         /\ source.cursor \in {0} \cup DOMAIN log /\ request.cursor \in {0} \cup DOMAIN log
         /\ source.cursor \in Nat /\ request.cursor \in Nat
         /\ DOMAIN log \subseteq Nat /\ DOMAIN log = 1..Len(log) /\ Len(log) \in Nat
         /\ Sent \subseteq DOMAIN log
         /\ DOMAIN stream = 1..Len(stream) /\ Len(stream) \in Nat
         /\ \A k \in DOMAIN stream : stream[k].id \in IdsOf(stream) /\ stream[k].id \in Nat
         /\ DOMAIN shown = 1..Len(shown) /\ Len(shown) \in Nat
         /\ \A k \in DOMAIN shown : shown[k].id \in IdsOf(shown) /\ shown[k].id \in Nat
         /\ DOMAIN Rows = 1..Len(Rows) /\ Len(Rows) \in Nat
         /\ \A k \in DOMAIN Rows : Rows[k].id \in Listed /\ Rows[k].id \in Nat
<1>1. /\ seen \subseteq DOMAIN log /\ heard \subseteq DOMAIN log /\ dropped \subseteq DOMAIN log
      /\ shifted \subseteq DOMAIN log /\ early \subseteq DOMAIN log /\ lost \subseteq DOMAIN log
      /\ stored \subseteq DOMAIN log
  BY DEF TypeOK
<1>2. /\ shown \in Seq([id : DOMAIN log, ended : BOOLEAN])
      /\ stream \in Seq([id : DOMAIN log, ended : BOOLEAN])
      /\ Rows \in Seq([id : DOMAIN log, ended : BOOLEAN])
      /\ source.rows \in Seq([id : DOMAIN log, ended : BOOLEAN])
      /\ source.cursor \in {0} \cup DOMAIN log /\ request.cursor \in {0} \cup DOMAIN log
      /\ DOMAIN log \subseteq Nat /\ DOMAIN log = 1..Len(log) /\ Len(log) \in Nat
  BY RowsTyped DEF Rows
<1>3. /\ IdsOf(stream) \subseteq DOMAIN log /\ DOMAIN stream = 1..Len(stream) /\ Len(stream) \in Nat
      /\ \A k \in DOMAIN stream : stream[k].id \in IdsOf(stream)
  <2>1. IdsOf(stream) \subseteq DOMAIN log /\ DOMAIN stream = 1..Len(stream) /\ Len(stream) \in Nat
    BY <1>2, RowsAre
  <2>2. \A k \in DOMAIN stream : stream[k].id \in IdsOf(stream)
    BY DEF IdsOf
  <2>3. QED
    BY <2>1, <2>2
<1>4. /\ IdsOf(shown) \subseteq DOMAIN log /\ DOMAIN shown = 1..Len(shown) /\ Len(shown) \in Nat
      /\ \A k \in DOMAIN shown : shown[k].id \in IdsOf(shown)
  <2>1. IdsOf(shown) \subseteq DOMAIN log /\ DOMAIN shown = 1..Len(shown) /\ Len(shown) \in Nat
    BY <1>2, RowsAre
  <2>2. \A k \in DOMAIN shown : shown[k].id \in IdsOf(shown)
    BY DEF IdsOf
  <2>3. QED
    BY <2>1, <2>2
<1>5. /\ Listed \subseteq DOMAIN log /\ DOMAIN Rows = 1..Len(Rows) /\ Len(Rows) \in Nat
      /\ \A k \in DOMAIN Rows : Rows[k].id \in Listed
  <2>1. IdsOf(Rows) \subseteq DOMAIN log /\ DOMAIN Rows = 1..Len(Rows) /\ Len(Rows) \in Nat
    BY <1>2, RowsAre
  <2>2. \A k \in DOMAIN Rows : Rows[k].id \in IdsOf(Rows)
    BY DEF IdsOf
  <2>3. QED
    BY <2>1, <2>2 DEF Listed
<1>6. IdsOf(source.rows) \subseteq DOMAIN log
  BY <1>2, RowsAre
<1>7. /\ \A k \in DOMAIN stream : stream[k].id \in Nat
      /\ \A k \in DOMAIN shown : shown[k].id \in Nat
      /\ \A k \in DOMAIN Rows : Rows[k].id \in Nat
  BY <1>2, <1>3, <1>4, <1>5
<1>8. source.cursor \in Nat /\ request.cursor \in Nat
  BY <1>2
<1>9. Sent \subseteq DOMAIN log
  BY DEF Sent
<1>10. QED
  BY <1>1, <1>2, <1>3, <1>4, <1>5, <1>6, <1>7, <1>8, <1>9

\* What is still to be told changes when a record is recorded or told.
LEMMA UntoldFrame ==
  ASSUME UNCHANGED <<channel, filling, batch, told>>
  PROVE  Untold' = Untold
  BY DEF Untold, Ahead, IdsIn

\* The steps of the applications, the registry and the database are quiet.
LEMMA QuietSteps ==
  ASSUME TypeOK, LogInv, TaskInv,
         \/ RunRecords \/ OtherStarts \/ Receive \/ InsertRows \/ UpdateSpans
         \/ HandleAppRun \/ TellPage \/ HandleAddRecordWatcher \/ PageReads \/ PageLeaves
         \/ UNCHANGED vars
  PROVE  QuietStep
<1>1. ViewKept
  <2>1. CASE RunRecords \/ OtherStarts \/ Receive \/ InsertRows \/ UpdateSpans
    BY <2>1 DEF RunRecords, OtherStarts, Receive, InsertRows, UpdateSpans, taskVars, viewVars,
                storeVars, missVars, ViewKept
  <2>2. CASE HandleAppRun \/ TellPage \/ HandleAddRecordWatcher \/ PageReads \/ PageLeaves
    BY <2>2 DEF HandleAppRun, TellPage, HandleAddRecordWatcher, PageReads, PageLeaves, taskVars,
                viewVars, storeVars, missVars, ViewKept
  <2>3. CASE UNCHANGED vars
    BY <2>3 DEF vars, taskVars, viewVars, storeVars, missVars, ViewKept
  <2>4. QED
    BY <2>1, <2>2, <2>3
<1>2. stored \subseteq stored'
  <2>1. CASE RunRecords \/ OtherStarts \/ Receive \/ InsertRows \/ UpdateSpans
    BY <2>1 DEF RunRecords, OtherStarts, Receive, InsertRows, UpdateSpans, dbVars
  <2>2. CASE HandleAppRun \/ TellPage \/ HandleAddRecordWatcher \/ PageReads \/ PageLeaves
    BY <2>2 DEF HandleAppRun, TellPage, HandleAddRecordWatcher, PageReads, PageLeaves, dbVars
  <2>3. CASE UNCHANGED vars
    BY <2>3 DEF vars, dbVars
  <2>4. QED
    BY <2>1, <2>2, <2>3
<1>3. [Next]_vars
  BY DEF Next, Task, Registry
<1>4. Noted \subseteq Noted'
  BY <1>3, LogNext
<1>5. CASE RunRecords
  <2>1. LogMore(Len(log')) /\ Untold' = Untold \cup {Len(log')}
    BY <1>5, LogOfRun, TaskInvRecords
  <2>2. QED
    BY <1>1, <1>2, <1>4, <2>1 DEF QuietStep
<1>6. CASE ~RunRecords
  <2>1. LogKept
    BY <1>3, <1>6, LogNext
  <2>2. Untold' = Untold
    <3>1. CASE Receive
      BY <3>1, TaskInvReceive
    <3>2. CASE HandleAddRecordWatcher
      <4>1. channel' = Append(channel, Watch) /\ UNCHANGED <<filling, batch, told>>
        BY <3>2 DEF HandleAddRecordWatcher
      <4>2. channel \in Seq(DOMAIN log \cup {Watch})
        BY DEF TypeOK
      <4>3. IdsIn(channel') = IdsIn(channel) \cup {Watch}
        BY <4>1, <4>2, IdsInAppend
      <4>4. Ahead' = Ahead
        BY <4>1, <4>3 DEF Ahead, IdsIn
      <4>5. QED
        BY <4>1, <4>4 DEF Untold
    <3>3. CASE OtherStarts \/ InsertRows \/ UpdateSpans \/ HandleAppRun \/ TellPage \/ PageReads
               \/ PageLeaves \/ UNCHANGED vars
      <4>1. UNCHANGED <<channel, filling, batch, told>>
        BY <3>3 DEF OtherStarts, InsertRows, UpdateSpans, HandleAppRun, TellPage, PageReads,
                    PageLeaves, vars, taskVars
      <4>2. QED
        BY <4>1, UntoldFrame
    <3>4. QED
      BY <1>6, <3>1, <3>2, <3>3
  <2>3. QED
    BY <1>1, <1>2, <1>4, <2>1, <2>2 DEF QuietStep
<1>7. QED
  BY <1>5, <1>6

\* All steps are quiet but those of the subscription, the server and the view.
LEMMA LoudSteps ==
  ASSUME TypeOK, LogInv, TaskInv, [Next]_vars
  PROVE  \/ QuietStep
         \/ LogKept /\ Noted \subseteq Noted' /\ (Swap \/ Notify \/ TellView \/ Server \/ View)
<1>1. CASE Swap \/ Notify \/ TellView \/ Server \/ View
  <2>1. log' = log
    BY <1>1 DEF Swap, Notify, TellView, Server, ServeList, ServeLookUp, SubscribeList, Subscribe,
                View, FirstArrives, FetchMore, FetchOlder, MoreArrives, OlderArrives, EventArrives
  <2>2. case' = case
    BY <1>1 DEF Swap, Notify, TellView, Server, ServeList, ServeLookUp, SubscribeList, Subscribe,
                View, FirstArrives, FetchMore, FetchOlder, MoreArrives, OlderArrives, EventArrives
  <2>3. LogKept
    BY <2>1, <2>2, LogSame
  <2>4. Noted \subseteq Noted'
    BY LogNext
  <2>5. QED
    BY <1>1, <2>3, <2>4
<1>2. CASE ~(Swap \/ Notify \/ TellView \/ Server \/ View)
  BY <1>2, QuietSteps DEF Next, Task, Registry
<1>3. QED
  BY <1>1, <1>2

-----------------------------------------------------------------------------
(* The listings.                                                           *)

\* The records of the run up to one that is stored are stored.
LEMMA StoredBefore ==
  ASSUME TypeOK, TaskInv, NEW i \in Sent, NEW j \in stored \cap Sent, i <= j
  PROVE  i \in stored
<1>1. i \in Nat /\ j \in Nat
  BY ViewFacts
<1>2. i \notin stored => j < i
  BY TaskFacts
<1>3. QED
  BY <1>1, <1>2

\* A page after a cursor: what is stored of the selected, without gaps, and all
\* of it if the page is not full.
LEMMA PageAfterIs ==
  ASSUME TypeOK, LogInv, TaskInv, NEW c \in Nat
  PROVE  /\ PageAfter(c) \subseteq Sels \cap stored
         /\ \A i \in PageAfter(c) : c < i
         /\ \A i \in Sels, r \in PageAfter(c) : i <= r /\ c < i => i \in PageAfter(c)
         /\ Cardinality(PageAfter(c)) # Count + 1 =>
              \A i \in Sels \cap stored : c < i => i \in PageAfter(c)
<1> DEFINE S == {i \in Selected : i > c}
<1>1. Selected \in SUBSET (1..Len(log)) /\ Len(log) \in Nat /\ Selected = Sels \cap stored
  BY PagesTyped, LogFacts
<1>2. S \in SUBSET (1..Len(log)) /\ Count + 1 \in Nat \ {0}
  BY <1>1, CountAssumption
<1>3. /\ FirstOf(S, Count + 1) \subseteq S
      /\ \A i \in S, j \in FirstOf(S, Count + 1) : i <= j => i \in FirstOf(S, Count + 1)
      /\ Cardinality(FirstOf(S, Count + 1)) # Count + 1 => FirstOf(S, Count + 1) = S
  BY <1>1, <1>2, FirstOfIs
<1>4. PageAfter(c) = FirstOf(S, Count + 1)
  BY DEF PageAfter
<1>5. PageAfter(c) \subseteq Sels \cap stored
  BY <1>1, <1>3, <1>4
<1>6. \A i \in PageAfter(c) : c < i
  <2>1. \A i \in S : i \in Nat /\ c < i
    BY <1>1
  <2>2. QED
    BY <2>1, <1>3, <1>4
<1>7. ASSUME NEW i \in Sels, NEW r \in PageAfter(c), i <= r, c < i
      PROVE  i \in PageAfter(c)
  <2>1. i \in Sent /\ r \in stored \cap Sent /\ i \in Nat
    BY <1>5, LogFacts DEF Sels
  <2>2. i \in stored
    BY <1>7, <2>1, StoredBefore
  <2>3. i \in S
    BY <1>1, <1>7, <2>1, <2>2
  <2>4. QED
    BY <1>3, <1>4, <1>7, <2>3
<1>8. ASSUME Cardinality(PageAfter(c)) # Count + 1, NEW i \in Sels \cap stored, c < i
      PROVE  i \in PageAfter(c)
  <2>1. i \in Nat
    BY LogFacts
  <2>2. i \in S
    BY <1>1, <1>8, <2>1
  <2>3. QED
    BY <1>3, <1>4, <1>8, <2>2
<1>9. QED
  BY <1>5, <1>6, <1>7, <1>8

\* A listing without a cursor, of records in the order of their times: what is not
\* in it is before it, and then it is full.
LEMMA LastPagesInTime ==
  ASSUME TypeOK, LogInv, InTime, NEW rows \in LastPages
  PROVE  /\ RisingRows(rows) /\ IdsOf(rows) \subseteq Sels \cap stored
         /\ IdsOf(rows) \in SUBSET (1..Len(log))
         /\ \A i \in Sels \cap stored : i \notin IdsOf(rows) =>
              Len(rows) = Count + 1 /\ \A j \in IdsOf(rows) : i < j
<1>1. Selected \in SUBSET (1..Len(log)) /\ Len(log) \in Nat /\ Selected = Sels \cap stored
  BY PagesTyped, LogFacts
<1>2. \A i \in Selected : i \in Nat /\ log[i].time \in Int
  <2>1. ASSUME NEW i \in Selected
        PROVE  i \in Nat /\ log[i].time \in Int
    <3>1. i \in Sent /\ case \in Cases /\ i \in Nat
      BY <1>1 DEF Sels, TypeOK
    <3>2. PICK k \in DOMAIN case.script : log[i] = case.script[k]
      BY <3>1 DEF LogInv
    <3>3. QED
      BY <3>1, <3>2, CasesAssumption DEF IsRunRecord
  <2>2. QED
    BY <2>1
<1>3. \A i, j \in Selected : i # j /\ log[i].time <= log[j].time => i < j
  <2>1. ASSUME NEW i \in Selected, NEW j \in Selected, i # j, log[i].time <= log[j].time
        PROVE  i < j
    <3>1. ~(j < i)
      BY <2>1 DEF InTime, OutOfTime
    <3>2. QED
      BY <1>2, <2>1, <3>1
  <2>2. QED
    BY <2>1
<1>4. /\ rows \in Seq([id : Selected, ended : BOOLEAN])
      /\ Len(rows) \in Nat /\ DOMAIN rows = 1..Len(rows)
      /\ Len(rows) = Count + 1 \/ Len(rows) = Cardinality(Selected)
      /\ IsFiniteSet(Selected)
      /\ \A j, k \in 1..Len(rows) : j < k =>
           rows[j].id # rows[k].id /\ log[rows[j].id].time <= log[rows[k].id].time
      /\ \A i \in Selected \ IdsOf(rows), k \in 1..Len(rows) :
           log[i].time <= log[rows[k].id].time
  BY LastPagesAre
<1>5. /\ \A k \in 1..Len(rows) : rows[k].id \in Selected
      /\ IdsOf(rows) \subseteq Selected
      /\ \A j \in IdsOf(rows) : \E k \in 1..Len(rows) : rows[k].id = j
  <2>1. PICK D : D = Selected
    OBVIOUS
  <2>2. rows \in Seq([id : D, ended : BOOLEAN])
    BY <1>4, <2>1
  <2>3. /\ \A k \in 1..Len(rows) : rows[k].id \in D
        /\ \A j \in IdsOf(rows) : \E k \in 1..Len(rows) : rows[k].id = j
        /\ IdsOf(rows) \subseteq D
    <3>1. PICK R : R = [id : D, ended : BOOLEAN]
      OBVIOUS
    <3>2. rows \in Seq(R)
      BY <2>2, <3>1
    <3>3. rows \in [1..Len(rows) -> R] /\ DOMAIN rows = 1..Len(rows)
      BY <3>2, LenProperties
    <3>4. \A k \in 1..Len(rows) : rows[k].id \in D
      BY <3>1, <3>3
    <3>5. QED
      BY <3>3, <3>4 DEF IdsOf
  <2>4. QED
    BY <2>1, <2>3
<1>6. RisingRows(rows)
  BY <1>3, <1>4, <1>5 DEF RisingRows
<1>7. ASSUME NEW i \in Selected, i \notin IdsOf(rows), NEW j \in IdsOf(rows)
      PROVE  i < j
  <2>1. PICK k \in 1..Len(rows) : rows[k].id = j
    BY <1>5
  <2>2. log[i].time <= log[j].time /\ i # j /\ j \in Selected
    BY <1>4, <1>5, <1>7, <2>1
  <2>3. QED
    BY <1>3, <2>2
<1>8. ASSUME NEW i \in Selected, i \notin IdsOf(rows)
      PROVE  Len(rows) = Count + 1
  <2>1. SUFFICES ASSUME Len(rows) = Cardinality(Selected)
                 PROVE  FALSE
    BY <1>4
  <2>2. PICK n \in Nat : n = Len(rows)
    BY <1>4
  <2>3. PICK f \in [1..n -> Selected] : \A k \in 1..n : f[k] = rows[k].id
    <3>1. [k \in 1..n |-> rows[k].id] \in [1..n -> Selected]
      BY <1>5, <2>2
    <3>2. QED
      BY <3>1
  <2>4. \A j, k \in 1..n : f[j] = f[k] => j = k
    <3>1. ASSUME NEW j \in 1..n, NEW k \in 1..n, f[j] = f[k], j # k
          PROVE  FALSE
      <4>1. j < k \/ k < j
        BY <3>1
      <4>2. rows[j].id = rows[k].id
        BY <2>3, <3>1
      <4>3. QED
        BY <1>4, <2>2, <4>1, <4>2
    <3>2. QED
      BY <3>1
  <2>5. f \in Injection(1..n, Selected)
    BY <2>4 DEF Injection, IsInjective
  <2>6. Cardinality(1..n) = n /\ IsFiniteSet(1..n)
    BY FS_Interval
  <2>7. f \in Surjection(1..n, Selected)
    BY <1>4, <2>1, <2>2, <2>5, <2>6, FS_Injection
  <2>8. PICK k \in 1..n : f[k] = i
    BY <1>8, <2>7 DEF Surjection
  <2>9. rows[k].id \in IdsOf(rows)
    BY <1>4, <2>2 DEF IdsOf
  <2>10. QED
    BY <1>8, <2>3, <2>8, <2>9
<1>9. QED
  BY <1>1, <1>5, <1>6, <1>7, <1>8

\* The rows before a cursor: those left out are before the first, and the page is full.
LEMMA PageBeforeIs ==
  ASSUME TypeOK, LogInv, NEW c \in Nat
  PROVE  /\ PageBefore(c) \subseteq Sels \cap stored
         /\ \A i \in PageBefore(c) : i < c
         /\ \A i \in Sels \cap stored : i < c /\ i \notin PageBefore(c) =>
              Cardinality(PageBefore(c)) = Count + 1 /\ \A j \in PageBefore(c) : i < j
<1> DEFINE S == {i \in Selected : i < c}
<1>1. Selected \in SUBSET (1..Len(log)) /\ Len(log) \in Nat /\ Selected = Sels \cap stored
  BY PagesTyped, LogFacts
<1>2. S \in SUBSET (1..Len(log)) /\ Count + 1 \in Nat \ {0}
  BY <1>1, CountAssumption
<1>3. /\ LastOf(S, Count + 1) \subseteq S
      /\ \A i \in S, j \in LastOf(S, Count + 1) : j <= i => i \in LastOf(S, Count + 1)
      /\ Cardinality(LastOf(S, Count + 1)) # Count + 1 => LastOf(S, Count + 1) = S
  BY <1>1, <1>2, LastOfIs
<1>4. PageBefore(c) = LastOf(S, Count + 1)
  BY DEF PageBefore
<1>5. ASSUME NEW i \in Sels \cap stored, i < c, i \notin PageBefore(c), NEW j \in PageBefore(c)
      PROVE  i < j
  <2>1. i \in Nat /\ j \in Nat /\ i \in S
    BY <1>1, <1>3, <1>4, <1>5
  <2>2. ~(j <= i)
    BY <1>3, <1>4, <1>5, <2>1
  <2>3. QED
    BY <2>1, <2>2
<1>6. ASSUME NEW i \in Sels \cap stored, i < c, i \notin PageBefore(c)
      PROVE  Cardinality(PageBefore(c)) = Count + 1
  <2>1. i \in S
    BY <1>1, <1>6
  <2>2. QED
    BY <1>3, <1>4, <1>6, <2>1
<1>7. \A i \in PageBefore(c) : i < c
  BY <1>3, <1>4
<1>8. QED
  BY <1>1, <1>3, <1>4, <1>5, <1>6, <1>7

\* What the listing of a request has listed.
LEMMA ServeListIs ==
  ASSUME TypeOK, LogInv, TaskInv, ServeList, NEW S \in SUBSET (1..Len(log)),
         request'.rows = RowsOf(S)
  PROVE  /\ Listed' = S /\ RisingRows(Rows')
         /\ Full' <=> Cardinality(S) = Count + 1
         /\ Full' => Rows'[1].id \in S
<1>1. Rows' = RowsOf(S) /\ Len(log) \in Nat
  BY ViewFacts DEF Rows
<1>2. /\ Len(RowsOf(S)) = Cardinality(S)
      /\ IdsOf(RowsOf(S)) = S
      /\ \A j, k \in DOMAIN RowsOf(S) : j < k => RowsOf(S)[j].id < RowsOf(S)[k].id
      /\ RowsOf(S) \in Seq([id : S, ended : BOOLEAN])
  BY <1>1, RowsOfIs
<1>3. Listed' = S
  BY <1>1, <1>2 DEF Listed, IdsOf
<1>4. RisingRows(Rows')
  BY <1>1, <1>2 DEF RisingRows
<1>5. Full' <=> Cardinality(S) = Count + 1
  BY <1>1, <1>2 DEF Full
<1>6. Full' => Rows'[1].id \in S
  <2>1. Full' => RowsOf(S) # <<>>
    <3>1. Full' => Len(RowsOf(S)) # 0
      BY <1>2, <1>5, CountAssumption
    <3>2. QED
      BY <3>1, EmptySeq
  <2>2. Full' => 1 \in 1..Len(RowsOf(S))
    BY <1>2, <2>1, RowsAre
  <2>3. Full' => RowsOf(S)[1].id \in S
    BY <1>2, <2>2, RowsAre
  <2>4. QED
    BY <1>1, <2>3
<1>7. QED
  BY <1>3, <1>4, <1>5, <1>6

\* What the first listing has listed.
LEMMA FirstListIs ==
  ASSUME TypeOK, LogInv, InTime, ServeList, request.type = "first"
  PROVE  \E P \in SUBSET (1..Len(log)) :
           /\ Listed' = P /\ RisingRows(Rows') /\ P \subseteq Sels \cap stored
           /\ Full' => Rows'[1].id \in P
           /\ \A i \in Sels \cap stored : i \notin P => Full' /\ \A j \in P : i < j
<1>1. request \in [type : {"none", "first", "more", "older"}, at : {"no", "list", "look", "back"},
                   cursor : {0} \cup DOMAIN log, rows : Seq(RowType)]
  BY DEF TypeOK
<1>2. PICK rows \in LastPages : request'.rows = rows
  BY <1>1 DEF ServeList
<1>3. /\ RisingRows(rows) /\ IdsOf(rows) \subseteq Sels \cap stored
      /\ IdsOf(rows) \in SUBSET (1..Len(log))
      /\ \A i \in Sels \cap stored : i \notin IdsOf(rows) =>
           Len(rows) = Count + 1 /\ \A j \in IdsOf(rows) : i < j
  BY LastPagesInTime
<1>4. /\ Listed' = IdsOf(rows) /\ Rows' = rows /\ (Full' <=> Len(rows) = Count + 1)
  BY <1>2 DEF Listed, Rows, Full, IdsOf
<1>5. DOMAIN rows = 1..Len(rows) /\ Len(rows) \in Nat /\ Count + 1 \in Nat \ {0}
  BY LastPagesAre, CountAssumption
<1>6. Full' => rows[1].id \in IdsOf(rows)
  <2>1. Full' => 1 \in DOMAIN rows
    BY <1>4, <1>5
  <2>2. QED
    BY <2>1 DEF IdsOf
<1>7. RisingRows(Rows')
  BY <1>3, <1>4
<1>8. QED
  BY <1>3, <1>4, <1>6, <1>7

\* A listing finds a stretch of what is selected and stored.
LEMMA ListInvServe ==
  ASSUME TypeOK, LogInv, TaskInv, InTime, ServeList
  PROVE  ListInv'
<1>1. /\ request \in [type : {"none", "first", "more", "older"},
                      at : {"no", "list", "look", "back"},
                      cursor : {0} \cup DOMAIN log, rows : Seq(RowType)]
      /\ request.at = "list" /\ (request.type = "none" => request = NoRequest)
  BY DEF TypeOK, ServeList
<1>2. request.type \in {"first", "more", "older"}
  BY <1>1 DEF NoRequest
<1>3. /\ request'.type = request.type /\ request'.cursor = request.cursor
      /\ request.type = "first" => seen' = stored
      /\ request.type = "more" => request'.rows = RowsOf(PageAfter(request.cursor))
      /\ request.type = "older" => request'.rows = RowsOf(PageBefore(request.cursor))
      /\ stored' = stored
  BY <1>1, <1>2 DEF ServeList, dbVars
<1>4. LogKept
  BY LogSame DEF ServeList
<1>5. request.cursor \in Nat
  BY ViewFacts
<1>6. /\ PageAfter(request.cursor) \in SUBSET (1..Len(log))
      /\ PageBefore(request.cursor) \in SUBSET (1..Len(log))
  BY PagesTyped
<1>7. CASE request.type = "more"
  <2>1. /\ Listed' = PageAfter(request.cursor) /\ RisingRows(Rows')
    BY <1>3, <1>6, <1>7, ServeListIs
  <2>2. Listed' \subseteq Sels' \cap stored'
    BY <1>3, <1>4, <1>5, <2>1, PageAfterIs DEF LogKept
  <2>3. \A i \in Listed' : request'.cursor < i
    BY <1>3, <1>5, <2>1, PageAfterIs
  <2>4. ASSUME NEW i \in Sels', i \in UpToListed', request'.cursor < i
        PROVE  i \in Listed'
    <3>1. PICK r \in PageAfter(request.cursor) : i <= r
      BY <2>1, <2>4 DEF UpToListed
    <3>2. QED
      BY <1>3, <1>4, <1>5, <2>1, <2>4, <3>1, PageAfterIs DEF LogKept
  <2>5. QED
    BY <1>3, <1>7, <2>1, <2>2, <2>3, <2>4 DEF ListInv
<1>8. CASE request.type = "older"
  <2>1. /\ Listed' = PageBefore(request.cursor) /\ RisingRows(Rows')
        /\ Full' <=> Cardinality(PageBefore(request.cursor)) = Count + 1
        /\ Full' => Rows'[1].id \in PageBefore(request.cursor)
    BY <1>3, <1>6, <1>8, ServeListIs
  <2>2. Listed' \subseteq Sels' \cap stored'
    BY <1>3, <1>4, <1>5, <2>1, PageBeforeIs DEF LogKept
  <2>3. \A i \in Listed' : i < request'.cursor
    BY <1>3, <1>5, <2>1, PageBeforeIs
  <2>4. ASSUME NEW i \in Sels', i \in UpToListed'
        PROVE  i \in Listed' \cup LeftOut'
    <3>1. PICK r \in PageBefore(request.cursor) : i <= r
      BY <2>1, <2>4 DEF UpToListed
    <3>2. i \in Sent /\ r \in stored \cap Sent /\ i \in Sels /\ r < request.cursor
          /\ i \in Nat /\ r \in Nat
      <4>1. i \in Sels /\ r \in Sels \cap stored /\ r < request.cursor
        BY <1>4, <1>5, <2>4, <3>1, PageBeforeIs DEF LogKept
      <4>2. QED
        BY <4>1, ViewFacts DEF Sels
    <3>3. i \in stored /\ i < request.cursor
      BY <1>5, <3>1, <3>2, StoredBefore
    <3>4. CASE i \notin Listed'
      <4>1. Cardinality(PageBefore(request.cursor)) = Count + 1
            /\ \A j \in PageBefore(request.cursor) : i < j
        BY <1>5, <2>1, <3>2, <3>3, <3>4, PageBeforeIs
      <4>2. i \in LeftOut'
        BY <1>4, <2>1, <3>2, <4>1 DEF LeftOut, LogKept
      <4>3. QED
        BY <4>2
    <3>5. QED
      BY <3>4
  <2>5. QED
    BY <1>3, <1>8, <2>1, <2>2, <2>3, <2>4 DEF ListInv
<1>9. CASE request.type = "first"
  <2>1. PICK P \in SUBSET (1..Len(log)) :
          /\ Listed' = P /\ RisingRows(Rows') /\ P \subseteq Sels \cap stored
          /\ Full' => Rows'[1].id \in P
          /\ \A i \in Sels \cap stored : i \notin P => Full' /\ \A j \in P : i < j
    BY <1>9, FirstListIs
  <2>2. Listed' \subseteq Sels' \cap stored'
    BY <1>3, <1>4, <2>1 DEF LogKept
  <2>3. ASSUME NEW i \in Sels', i \in UpToListed'
        PROVE  i \in stored
    <3>1. PICK r \in P : i <= r
      BY <2>1, <2>3 DEF UpToListed
    <3>2. i \in Sent /\ r \in stored \cap Sent
      BY <1>4, <2>1, <2>3 DEF LogKept, Sels
    <3>3. QED
      BY <3>1, <3>2, StoredBefore
  <2>4. ASSUME NEW i \in Sels', i \in stored
        PROVE  i \in Listed' \cup LeftOut'
    <3>1. i \in Sent /\ i \in Sels \cap stored
      BY <1>4, <2>4 DEF LogKept, Sels
    <3>2. CASE i \notin Listed'
      <4>1. Full' /\ \A j \in P : i < j
        BY <2>1, <3>1, <3>2
      <4>2. i \in LeftOut'
        BY <1>4, <2>1, <3>1, <4>1 DEF LeftOut, LogKept
      <4>3. QED
        BY <4>2
    <3>3. QED
      BY <3>2
  <2>5. Sels' \cap UpToListed' \subseteq Listed' \cup LeftOut'
    BY <2>3, <2>4
  <2>6. SelApps' \subseteq Sels'
    BY DEF SelApps
  <2>7. SelApps' \cap seen' \subseteq Listed' \cup LeftOut'
    BY <1>3, <1>9, <2>4, <2>6
  <2>8. SelApps' \cap UpToListed' \subseteq seen'
    BY <1>3, <1>9, <2>3, <2>6
  <2>9. QED
    BY <1>3, <1>9, <2>1, <2>2, <2>5, <2>7, <2>8 DEF ListInv
<1>10. QED
  BY <1>2, <1>7, <1>8, <1>9

\* The look-up changes no id.
LEMMA ServeLookUpIs ==
  ASSUME TypeOK, LogInv, ServeLookUp
  PROVE  /\ Listed' = Listed /\ (Full' <=> Full) /\ Len(Rows') = Len(Rows)
         /\ DOMAIN Rows' = DOMAIN Rows
         /\ \A k \in DOMAIN Rows :
              /\ Rows'[k].id = Rows[k].id
              /\ Rows'[k].ended <=>
                   log[Rows[k].id].kind = "SpanCreate" /\ log[Rows[k].id].span_t_id \subseteq closed
         /\ RisingRows(Rows) => RisingRows(Rows')
         /\ Rows'[1].id = Rows[1].id \/ ~Full
         /\ request'.type = request.type /\ request'.cursor = request.cursor /\ request'.at = "back"
<1>1. /\ request \in [type : {"none", "first", "more", "older"},
                      at : {"no", "list", "look", "back"},
                      cursor : {0} \cup DOMAIN log, rows : Seq(RowType)]
  BY DEF TypeOK
<1>2. /\ request'.type = request.type /\ request'.cursor = request.cursor /\ request'.at = "back"
      /\ Rows' = LookUp(Rows)
  BY <1>1 DEF ServeLookUp, Rows
<1>3. Rows \in Seq([id : DOMAIN log, ended : BOOLEAN])
  BY RowsTyped DEF Rows
<1>4. /\ Len(Rows') = Len(Rows) /\ DOMAIN Rows' = DOMAIN Rows /\ IdsOf(Rows') = IdsOf(Rows)
  BY <1>2, <1>3, LookUpIs
<1>5. \A k \in DOMAIN Rows :
        /\ Rows'[k].id = Rows[k].id
        /\ Rows'[k].ended <=>
             log[Rows[k].id].kind = "SpanCreate" /\ log[Rows[k].id].span_t_id \subseteq closed
  BY <1>2, <1>3, LookUpIs
<1>6. Listed' = Listed
  BY <1>4 DEF Listed, IdsOf
<1>7. Full' <=> Full
  BY <1>4 DEF Full
<1>8. RisingRows(Rows) => RisingRows(Rows')
  BY <1>4, <1>5 DEF RisingRows
<1>9. Full => 1 \in DOMAIN Rows
  BY <1>3, RowsAre, CountAssumption DEF Full
<1>10. QED
  BY <1>2, <1>4, <1>5, <1>6, <1>7, <1>8, <1>9

\* A close is not appended by its event.
LEMMA SeenOfLookUp ==
  ASSUME TypeOK, LogInv, ServeLookUp
  PROVE  /\ seen' \subseteq seen /\ SelApps \cap seen' = SelApps \cap seen
         /\ request.type = "first" => seen' \cap Sent = seen \cap Noted
         /\ request.type # "first" => seen' = seen
<1>1. seen' = IF request.type = "first"
              THEN {i \in seen : Closes(i) => log[i].span_t_id \subseteq closed} ELSE seen
  BY DEF ServeLookUp
<1>2. \A i \in SelApps : ~Closes(i)
  BY DEF SelApps, Appended, Appends, Closes
<1>3. seen' \subseteq seen
  BY <1>1
<1>4. SelApps \cap seen' = SelApps \cap seen
  BY <1>1, <1>2
<1>5. request.type = "first" => seen' \cap Sent = seen \cap Noted
  BY <1>1 DEF Noted
<1>6. QED
  BY <1>1, <1>3, <1>4, <1>5

\* Looking up the ends of spans leaves the rows, and forgets no record that is appended.
LEMMA ListInvLookUp ==
  ASSUME TypeOK, LogInv, ListInv, ServeLookUp
  PROVE  ListInv'
<1>1. LogKept /\ stored' = stored /\ request.at = "look"
  BY LogSame DEF ServeLookUp, dbVars
<1>2. /\ Listed' = Listed /\ (Full' <=> Full)
      /\ Rows'[1].id = Rows[1].id \/ ~Full
      /\ request'.type = request.type /\ request'.cursor = request.cursor
  BY ServeLookUpIs
<1>3. LeftOut' = LeftOut /\ UpToListed' = UpToListed
  BY <1>1, <1>2 DEF LeftOut, UpToListed, LogKept
<1>4. SelApps \cap seen' = SelApps \cap seen
  BY SeenOfLookUp
<1>5. RisingRows(Rows')
  BY <1>1, ServeLookUpIs DEF ListInv
<1>6. SelApps' \cap seen' = SelApps \cap seen /\ Sels' = Sels /\ SelApps' = SelApps
  BY <1>1, <1>4 DEF LogKept
<1>7. QED
  BY <1>1, <1>2, <1>3, <1>5, <1>6 DEF ListInv

\* More rows in the database change nothing of a listing.
LEMMA ListInvQuiet ==
  ASSUME TypeOK, LogInv, ListInv, request' = request, seen' = seen, stored \subseteq stored',
         LogKept \/ LogMore(Len(log'))
  PROVE  ListInv'
<1>1. Rows' = Rows /\ Listed' = Listed /\ (Full' <=> Full)
  BY DEF Rows, Listed, Full, IdsOf
<1>2. CASE LogKept
  <2>1. LeftOut' = LeftOut /\ UpToListed' = UpToListed
    BY <1>1, <1>2 DEF LeftOut, UpToListed, LogKept
  <2>2. QED
    BY <1>1, <1>2, <2>1 DEF ListInv, LogKept
<1>3. CASE LogMore(Len(log'))
  <2>1. PICK n \in Nat \ {0} :
          /\ n \notin DOMAIN log /\ (\A i \in DOMAIN log : i < n)
          /\ Sent' = Sent \cup {n} /\ Sels \subseteq Sels' /\ Sels' \subseteq Sels \cup {n}
          /\ SelApps \subseteq SelApps' /\ SelApps' \subseteq SelApps \cup {n}
    BY <1>3 DEF LogMore
  <2>2. Listed \subseteq DOMAIN log /\ seen \subseteq DOMAIN log /\ DOMAIN log \subseteq Nat
    BY ViewFacts
  <2>3. LeftOut \subseteq LeftOut'
    BY <1>1, <2>1 DEF LeftOut
  <2>4. UpToListed' \subseteq UpToListed
    <3>1. \A r \in Listed : ~(n <= r)
      BY <2>1, <2>2
    <3>2. QED
      BY <1>1, <2>1, <3>1 DEF UpToListed
  <2>5. n \notin UpToListed'
    <3>1. \A r \in Listed : ~(n <= r)
      BY <2>1, <2>2
    <3>2. QED
      BY <1>1, <3>1 DEF UpToListed
  <2>6. Sels' \cap UpToListed' \subseteq Sels \cap UpToListed
    BY <2>1, <2>4, <2>5
  <2>7. SelApps' \cap UpToListed' \subseteq SelApps \cap UpToListed
    BY <2>1, <2>4, <2>5
  <2>8. SelApps' \cap seen' \subseteq SelApps \cap seen
    BY <2>1, <2>2
  <2>9. Listed \subseteq Sels \cap stored => Listed' \subseteq Sels' \cap stored'
    BY <1>1, <2>1
  <2>10. QED
    BY <1>1, <2>3, <2>6, <2>7, <2>8, <2>9 DEF ListInv
<1>4. QED
  BY <1>2, <1>3

\* Every step keeps what is said of a listing.
LEMMA ListInvNext ==
  ASSUME TypeOK, LogInv, TaskInv, InTime, ListInv, [Next]_vars
  PROVE  ListInv'
<1>1. CASE QuietStep
  BY <1>1, ListInvQuiet DEF QuietStep, ViewKept
<1>2. CASE LogKept /\ (Swap \/ Notify \/ TellView \/ SubscribeList \/ Subscribe \/ EventArrives)
  <2>1. request' = request /\ seen' = seen /\ stored' = stored
    BY <1>2 DEF Swap, Notify, TellView, SubscribeList, Subscribe, EventArrives, missVars, dbVars
  <2>2. QED
    BY <1>2, <2>1, ListInvQuiet
<1>3. CASE FirstArrives \/ FetchMore \/ FetchOlder \/ MoreArrives \/ OlderArrives
  <2>1. request'.at \in {"no", "list"}
    <3>1. CASE FirstArrives \/ MoreArrives \/ OlderArrives
      BY <3>1 DEF FirstArrives, MoreArrives, OlderArrives, NoRequest
    <3>2. CASE FetchMore
      <4>1. request' = [type |-> "more", at |-> "list", cursor |-> shown[Len(shown)].id,
            rows |-> <<>>]
        BY <3>2 DEF FetchMore, NoRequest
      <4>2. QED
        BY <4>1
    <3>3. CASE FetchOlder
      <4>1. request' = [type |-> "older", at |-> "list", cursor |-> shown[1].id, rows |-> <<>>]
        BY <3>3 DEF FetchOlder, NoRequest
      <4>2. QED
        BY <4>1
    <3>4. QED
      BY <1>3, <3>1, <3>2, <3>3
  <2>2. QED
    BY <2>1 DEF ListInv
<1>4. QED
  BY <1>1, <1>2, <1>3, LoudSteps, ListInvServe, ListInvLookUp DEF Server, View

\* The first and the last of rising rows.
LEMMA RisingEnds ==
  ASSUME NEW D \in SUBSET Nat, NEW rows \in Seq([id : D, ended : BOOLEAN]), RisingRows(rows),
         rows # <<>>, NEW r \in IdsOf(rows)
  PROVE  /\ r \in Nat /\ rows[1].id \in Nat /\ rows[Len(rows)].id \in Nat
         /\ rows[1].id \in IdsOf(rows) /\ rows[Len(rows)].id \in IdsOf(rows)
         /\ rows[1].id <= r /\ r <= rows[Len(rows)].id
<1>1. /\ Len(rows) \in Nat /\ DOMAIN rows = 1..Len(rows) /\ 1 \in 1..Len(rows)
      /\ Len(rows) \in 1..Len(rows)
  BY RowsAre
<1>2. PICK k \in 1..Len(rows) : rows[k].id = r
  BY RowsAre
<1>3. r \in Nat /\ rows[1].id \in Nat /\ rows[Len(rows)].id \in Nat
  <2>1. rows[1].id \in D /\ rows[Len(rows)].id \in D /\ rows[k].id \in D
    BY <1>1, RowsAre
  <2>2. QED
    BY <1>2, <2>1
<1>4. rows[1].id \in IdsOf(rows) /\ rows[Len(rows)].id \in IdsOf(rows)
  BY <1>1 DEF IdsOf
<1>5. rows[1].id <= r
  <2>1. k = 1 \/ rows[1].id < rows[k].id
    BY <1>1 DEF RisingRows
  <2>2. QED
    BY <1>2, <1>3, <2>1
<1>6. r <= rows[Len(rows)].id
  <2>1. k = Len(rows) \/ k < Len(rows)
    <3>1. Len(rows) \in Nat
      BY <1>1
    <3>2. \A n \in Nat : \A j \in 1..n : j = n \/ j < n
      OBVIOUS
    <3>3. QED
      BY <3>1, <3>2
  <2>2. k < Len(rows) => rows[k].id < rows[Len(rows)].id
    BY <1>1 DEF RisingRows
  <2>3. QED
    BY <1>2, <1>3, <2>1, <2>2
<1>7. QED
  BY <1>3, <1>4, <1>5, <1>6

\* Where the event source begins: after the last row, which is in the database.
LEMMA FirstCursor ==
  ASSUME TypeOK, LogInv, PhaseInv, ListInv, FirstArrives
  PROVE  /\ source'.cursor = 0 \/ source'.cursor \in Listed
         /\ \A i \in Listed \cup LeftOut : i <= source'.cursor
         /\ \A i \in Sent : i <= source'.cursor => i \in UpToListed
         /\ source'.cursor \in Nat
<1>1. PICK d \in {0, 1} :
        /\ shown' = <<>> => Rows = <<>> /\ ~Full
        /\ shown' # <<>> => /\ source'.cursor = shown'[Len(shown')].id
                            /\ shown'[Len(shown')] = Rows[Len(Rows)]
                            /\ Len(Rows) \in 1..Len(Rows)
        /\ shown' = <<>> => source'.cursor = 0
        /\ Len(Rows) \in Nat
  BY FirstShown
<1>2. RisingRows(Rows)
  BY DEF FirstArrives, ListInv
<1>3. Rows \in Seq([id : DOMAIN log, ended : BOOLEAN]) /\ DOMAIN log \in SUBSET Nat
  BY RowsTyped DEF Rows
<1>4. CASE shown' = <<>>
  <2>1. Listed = {} /\ LeftOut = {} /\ source'.cursor = 0
    BY <1>1, <1>4, NoRows DEF Listed, LeftOut
  <2>2. \A i \in Sent : ~(i <= 0)
    BY LogFacts
  <2>3. QED
    BY <2>1, <2>2
<1>5. CASE shown' # <<>>
  <2>1. source'.cursor = Rows[Len(Rows)].id
    BY <1>1, <1>5
  <2>2. Rows # <<>>
    BY <1>1, <1>5, <1>3, RowsAre
  <2>3. source'.cursor \in Listed /\ source'.cursor \in Nat
    <3>1. Rows[Len(Rows)].id \in IdsOf(Rows)
      BY <1>1, <1>3, <1>5, RowsAre
    <3>2. QED
      BY <2>1, <3>1, ViewFacts DEF Listed
  <2>4. \A i \in Listed : i <= source'.cursor
    BY <1>2, <1>3, <2>1, <2>2, RisingEnds DEF Listed
  <2>5. ASSUME NEW i \in LeftOut
        PROVE  i <= source'.cursor
    <3>1. i < Rows[1].id /\ i \in Nat
      BY ViewFacts DEF LeftOut
    <3>2. Rows[1].id <= source'.cursor /\ Rows[1].id \in Nat
      BY <1>2, <1>3, <2>1, <2>2, <2>3, RisingEnds DEF Listed
    <3>3. QED
      BY <2>3, <3>1, <3>2
  <2>6. \A i \in Sent : i <= source'.cursor => i \in UpToListed
    BY <2>3 DEF UpToListed
  <2>7. QED
    BY <2>3, <2>4, <2>5, <2>6
<1>6. QED
  BY <1>4, <1>5

\* Every step keeps what the first listing has seen.
LEMMA SeenInvNext ==
  ASSUME TypeOK, LogInv, TaskInv, PhaseInv, ListInv, SeenInv, [Next]_vars
  PROVE  SeenInv'
<1>1. /\ request \in [type : {"none", "first", "more", "older"},
                      at : {"no", "list", "look", "back"},
                      cursor : {0} \cup DOMAIN log, rows : Seq(RowType)]
      /\ source \in [at : {"no", "list", "look", "open"}, cursor : {0} \cup DOMAIN log,
                     rows : Seq(RowType)]
  BY DEF TypeOK
<1>2. ASSUME LogKept, seen' = seen, source'.cursor = source.cursor,
             request'.type # "first" => request.type # "first"
      PROVE  SeenInv'
  BY <1>2 DEF SeenInv, LogKept
<1>3. CASE QuietStep
  <2>1. request' = request /\ source' = source /\ seen' = seen
    BY <1>3 DEF QuietStep, ViewKept
  <2>2. CASE LogKept
    BY <1>2, <2>1, <2>2
  <2>3. CASE LogMore(Len(log'))
    <3>1. PICK n \in Nat \ {0} :
            /\ n \notin DOMAIN log /\ (\A i \in DOMAIN log : i < n)
            /\ SelApps \subseteq SelApps' /\ SelApps' \subseteq SelApps \cup {n}
      BY <2>3 DEF LogMore
    <3>2. n \notin seen /\ source.cursor < n /\ source.cursor \in Nat
      BY <3>1, ViewFacts
    <3>3. n \notin seen /\ ~(n <= source.cursor)
      BY <3>2
    <3>4. QED
      BY <2>1, <3>1, <3>3 DEF SeenInv
  <2>4. QED
    BY <1>3, <2>2, <2>3 DEF QuietStep
<1>4. CASE LogKept /\ (Swap \/ Notify \/ TellView \/ EventArrives \/ MoreArrives \/ OlderArrives)
  <2>1. seen' = seen /\ source' = source
    BY <1>4 DEF Swap, Notify, TellView, EventArrives, MoreArrives, OlderArrives, missVars
  <2>2. request' = request \/ request.type # "first"
    BY <1>4 DEF Swap, Notify, TellView, EventArrives, MoreArrives, OlderArrives
  <2>3. QED
    BY <1>2, <1>4, <2>1, <2>2
<1>5. CASE LogKept /\ (SubscribeList \/ Subscribe)
  <2>1. seen' = seen /\ request' = request /\ source'.cursor = source.cursor
    BY <1>1, <1>5 DEF SubscribeList, Subscribe, missVars
  <2>2. QED
    BY <1>2, <1>5, <2>1
<1>6. CASE LogKept /\ (ServeList \/ ServeLookUp)
  <2>1. source' = source /\ request'.type = request.type
        /\ (request.type # "first" => seen' = seen)
    BY <1>1, <1>6 DEF ServeList, ServeLookUp
  <2>2. QED
    BY <1>2, <1>6, <2>1 DEF SeenInv
<1>7. CASE LogKept /\ (FetchMore \/ FetchOlder)
  <2>1. seen' = seen /\ source' = source /\ request.type = "none"
    BY <1>7 DEF FetchMore, FetchOlder, NoRequest
  <2>2. QED
    BY <1>2, <1>7, <2>1
<1>8. CASE LogKept /\ FirstArrives
  <2>1. seen' = seen /\ request.type = "first" /\ request.at = "back"
    BY <1>8 DEF FirstArrives, missVars
  <2>2. /\ SelApps \cap seen \subseteq Listed \cup LeftOut
        /\ SelApps \cap UpToListed \subseteq seen
    BY <2>1 DEF ListInv
  <2>3. /\ \A i \in Listed \cup LeftOut : i <= source'.cursor
        /\ \A i \in Sent : i <= source'.cursor => i \in UpToListed
    BY <1>8, FirstCursor
  <2>4. SelApps \subseteq Sent
    BY DEF SelApps, Sels
  <2>5. \A i \in SelApps : i \in seen <=> i <= source'.cursor
    BY <2>2, <2>3, <2>4
  <2>6. QED
    BY <1>8, <2>1, <2>5 DEF SeenInv, LogKept
<1>9. QED
  BY <1>3, <1>4, <1>5, <1>6, <1>7, <1>8, LoudSteps DEF Server, View

-----------------------------------------------------------------------------
(* The events.                                                             *)

\* A step that leaves the subscription alone.
LEMMA StreamFrame ==
  ASSUME StreamInv, LogKept, Untold' = Untold, stored \subseteq stored', lost \subseteq lost',
         UNCHANGED <<stream, heard, seen, source, watched>>
  PROVE  StreamInv'
<1>1. Coming' = Coming /\ IdsOf(stream)' = IdsOf(stream) /\ IdsOf(source.rows)' = IdsOf(source.rows)
  BY DEF Coming, IdsOf, LogKept
<1>2. Sels' = Sels /\ Sent' = Sent /\ Finds' = Finds /\ Lives' = Lives /\ Appended' = Appended
  BY DEF LogKept
<1>3. RisingRows(source.rows)' <=> RisingRows(source.rows)
  BY DEF RisingRows
<1>4. QED
  BY <1>1, <1>2, <1>3 DEF StreamInv

\* As long as the view's sender is not let in, what was seen does not matter.
LEMMA StreamUnwatched ==
  ASSUME StreamInv, LogKept, stored \subseteq stored', seen' \subseteq stored', ~watched, ~watched',
         UNCHANGED <<stream, heard, source>>
  PROVE  StreamInv'
<1>1. Coming' = Coming /\ IdsOf(stream)' = IdsOf(stream) /\ IdsOf(source.rows)' = IdsOf(source.rows)
  BY DEF Coming, IdsOf, LogKept
<1>2. Sels' = Sels /\ Sent' = Sent /\ Finds' = Finds /\ Appended' = Appended
  BY DEF LogKept
<1>3. RisingRows(source.rows)' <=> RisingRows(source.rows)
  BY DEF RisingRows
<1>4. QED
  BY <1>1, <1>2, <1>3 DEF StreamInv

\* A record more is untold.
LEMMA StreamMore ==
  ASSUME TypeOK, StreamInv, LogMore(Len(log')), Untold' = Untold \cup {Len(log')},
         stored \subseteq stored', UNCHANGED <<stream, heard, seen, source, watched, lost>>
  PROVE  StreamInv'
<1>1. PICK n \in Nat \ {0} :
        /\ n \notin DOMAIN log /\ Untold' = Untold \cup {n}
        /\ Sent' = Sent \cup {n} /\ Sels \subseteq Sels' /\ Finds \subseteq Finds'
        /\ Lives' \subseteq Lives \cup {n} /\ Appended' \subseteq Appended \cup {n}
  BY DEF LogMore
<1>2. /\ n \notin IdsOf(stream) /\ n \notin heard /\ n \notin seen /\ source.cursor # n
      /\ \A k \in DOMAIN stream : stream[k].id \in IdsOf(stream)
  BY <1>1, ViewFacts
<1>3. /\ Coming' = Coming /\ IdsOf(stream)' = IdsOf(stream)
      /\ IdsOf(source.rows)' = IdsOf(source.rows)
      /\ heard \cap Sent' = heard \cap Sent /\ IdsOf(stream) \cap Sent' = IdsOf(stream) \cap Sent
  BY <1>1, <1>2 DEF Coming, IdsOf
<1>4. n \notin Coming
  BY <1>2 DEF Coming
<1>5. RisingRows(source.rows)' <=> RisingRows(source.rows)
  BY DEF RisingRows
<1>6. \A k \in DOMAIN stream : stream[k].id \in Sent' => stream[k].id \in Sent
  BY <1>1, <1>2
<1>7. \A j, k \in DOMAIN stream' :
        j < k /\ stream'[j].id \in Sent' /\ stream'[k].id \in Sent' => stream'[j].id < stream'[k].id
  BY <1>6 DEF StreamInv
<1>8. watched' => (Coming' \cup seen') \cap Untold' = {}
  BY <1>1, <1>2, <1>3, <1>4 DEF StreamInv
<1>9. Coming' \cap Appended' \subseteq Finds'
  BY <1>1, <1>3, <1>4 DEF StreamInv
<1>10. watched' => Lives' \subseteq seen' \cup heard' \cup lost' \cup IdsOf(stream)' \cup Untold'
  BY <1>1, <1>3 DEF StreamInv
<1>11. /\ \A h \in heard' \cap Sent' : \A i \in IdsOf(stream)' \cap Sent' : h < i
       /\ \A i \in IdsOf(stream)' \cap Sent' : source'.cursor < i
  BY <1>3 DEF StreamInv
<1>12. /\ ~watched' => Coming' \subseteq stored'
       /\ seen' \subseteq stored'
       /\ source'.cursor # 0 => source'.cursor \in stored' \cap Sent'
       /\ watched' => source'.cursor \notin Untold'
  BY <1>1, <1>2, <1>3 DEF StreamInv
<1>13. /\ source'.at = "open" => IdsOf(source.rows)' \subseteq IdsOf(stream)' \cup heard'
       /\ IdsOf(source.rows)' \subseteq Sels' \cap stored'
       /\ \A i \in IdsOf(source.rows)' : source'.cursor < i
  BY <1>1, <1>3 DEF StreamInv
<1>14. QED
  BY <1>5, <1>7, <1>8, <1>9, <1>10, <1>11, <1>12, <1>13 DEF StreamInv

\* The view's sender is let in: what is to be told from now on is not stored yet.
LEMMA StreamSwap ==
  ASSUME TypeOK, LogInv, TaskInv, PhaseInv, StreamInv, LogKept, Swap
  PROVE  StreamInv'
<1>1. /\ Untold' = Untold /\ stored' = stored /\ stored \cap Sent = Sent \ Untold
      /\ Untold \subseteq Sent
  BY TaskInvSwap, TaskFacts
<1>2. /\ UNCHANGED <<stream, heard, seen, source>> /\ watched' = (watched \/ joining)
      /\ lost' = IF joining THEN lost \cup MissedBefore ELSE lost
  BY DEF Swap
<1>3. CASE watched \/ ~joining
  <2>1. watched \in BOOLEAN /\ joining \in BOOLEAN
    BY DEF TypeOK
  <2>2. watched' = watched
    BY <1>2, <1>3, <2>1
  <2>3. lost \subseteq lost'
    BY <1>2
  <2>4. QED
    BY <1>1, <1>2, <2>2, <2>3, StreamFrame
<1>4. CASE ~watched /\ joining
  <2>1. source.at = "open"
    BY <1>4 DEF PhaseInv
  <2>2. Coming' = Coming /\ IdsOf(stream)' = IdsOf(stream)
        /\ IdsOf(source.rows)' = IdsOf(source.rows)
    BY <1>2 DEF Coming, IdsOf, LogKept
  <2>3. Sels' = Sels /\ Sent' = Sent /\ Finds' = Finds /\ Lives' = Lives /\ Appended' = Appended
    BY DEF LogKept
  <2>4. RisingRows(source.rows)' <=> RisingRows(source.rows)
    BY <1>2 DEF RisingRows
  <2>5. (Coming \cup seen) \cap Untold = {}
    BY <1>1, <1>4 DEF StreamInv, Coming
  <2>6. source.cursor \notin Untold
    <3>1. 0 \notin Untold
      BY <1>1, LogFacts
    <3>2. QED
      BY <1>1, <3>1 DEF StreamInv
  <2>7. Lives \subseteq seen \cup heard \cup lost' \cup IdsOf(stream) \cup Untold
    <3>1. Lives \subseteq Sent
      BY DEF Lives
    <3>2. IdsOf(source.rows) \subseteq IdsOf(stream) \cup heard
      BY <2>1 DEF StreamInv
    <3>3. MissedBefore \subseteq lost'
      BY <1>2, <1>4
    <3>4. QED
      BY <1>1, <3>1, <3>2, <3>3 DEF MissedBefore
  <2>8. QED
    BY <1>1, <1>2, <2>2, <2>3, <2>4, <2>5, <2>6, <2>7 DEF StreamInv
<1>5. QED
  BY <1>3, <1>4

\* The next of the batch is told.
LEMMA NotifyIs ==
  ASSUME TypeOK, LogInv, TaskInv, Notify
  PROVE  \E n \in Untold :
           /\ n = batch[told + 1] /\ n \in Sent /\ n \in DOMAIN log
           /\ Untold' \subseteq Untold /\ n \notin Untold' /\ Untold \subseteq Untold' \cup {n}
           /\ \A i \in Sent \ Untold : i < n
<1>1. /\ batch \in Seq(DOMAIN log) /\ told \in 0..Len(batch) /\ told < Len(batch)
      /\ told' = told + 1 /\ UNCHANGED <<batch, filling, channel>>
  BY DEF TypeOK, Notify
<1>2. Len(batch) \in Nat /\ DOMAIN batch = 1..Len(batch) /\ told \in Nat
  BY <1>1, LenProperties
<1>3. told + 1 \in 1..Len(batch) /\ told + 1 \in (told + 1)..Len(batch)
  BY <1>1, <1>2
<1>4. Ahead' = Ahead
  BY <1>1 DEF Ahead, IdsIn
<1>5. Untold' = {batch[k] : k \in (told + 2)..Len(batch)} \cup Ahead
  <2>1. told' + 1 = told + 2
    BY <1>1, <1>2
  <2>2. QED
    BY <1>1, <1>4, <2>1 DEF Untold
<1>6. Untold = {batch[k] : k \in (told + 1)..Len(batch)} \cup Ahead
  BY DEF Untold
<1>7. batch[told + 1] \in Untold /\ batch[told + 1] \in InBatch
  BY <1>2, <1>3, <1>6 DEF InBatch, IdsIn
<1>8. batch[told + 1] \in Sent /\ batch[told + 1] \in DOMAIN log /\ batch[told + 1] \in Nat
  BY <1>7, LogFacts DEF TaskInv
<1>9. Untold' \subseteq Untold
  <2>1. \A k \in (told + 2)..Len(batch) : k \in (told + 1)..Len(batch)
    BY <1>2
  <2>2. QED
    BY <1>5, <1>6, <2>1
<1>10. Untold \subseteq Untold' \cup {batch[told + 1]}
  <2>1. \A k \in (told + 1)..Len(batch) : k = told + 1 \/ k \in (told + 2)..Len(batch)
    BY <1>2
  <2>2. QED
    BY <1>5, <1>6, <2>1
<1>11. batch[told + 1] \notin Untold'
  <2>1. ASSUME NEW k \in (told + 2)..Len(batch), batch[k] = batch[told + 1]
        PROVE  FALSE
    <3>1. k \in 1..Len(batch) /\ told + 1 < k
      BY <1>2
    <3>2. batch[told + 1] < batch[k]
      BY <1>2, <1>3, <3>1 DEF TaskInv, Rising
    <3>3. QED
      BY <1>8, <2>1, <3>2
  <2>2. ASSUME batch[told + 1] \in Ahead
        PROVE  FALSE
    <3>1. batch[told + 1] < batch[told + 1]
      BY <1>7, <2>2 DEF TaskInv
    <3>2. QED
      BY <1>8, <3>1
  <2>3. QED
    BY <1>5, <2>1, <2>2
<1>12. \A i \in Sent \ Untold : i < batch[told + 1]
  BY <1>7, TaskFacts
<1>13. QED
  BY <1>7, <1>8, <1>9, <1>10, <1>11, <1>12

\* A record is told after those before it.
LEMMA StreamNotify ==
  ASSUME TypeOK, LogInv, TaskInv, StreamInv, LogKept, Notify
  PROVE  StreamInv'
<1>1. PICK n \in Untold :
        /\ n = batch[told + 1] /\ n \in Sent /\ n \in DOMAIN log
        /\ Untold' \subseteq Untold /\ n \notin Untold' /\ Untold \subseteq Untold' \cup {n}
        /\ \A i \in Sent \ Untold : i < n
  BY NotifyIs
<1>2. /\ UNCHANGED <<heard, seen, source, watched, lost, stored>>
      /\ stream' = IF watched /\ LiveSelects(filter, log[n]) THEN Append(stream, Row(n)) ELSE stream
  BY <1>1 DEF Notify, missVars, dbVars
<1>3. Sels' = Sels /\ Sent' = Sent /\ Finds' = Finds /\ Lives' = Lives /\ Appended' = Appended
  BY DEF LogKept
<1>4. IdsOf(source.rows)' = IdsOf(source.rows)
      /\ (RisingRows(source.rows)' <=> RisingRows(source.rows))
  BY <1>2 DEF IdsOf, RisingRows
<1>5. CASE ~(watched /\ n \in Lives)
  <2>1. stream' = stream
    BY <1>1, <1>2, <1>5 DEF Lives
  <2>2. Coming' = Coming /\ IdsOf(stream)' = IdsOf(stream)
    BY <1>2, <1>3, <2>1 DEF Coming, IdsOf
  <2>3. watched => Lives \subseteq seen \cup heard \cup lost \cup IdsOf(stream) \cup Untold'
    BY <1>1, <1>5 DEF StreamInv
  <2>4. watched => (Coming \cup seen) \cap Untold' = {} /\ source.cursor \notin Untold'
    BY <1>1 DEF StreamInv
  <2>5. QED
    BY <1>2, <1>3, <1>4, <2>1, <2>2, <2>3, <2>4 DEF StreamInv
<1>6. CASE watched /\ n \in Lives
  <2>1. stream' = Append(stream, Row(n))
    BY <1>2, <1>6 DEF Lives
  <2>2. stream \in Seq([id : DOMAIN log, ended : BOOLEAN])
    BY RowsTyped
  <2>3. Row(n) \in [id : DOMAIN log, ended : BOOLEAN] /\ Row(n).id = n
    BY <1>1 DEF Row
  <2>4. /\ Len(stream) \in Nat
        /\ \A k \in 1..Len(stream) : stream'[k] = stream[k]
        /\ stream'[Len(stream) + 1].id = n
        /\ Len(stream') = Len(stream) + 1
        /\ IdsOf(stream') = IdsOf(stream) \cup {n}
    BY <2>1, <2>2, <2>3, IdsOfAppend
  <2>5. stream' \in Seq([id : DOMAIN log, ended : BOOLEAN])
    BY <2>1, <2>2, <2>3, IdsOfAppend
  <2>6. DOMAIN stream' = 1..(Len(stream) + 1) /\ DOMAIN stream = 1..Len(stream)
    BY <2>2, <2>4, <2>5, RowsAre
  <2>7. IdsOf(stream)' = IdsOf(stream) \cup {n} /\ Coming' = Coming \cup {n}
    BY <1>1, <1>2, <1>3, <2>4 DEF Coming, IdsOf
  <2>8. \A i \in Coming : i < n
    BY <1>1, <1>6 DEF StreamInv, Coming
  <2>9. source.cursor < n
    <3>1. 0 < n
      BY <1>1, ViewFacts
    <3>2. QED
      BY <1>1, <1>6, <3>1 DEF StreamInv
  <2>10. \A j, k \in DOMAIN stream' :
           j < k /\ stream'[j].id \in Sent
           /\ stream'[k].id \in Sent => stream'[j].id < stream'[k].id
    <3>1. SUFFICES ASSUME NEW j \in 1..(Len(stream) + 1), NEW k \in 1..(Len(stream) + 1), j < k,
                          stream'[j].id \in Sent, stream'[k].id \in Sent
                   PROVE  stream'[j].id < stream'[k].id
      BY <2>6
    <3>2. j \in 1..Len(stream) /\ (k \in 1..Len(stream) \/ k = Len(stream) + 1)
      BY <2>4, <3>1
    <3>3. stream'[j] = stream[j] /\ stream[j].id \in Coming
      BY <2>4, <2>6, <3>1, <3>2, ViewFacts DEF Coming
    <3>4. CASE k \in 1..Len(stream)
      BY <2>4, <2>6, <3>1, <3>2, <3>3, <3>4 DEF StreamInv
    <3>5. CASE k = Len(stream) + 1
      BY <2>4, <2>8, <3>3, <3>5
    <3>6. QED
      BY <3>2, <3>4, <3>5
  <2>11. \A h \in heard \cap Sent : \A i \in IdsOf(stream)' \cap Sent : h < i
    <3>1. heard \cap Sent \subseteq Coming
      BY DEF Coming
    <3>2. QED
      BY <2>7, <2>8, <3>1 DEF StreamInv
  <2>12. \A i \in IdsOf(stream)' \cap Sent : source.cursor < i
    BY <2>7, <2>9 DEF StreamInv
  <2>13. (Coming' \cup seen) \cap Untold' = {} /\ source.cursor \notin Untold'
    BY <1>1, <1>6, <2>7 DEF StreamInv
  <2>14. Coming' \cap Appended \subseteq Finds
    <3>1. n \in Appended => n \in Finds
      BY <1>6, LogFacts
    <3>2. QED
      BY <2>7, <3>1 DEF StreamInv
  <2>15. Lives \subseteq seen \cup heard \cup lost \cup IdsOf(stream)' \cup Untold'
    BY <1>1, <1>6, <2>7 DEF StreamInv
  <2>16. source.at = "open" => IdsOf(source.rows) \subseteq IdsOf(stream)' \cup heard
    BY <2>7 DEF StreamInv
  <2>17. /\ seen \subseteq stored
         /\ source.cursor # 0 => source.cursor \in stored \cap Sent
         /\ IdsOf(source.rows) \subseteq Sels \cap stored
         /\ \A i \in IdsOf(source.rows) : source.cursor < i
         /\ RisingRows(source.rows)
    BY DEF StreamInv
  <2>18. QED
    BY <1>2, <1>3, <1>4, <1>6, <2>10, <2>11, <2>12, <2>13, <2>14, <2>15, <2>16, <2>17 DEF StreamInv
<1>7. QED
  BY <1>5, <1>6

\* What the registry tells is of others.
LEMMA StreamTellView ==
  ASSUME TypeOK, LogInv, PhaseInv, StreamInv, LogKept, TellView
  PROVE  StreamInv'
<1>1. /\ UNCHANGED <<heard, seen, source, watched, lost, stored>> /\ Untold' = Untold
      /\ stream' = IF regWatch THEN Append(stream, Row(Head(registry))) ELSE stream
      /\ registry # <<>> /\ Head(registry) # Watch
  <2>1. UNCHANGED <<channel, filling, batch, told>>
    BY DEF TellView, taskVars
  <2>2. Untold' = Untold
    BY <2>1, UntoldFrame
  <2>3. QED
    BY <2>2 DEF TellView, missVars, dbVars, taskVars, TypeOK
<1>2. PICK n \in DOMAIN log : n = Head(registry) /\ n \notin Sent
  <2>1. Head(registry) \in IdsIn(registry)
    BY <1>1, RegistryTyped, IdsInTail
  <2>2. QED
    BY <1>1, <2>1, RegistryTyped DEF PhaseInv
<1>3. CASE ~regWatch
  BY <1>1, <1>3, StreamFrame
<1>4. CASE regWatch
  <2>1. stream \in Seq([id : DOMAIN log, ended : BOOLEAN])
    BY RowsTyped
  <2>2. Row(n) \in [id : DOMAIN log, ended : BOOLEAN] /\ Row(n).id = n
        /\ stream' = Append(stream, Row(n))
    BY <1>1, <1>2, <1>4 DEF Row
  <2>3. /\ Len(stream) \in Nat
        /\ \A k \in 1..Len(stream) : stream'[k] = stream[k]
        /\ stream'[Len(stream) + 1].id = n
        /\ Len(stream') = Len(stream) + 1
        /\ IdsOf(stream') = IdsOf(stream) \cup {n}
    BY <2>1, <2>2, IdsOfAppend
  <2>4. stream' \in Seq([id : DOMAIN log, ended : BOOLEAN])
    BY <2>1, <2>2, IdsOfAppend
  <2>5. DOMAIN stream' = 1..(Len(stream) + 1) /\ DOMAIN stream = 1..Len(stream)
    BY <2>1, <2>3, <2>4, RowsAre
  <2>6. Sels' = Sels /\ Sent' = Sent /\ Finds' = Finds /\ Lives' = Lives /\ Appended' = Appended
    BY DEF LogKept
  <2>7. /\ Coming' = Coming /\ IdsOf(stream)' = IdsOf(stream) \cup {n}
        /\ IdsOf(stream)' \cap Sent = IdsOf(stream) \cap Sent
    BY <1>1, <1>2, <2>3, <2>6 DEF Coming, IdsOf
  <2>8. IdsOf(source.rows)' = IdsOf(source.rows)
        /\ (RisingRows(source.rows)' <=> RisingRows(source.rows))
    BY <1>1 DEF IdsOf, RisingRows
  <2>9. \A j, k \in DOMAIN stream' :
          j < k /\ stream'[j].id \in Sent /\ stream'[k].id \in Sent => stream'[j].id < stream'[k].id
    <3>1. SUFFICES ASSUME NEW j \in 1..(Len(stream) + 1), NEW k \in 1..(Len(stream) + 1), j < k,
                          stream'[j].id \in Sent, stream'[k].id \in Sent
                   PROVE  stream'[j].id < stream'[k].id
      BY <2>5
    <3>2. j # Len(stream) + 1 /\ k # Len(stream) + 1
      BY <1>2, <2>3, <3>1
    <3>3. j \in 1..Len(stream) /\ k \in 1..Len(stream)
      BY <2>3, <3>1, <3>2
    <3>4. QED
      BY <2>3, <2>5, <3>1, <3>3 DEF StreamInv
  <2>10. Lives \subseteq Sent
    BY DEF Lives
  <2>11. source.at = "open" => IdsOf(source.rows) \subseteq IdsOf(stream)' \cup heard
    BY <2>7 DEF StreamInv
  <2>12. watched => Lives \subseteq seen \cup heard \cup lost \cup IdsOf(stream)' \cup Untold
    BY <2>7 DEF StreamInv
  <2>13. /\ \A h \in heard \cap Sent : \A i \in IdsOf(stream)' \cap Sent : h < i
         /\ \A i \in IdsOf(stream)' \cap Sent : source.cursor < i
    BY <2>7 DEF StreamInv
  <2>14. /\ ~watched => Coming \subseteq stored
         /\ watched => (Coming \cup seen) \cap Untold = {}
         /\ Coming \cap Appended \subseteq Finds
         /\ seen \subseteq stored
         /\ source.cursor # 0 => source.cursor \in stored \cap Sent
         /\ watched => source.cursor \notin Untold
         /\ IdsOf(source.rows) \subseteq Sels \cap stored
         /\ \A i \in IdsOf(source.rows) : source.cursor < i
         /\ RisingRows(source.rows)
    BY DEF StreamInv
  <2>15. QED
    BY <1>1, <2>6, <2>7, <2>8, <2>9, <2>11, <2>12, <2>13, <2>14 DEF StreamInv
<1>5. QED
  BY <1>3, <1>4

\* The view's listings bring no event.
LEMMA StreamListings ==
  ASSUME TypeOK, LogInv, PhaseInv, StreamInv, LogKept, ServeList \/ ServeLookUp
  PROVE  StreamInv'
<1>1. /\ UNCHANGED <<stream, heard, source, watched, stored>> /\ Untold' = Untold
  <2>1. UNCHANGED <<channel, filling, batch, told>>
    BY DEF ServeList, ServeLookUp, taskVars
  <2>2. Untold' = Untold
    BY <2>1, UntoldFrame
  <2>3. QED
    BY <2>2 DEF ServeList, ServeLookUp, taskVars, dbVars
<1>2. lost \subseteq lost'
  BY DEF ServeList, ServeLookUp
<1>3. CASE request.type # "first"
  <2>1. seen' = seen
    BY <1>3 DEF ServeList, ServeLookUp
  <2>2. QED
    BY <1>1, <1>2, <2>1, StreamFrame
<1>4. CASE request.type = "first"
  <2>1. ~watched
    BY <1>4 DEF PhaseInv
  <2>2. seen' \subseteq stored'
    <3>1. CASE ServeList
      BY <1>1, <1>4, <3>1 DEF ServeList
    <3>2. CASE ServeLookUp
      BY <1>1, <3>2, SeenOfLookUp DEF StreamInv
    <3>3. QED
      BY <3>1, <3>2
  <2>3. QED
    BY <1>1, <2>1, <2>2, StreamUnwatched
<1>5. QED
  BY <1>3, <1>4

\* The subscription lists what the database has after the view's listing ...
LEMMA StreamSubscribeList ==
  ASSUME TypeOK, LogInv, TaskInv, InTime, PhaseInv, StreamInv, LogKept, SubscribeList
  PROVE  StreamInv'
<1>1. source \in [at : {"no", "list", "look", "open"}, cursor : {0} \cup DOMAIN log,
                  rows : Seq(RowType)]
  BY DEF TypeOK
<1>2. source.at = "list" /\ source.rows = <<>> /\ ~watched /\ stream = <<>> /\ heard = {}
  BY DEF SubscribeList, PhaseInv
<1>3. /\ source'.at = "look" /\ source'.cursor = source.cursor
      /\ UNCHANGED <<stream, heard, seen, lost, watched, stored>>
  BY <1>1, <1>2 DEF SubscribeList, missVars, taskVars, dbVars
<1>4. PICK rows :
        /\ source'.rows = rows /\ RisingRows(rows) /\ IdsOf(rows) \subseteq Sels \cap stored
        /\ \A i \in IdsOf(rows) : source.cursor < i
  <2>1. PageAfter(source.cursor) \in SUBSET (1..Len(log)) /\ Len(log) \in Nat
        /\ source.cursor \in Nat
    BY PagesTyped, ViewFacts
  <2>2. CASE source.cursor = 0
    <3>1. PICK rows \in LastPages : source'.rows = rows
      BY <1>1, <1>2, <2>2 DEF SubscribeList
    <3>2. /\ RisingRows(rows) /\ IdsOf(rows) \subseteq Sels \cap stored
          /\ IdsOf(rows) \in SUBSET (1..Len(log))
      BY LastPagesInTime
    <3>3. \A i \in IdsOf(rows) : source.cursor < i
      BY <2>1, <2>2, <3>2
    <3>4. QED
      BY <3>1, <3>2, <3>3
  <2>3. CASE source.cursor # 0
    <3>1. PageAfter(source.cursor) \subseteq Sels \cap stored
          /\ \A i \in PageAfter(source.cursor) : source.cursor < i
      BY <2>1, PageAfterIs
    <3>2. source'.rows = RowsOf(PageAfter(source.cursor))
      BY <1>1, <1>2, <2>3 DEF SubscribeList
    <3>3. /\ IdsOf(RowsOf(PageAfter(source.cursor))) = PageAfter(source.cursor)
          /\ RisingRows(RowsOf(PageAfter(source.cursor)))
      BY <2>1, RowsOfIs DEF RisingRows
    <3>4. QED
      BY <3>1, <3>2, <3>3
  <2>4. QED
    BY <2>2, <2>3
<1>6. IdsOf(source.rows)' = IdsOf(rows) /\ RisingRows(source.rows)'
  BY <1>4 DEF IdsOf, RisingRows
<1>7. Sels' = Sels /\ Sent' = Sent /\ Finds' = Finds /\ Lives' = Lives /\ Appended' = Appended
  BY DEF LogKept
<1>8. Coming' = Coming /\ IdsOf(stream)' = IdsOf(stream)
  BY <1>3, <1>7 DEF Coming, IdsOf
<1>9. QED
  BY <1>2, <1>3, <1>4, <1>6, <1>7, <1>8 DEF StreamInv

\* ... and sends it as the first events.
LEMMA StreamSubscribe ==
  ASSUME TypeOK, LogInv, PhaseInv, StreamInv, LogKept, Subscribe
  PROVE  StreamInv'
<1>1. source \in [at : {"no", "list", "look", "open"}, cursor : {0} \cup DOMAIN log,
                  rows : Seq(RowType)]
  BY DEF TypeOK
<1>2. source.at = "look" /\ ~watched /\ heard = {}
  BY DEF Subscribe, PhaseInv
<1>3. /\ source'.at = "open" /\ source'.cursor = source.cursor
      /\ source'.rows = LookUp(source.rows) /\ stream' = LookUp(source.rows)
      /\ UNCHANGED <<heard, seen, lost, watched, stored>>
  BY <1>1, <1>2 DEF Subscribe, missVars, taskVars, dbVars
<1>4. source.rows \in Seq([id : DOMAIN log, ended : BOOLEAN])
  BY RowsTyped
<1>5. /\ DOMAIN LookUp(source.rows) = DOMAIN source.rows
      /\ IdsOf(LookUp(source.rows)) = IdsOf(source.rows)
      /\ \A k \in DOMAIN source.rows : LookUp(source.rows)[k].id = source.rows[k].id
  BY <1>4, LookUpIs
<1>6. IdsOf(source.rows)' = IdsOf(source.rows) /\ IdsOf(stream)' = IdsOf(source.rows)
  BY <1>3, <1>5 DEF IdsOf
<1>7. /\ RisingRows(source.rows) /\ IdsOf(source.rows) \subseteq Sels \cap stored
      /\ \A i \in IdsOf(source.rows) : source.cursor < i
      /\ seen \subseteq stored
      /\ source.cursor # 0 => source.cursor \in stored \cap Sent
  BY DEF StreamInv
<1>8. RisingRows(source.rows)' /\ RisingRows(stream)'
  BY <1>3, <1>5, <1>7 DEF RisingRows
<1>9. Sels' = Sels /\ Sent' = Sent /\ Finds' = Finds /\ Lives' = Lives /\ Appended' = Appended
  BY DEF LogKept
<1>10. Coming' \subseteq Sels \cap stored
  BY <1>2, <1>3, <1>6, <1>7 DEF Coming
<1>11. Coming' \cap Appended \subseteq Finds
  BY <1>10, LogFacts
<1>12. QED
  BY <1>2, <1>3, <1>6, <1>7, <1>8, <1>9, <1>10, <1>11 DEF StreamInv, RisingRows

\* The event source begins after the last row of the first listing.
LEMMA StreamFirst ==
  ASSUME TypeOK, LogInv, PhaseInv, ListInv, StreamInv, LogKept, FirstArrives
  PROVE  StreamInv'
<1>1. /\ UNCHANGED <<stream, heard, seen, lost, watched, stored>>
      /\ request.type = "first" /\ request.at = "back"
  BY DEF FirstArrives, missVars, taskVars, dbVars
<1>2. source.rows = <<>> /\ ~watched /\ stream = <<>> /\ heard = {}
  BY <1>1 DEF PhaseInv
<1>3. source'.at = "list" /\ source'.rows = <<>>
  BY <1>2, FirstShown
<1>4. source'.cursor # 0 => source'.cursor \in stored \cap Sent
  <2>1. Listed \subseteq Sels \cap stored
    BY <1>1 DEF ListInv
  <2>2. QED
    BY <2>1, FirstCursor DEF Sels
<1>5. Sels' = Sels /\ Sent' = Sent /\ Finds' = Finds /\ Lives' = Lives /\ Appended' = Appended
  BY DEF LogKept
<1>6. IdsOf(stream)' = {} /\ IdsOf(source.rows)' = {} /\ Coming' = {} /\ RisingRows(source.rows)'
  BY <1>1, <1>2, <1>3, NoRows DEF Coming, IdsOf, RisingRows
<1>7. seen' \subseteq stored'
  BY <1>1 DEF StreamInv
<1>8. \A j, k \in DOMAIN stream' : FALSE
  BY <1>1, <1>2, NoRows
<1>9. QED
  BY <1>1, <1>2, <1>3, <1>4, <1>5, <1>6, <1>7, <1>8 DEF StreamInv

\* What an event is, and what it leaves.
LEMMA EventMoves ==
  ASSUME TypeOK, EventArrives
  PROVE  \E e \in [id : DOMAIN log, ended : BOOLEAN] :
           /\ e = Head(stream) /\ e = stream[1] /\ stream # <<>>
           /\ EventAppends(e) \/ EventChanges(e)
           /\ heard' = heard \cup {e.id}
           /\ e.id \in IdsOf(stream)
           /\ IdsOf(stream) = {e.id} \cup IdsOf(stream')
           /\ Len(stream) \in Nat /\ DOMAIN stream = 1..Len(stream)
           /\ DOMAIN stream' = 1..(Len(stream) - 1)
           /\ \A k \in 1..(Len(stream) - 1) : stream'[k] = stream[k + 1] /\ k + 1 \in 1..Len(stream)
           /\ 1 \in 1..Len(stream)
           /\ UNCHANGED <<request, source, isEnd, seen, early, lost, stored, watched, closed>>
<1>1. /\ stream \in Seq([id : DOMAIN log, ended : BOOLEAN]) /\ stream # <<>>
         /\ stream' = Tail(stream)
  BY RowsTyped DEF EventArrives
<1>2. PICK e \in [id : DOMAIN log, ended : BOOLEAN] : e = Head(stream) /\ e = stream[1]
  BY <1>1, IdsOfTail
<1>3. /\ EventAppends(e) \/ EventChanges(e)
      /\ heard' = heard \cup {e.id}
      /\ UNCHANGED <<request, source, isEnd, seen, early, lost, stored, watched, closed>>
  BY <1>2 DEF EventArrives, dbVars, taskVars
<1>4. /\ stream' \in Seq([id : DOMAIN log, ended : BOOLEAN])
      /\ Len(stream') = Len(stream) - 1 /\ Len(stream) \in Nat \ {0}
      /\ \A k \in 1..(Len(stream) - 1) : stream'[k] = stream[k + 1]
      /\ IdsOf(stream) = {e.id} \cup IdsOf(stream')
  BY <1>1, <1>2, IdsOfTail
<1>5. /\ DOMAIN stream = 1..Len(stream) /\ DOMAIN stream' = 1..(Len(stream) - 1)
  BY <1>1, <1>4, RowsAre
<1>6. /\ e.id \in IdsOf(stream) /\ 1 \in 1..Len(stream)
      /\ \A k \in 1..(Len(stream) - 1) : k + 1 \in 1..Len(stream)
  BY <1>4
<1>7. QED
  BY <1>1, <1>2, <1>3, <1>4, <1>5, <1>6

\* The event that arrives is before those to come.
LEMMA StreamEvent ==
  ASSUME TypeOK, LogInv, StreamInv, LogKept, EventArrives
  PROVE  StreamInv'
<1>1. PICK e \in [id : DOMAIN log, ended : BOOLEAN] :
        /\ e = stream[1] /\ heard' = heard \cup {e.id}
        /\ IdsOf(stream) = {e.id} \cup IdsOf(stream')
        /\ Len(stream) \in Nat /\ DOMAIN stream = 1..Len(stream)
        /\ DOMAIN stream' = 1..(Len(stream) - 1)
        /\ \A k \in 1..(Len(stream) - 1) : stream'[k] = stream[k + 1] /\ k + 1 \in 1..Len(stream)
        /\ 1 \in 1..Len(stream)
        /\ UNCHANGED <<request, source, isEnd, seen, early, lost, stored, watched, closed>>
  BY EventMoves
<1>2. Untold' = Untold
  <2>1. UNCHANGED <<channel, filling, batch, told>>
    BY DEF EventArrives, taskVars
  <2>2. QED
    BY <2>1, UntoldFrame
<1>3. Sels' = Sels /\ Sent' = Sent /\ Finds' = Finds /\ Lives' = Lives /\ Appended' = Appended
  BY DEF LogKept
<1>4. Coming' = Coming /\ IdsOf(stream)' \cup heard' = IdsOf(stream) \cup heard
  BY <1>1, <1>3 DEF Coming, IdsOf
<1>5. IdsOf(source.rows)' = IdsOf(source.rows)
      /\ (RisingRows(source.rows)' <=> RisingRows(source.rows))
  BY <1>1 DEF IdsOf, RisingRows
<1>6. IdsOf(stream)' \subseteq IdsOf(stream)
  BY <1>1 DEF IdsOf
<1>7. \A j, k \in DOMAIN stream' :
        j < k /\ stream'[j].id \in Sent /\ stream'[k].id \in Sent => stream'[j].id < stream'[k].id
  <2>1. SUFFICES ASSUME NEW j \in 1..(Len(stream) - 1), NEW k \in 1..(Len(stream) - 1), j < k,
                        stream'[j].id \in Sent, stream'[k].id \in Sent
                 PROVE  stream'[j].id < stream'[k].id
    BY <1>1
  <2>2. /\ stream'[j] = stream[j + 1] /\ stream'[k] = stream[k + 1]
        /\ j + 1 \in 1..Len(stream) /\ k + 1 \in 1..Len(stream) /\ j + 1 < k + 1
    BY <1>1, <2>1
  <2>3. QED
    BY <1>1, <2>1, <2>2 DEF StreamInv
<1>8. ASSUME NEW h \in heard' \cap Sent, NEW i \in IdsOf(stream)' \cap Sent
      PROVE  h < i
  <2>1. CASE h \in heard
    BY <1>6, <2>1 DEF StreamInv
  <2>2. CASE h = e.id
    <3>1. PICK k \in 1..(Len(stream) - 1) : stream'[k].id = i
      BY <1>1 DEF IdsOf
    <3>2. stream[k + 1].id = i /\ k + 1 \in 1..Len(stream) /\ 1 < k + 1
      BY <1>1, <3>1
    <3>3. QED
      BY <1>1, <2>2, <3>2 DEF StreamInv
  <2>3. QED
    BY <1>1, <2>1, <2>2
<1>9. \A i \in IdsOf(stream)' \cap Sent : source.cursor < i
  BY <1>6 DEF StreamInv
<1>10. /\ source.at = "open" => IdsOf(source.rows) \subseteq IdsOf(stream)' \cup heard'
       /\ watched => Lives \subseteq seen \cup heard' \cup lost \cup IdsOf(stream)' \cup Untold
  BY <1>4 DEF StreamInv
<1>11. /\ ~watched => Coming \subseteq stored
       /\ watched => (Coming \cup seen) \cap Untold = {}
       /\ Coming \cap Appended \subseteq Finds
       /\ seen \subseteq stored
       /\ source.cursor # 0 => source.cursor \in stored \cap Sent
       /\ watched => source.cursor \notin Untold
       /\ IdsOf(source.rows) \subseteq Sels \cap stored
       /\ \A i \in IdsOf(source.rows) : source.cursor < i
       /\ RisingRows(source.rows)
  BY DEF StreamInv
<1>12. QED
  BY <1>1, <1>2, <1>3, <1>4, <1>5, <1>7, <1>8, <1>9, <1>10, <1>11 DEF StreamInv

\* Every step keeps the order of the events.
LEMMA StreamInvNext ==
  ASSUME TypeOK, LogInv, TaskInv, InTime, PhaseInv, ListInv, StreamInv, [Next]_vars
  PROVE  StreamInv'
<1>1. CASE QuietStep
  <2>1. CASE LogKept /\ Untold' = Untold
    BY <1>1, <2>1, StreamFrame DEF QuietStep, ViewKept
  <2>2. CASE LogMore(Len(log')) /\ Untold' = Untold \cup {Len(log')}
    BY <1>1, <2>2, StreamMore DEF QuietStep, ViewKept
  <2>3. QED
    BY <1>1, <2>1, <2>2 DEF QuietStep
<1>2. CASE LogKept /\ (FetchMore \/ FetchOlder \/ MoreArrives \/ OlderArrives)
  <2>1. /\ UNCHANGED <<stream, heard, seen, source, watched, stored>>
        /\ UNCHANGED <<channel, filling, batch, told>>
        /\ lost \subseteq lost'
    BY <1>2 DEF FetchMore, FetchOlder, MoreArrives, OlderArrives, taskVars, dbVars
  <2>2. Untold' = Untold
    BY <2>1, UntoldFrame
  <2>3. QED
    BY <1>2, <2>1, <2>2, StreamFrame
<1>3. QED
  BY <1>1, <1>2, LoudSteps, StreamSwap, StreamNotify, StreamTellView, StreamListings,
     StreamSubscribeList, StreamSubscribe, StreamFirst, StreamEvent DEF Server, View

-----------------------------------------------------------------------------
(* The order of what is shown.                                             *)

\* What is behind an event or a cursor that is behind is behind.
LEMMA KnownDown ==
  ASSUME TypeOK, OrderInv, ~stray, NEW c \in Sent, c \in Known, NEW i \in Sels, i <= c
  PROVE  i \in Known
<1>1. i \in Sent /\ i \in Nat /\ c \in Nat
  BY ViewFacts DEF Sels
<1>2. CASE c \in early
  BY <1>2 DEF OrderInv
<1>3. CASE c \in Behind
  <2>1. CASE c <= source.cursor
    <3>1. i <= source.cursor
      BY <1>1, <2>1, ViewFacts
    <3>2. QED
      BY <1>1, <3>1 DEF Known, Behind
  <2>2. CASE \E h \in heard \cap Sent : c <= h
    <3>1. PICK h \in heard \cap Sent : c <= h
      BY <2>2
    <3>2. i <= h
      BY <1>1, <3>1, ViewFacts
    <3>3. QED
      BY <1>1, <3>1, <3>2 DEF Known, Behind
  <2>3. QED
    BY <1>3, <2>1, <2>2 DEF Behind
<1>4. QED
  BY <1>2, <1>3 DEF Known

\* What is behind remains so.
LEMMA KnownGrows ==
  ASSUME Sent' = Sent, source'.cursor = source.cursor, early \subseteq early',
         heard \subseteq heard'
  PROVE  Known \subseteq Known' /\ Behind \subseteq Behind'
  BY DEF Known, Behind

\* A step that shows nothing new.
LEMMA OrderFrame ==
  ASSUME OrderInv, LogKept, source'.cursor = source.cursor, early' = early, heard \subseteq heard',
         stored \subseteq stored', stray' = stray,
         IdsOf(shown)' = IdsOf(shown), DOMAIN shown' = DOMAIN shown,
         \A k \in DOMAIN shown : shown'[k].id = shown[k].id,
         request'.type = "older" => request.type = "older" /\ request'.cursor = request.cursor
  PROVE  OrderInv'
<1>1. Known \subseteq Known'
  BY KnownGrows DEF LogKept
<1>2. Sent' = Sent /\ Sels' = Sels /\ Finds' = Finds
  BY DEF LogKept
<1>3. SUFFICES ASSUME ~stray' PROVE OrderInv'
  BY DEF OrderInv
<1>4. /\ IdsOf(shown)' \subseteq Sent' \cap Known' \cap (stored' \cup heard')
      /\ IdsOf(shown)' \subseteq Sels' \cup (heard' \cap Finds')
  BY <1>1, <1>2, <1>3 DEF OrderInv
<1>5. \A j, k \in DOMAIN shown' : j < k =>
        \A i \in Sels' : shown'[k].id <= i /\ i <= shown'[j].id => i \in early'
  BY <1>2, <1>3 DEF OrderInv
<1>6. \A x \in early' : \A i \in Sels' : i <= x => i \in Known'
  BY <1>1, <1>2, <1>3 DEF OrderInv
<1>7. request'.type = "older" =>
        /\ request'.cursor \in Sent' \cap Known' \cap (stored' \cup heard')
        /\ \A k \in DOMAIN shown' : \A i \in Sels' :
             shown'[k].id <= i /\ i < request'.cursor => i \in early'
  BY <1>1, <1>2, <1>3 DEF OrderInv
<1>8. QED
  BY <1>4, <1>5, <1>6, <1>7 DEF OrderInv

\* A record more is behind none.
LEMMA OrderMore ==
  ASSUME TypeOK, OrderInv, LogMore(Len(log')), stored \subseteq stored',
         UNCHANGED <<request, source, shown, heard, early, stray>>
  PROVE  OrderInv'
<1>1. PICK n \in Nat \ {0} :
        /\ n \notin DOMAIN log /\ (\A i \in DOMAIN log : i < n) /\ Sent' = Sent \cup {n}
        /\ Sels \subseteq Sels' /\ Sels' \subseteq Sels \cup {n} /\ Finds \subseteq Finds'
  BY DEF LogMore
<1>2. SUFFICES ASSUME ~stray' PROVE OrderInv'
  BY DEF OrderInv
<1>3. \A x \in DOMAIN log \cup {0} : ~(n <= x) /\ ~(n < x)
  BY <1>1, ViewFacts
<1>4. Known \subseteq Known'
  BY <1>1 DEF Known, Behind
<1>5. IdsOf(shown)' = IdsOf(shown)
  BY DEF IdsOf
<1>6. /\ IdsOf(shown)' \subseteq Sent' \cap Known' \cap (stored' \cup heard')
      /\ IdsOf(shown)' \subseteq Sels' \cup (heard' \cap Finds')
  BY <1>1, <1>2, <1>4, <1>5 DEF OrderInv
<1>7. \A k \in DOMAIN shown : shown[k].id \in DOMAIN log
  BY ViewFacts
<1>8. \A j, k \in DOMAIN shown' : j < k =>
        \A i \in Sels' : shown'[k].id <= i /\ i <= shown'[j].id => i \in early'
  BY <1>1, <1>2, <1>3, <1>7 DEF OrderInv
<1>9. \A x \in early' : \A i \in Sels' : i <= x => i \in Known'
  BY <1>1, <1>2, <1>3, <1>4, ViewFacts DEF OrderInv
<1>10. request'.type = "older" =>
         /\ request'.cursor \in Sent' \cap Known' \cap (stored' \cup heard')
         /\ \A k \in DOMAIN shown' : \A i \in Sels' :
              shown'[k].id <= i /\ i < request'.cursor => i \in early'
  BY <1>1, <1>2, <1>3, <1>4, ViewFacts DEF OrderInv
<1>11. QED
  BY <1>6, <1>8, <1>9, <1>10 DEF OrderInv

\* The first listing is shown in order.
LEMMA OrderFirst ==
  ASSUME TypeOK, LogInv, PhaseInv, ListInv, LogKept, FirstArrives
  PROVE  OrderInv'
<1>1. PICK d \in {0, 1} :
        /\ Len(Rows) \in Nat /\ DOMAIN Rows = 1..Len(Rows)
        /\ DOMAIN shown' = 1..(Len(Rows) - d)
        /\ \A k \in 1..(Len(Rows) - d) : shown'[k] = Rows[k + d] /\ k + d \in 1..Len(Rows)
        /\ IdsOf(shown') \subseteq Listed
  BY FirstShown
<1>2. /\ request.type = "first" /\ request.at = "back" /\ request' = NoRequest
      /\ UNCHANGED <<early, heard, stored, stray>>
  BY DEF FirstArrives, missVars, dbVars
<1>3. early = {} /\ heard = {}
  BY <1>2 DEF PhaseInv
<1>4. RisingRows(Rows) /\ Listed \subseteq Sels \cap stored
  BY <1>2 DEF ListInv
<1>5. Sent' = Sent /\ Sels' = Sels
  BY DEF LogKept
<1>6. IdsOf(shown)' \subseteq Sels' \cap stored' /\ IdsOf(shown)' \subseteq Sent' \cap Known'
  <2>1. IdsOf(shown)' \subseteq Listed
    BY <1>1 DEF IdsOf
  <2>2. \A i \in Listed : i <= source'.cursor
    BY FirstCursor
  <2>3. Listed \subseteq Sent
    BY <1>4 DEF Sels
  <2>4. IdsOf(shown)' \subseteq Behind'
    BY <1>5, <2>1, <2>2, <2>3 DEF Behind
  <2>5. QED
    BY <1>2, <1>4, <1>5, <2>1, <2>3, <2>4 DEF Known
<1>7. ASSUME NEW j \in DOMAIN shown', NEW k \in DOMAIN shown', j < k, NEW i \in Sels',
             shown'[k].id <= i, i <= shown'[j].id
      PROVE  FALSE
  <2>1. /\ shown'[j] = Rows[j + d] /\ shown'[k] = Rows[k + d]
        /\ j + d \in DOMAIN Rows /\ k + d \in DOMAIN Rows /\ j + d < k + d
    <3>1. j \in 1..(Len(Rows) - d) /\ k \in 1..(Len(Rows) - d)
      BY <1>1
    <3>2. j + d < k + d
      BY <1>1, <1>7, <3>1
    <3>3. QED
      BY <1>1, <3>1, <3>2
  <2>2. Rows[j + d].id < Rows[k + d].id
    BY <1>4, <2>1 DEF RisingRows
  <2>3. Rows[j + d].id \in Nat /\ Rows[k + d].id \in Nat /\ i \in Nat
    BY <1>5, <2>1, ViewFacts DEF Sels
  <2>4. QED
    BY <1>7, <2>1, <2>2, <2>3
<1>8. request'.type # "older"
  BY <1>2 DEF NoRequest
<1>9. QED
  BY <1>2, <1>3, <1>6, <1>7, <1>8 DEF OrderInv

\* Older rows are asked for before the first row shown.
LEMMA OrderFetchOlder ==
  ASSUME TypeOK, OrderInv, LogKept, FetchOlder
  PROVE  OrderInv'
<1>1. /\ request' = [type |-> "older", at |-> "list", cursor |-> shown[1].id, rows |-> <<>>]
      /\ shown # <<>> /\ UNCHANGED <<shown, heard, early, source, stored, stray>>
  BY DEF FetchOlder, NoRequest, storeVars, dbVars
<1>2. request'.type = "older" /\ request'.cursor = shown[1].id
  BY <1>1
<1>3. shown \in Seq([id : DOMAIN log, ended : BOOLEAN])
  BY RowsTyped
<1>4. 1 \in DOMAIN shown /\ shown[1].id \in IdsOf(shown)
  BY <1>1, <1>3, RowsAre
<1>5. Sent' = Sent /\ Sels' = Sels /\ Finds' = Finds /\ Known' = Known
      /\ IdsOf(shown)' = IdsOf(shown)
  BY <1>1 DEF LogKept, Known, Behind, IdsOf
<1>6. ASSUME ~stray, NEW k \in DOMAIN shown, NEW i \in Sels, shown[k].id <= i, i < shown[1].id
      PROVE  i \in early
  <2>1. i \in Nat /\ shown[1].id \in Nat /\ k \in 1..Len(shown)
    BY <1>4, ViewFacts DEF Sels
  <2>2. k # 1
    BY <1>6, <2>1
  <2>3. 1 < k
    BY <2>1, <2>2
  <2>4. i <= shown[1].id
    BY <1>6, <2>1
  <2>5. QED
    BY <1>4, <1>6, <2>3, <2>4 DEF OrderInv
<1>7. QED
  BY <1>1, <1>2, <1>4, <1>5, <1>6 DEF OrderInv

\* An event is of a later record than any that is behind.
LEMMA EventIsAhead ==
  ASSUME TypeOK, LogInv, StreamInv, NEW n \in IdsOf(stream), n \in Sent
  PROVE  /\ n \in Nat /\ source.cursor < n
         /\ \A h \in heard \cap Sent : h < n
         /\ \A i \in Behind : i < n
         /\ n \notin heard
<1>1. n \in Nat /\ source.cursor \in Nat /\ source.cursor < n
  BY ViewFacts DEF StreamInv
<1>2. \A h \in heard \cap Sent : h < n
  BY DEF StreamInv
<1>3. ASSUME NEW i \in Behind
      PROVE  i < n
  <2>1. i \in Nat
    BY ViewFacts DEF Behind
  <2>2. CASE i <= source.cursor
    BY <1>1, <2>1, <2>2
  <2>3. CASE \E h \in heard \cap Sent : i <= h
    <3>1. PICK h \in heard \cap Sent : i <= h
      BY <2>3
    <3>2. h \in Nat /\ h < n
      BY <1>2, ViewFacts
    <3>3. QED
      BY <1>1, <2>1, <3>1, <3>2
  <2>4. QED
    BY <2>2, <2>3 DEF Behind
<1>4. n \notin heard
  BY <1>1, <1>2
<1>5. QED
  BY <1>1, <1>2, <1>3, <1>4

\* What is shown from an event on was listed before its event.
LEMMA OrderAtEvent ==
  ASSUME TypeOK, LogInv, StreamInv, OrderInv, ~stray, NEW n \in IdsOf(stream), n \in Sent,
         NEW x \in Sent, x \in Known, NEW i \in Sels, n <= i, i <= x
  PROVE  i \in early
<1>1. n \in Nat /\ x \in Nat /\ i \in Nat /\ i \in Sent
  BY ViewFacts DEF Sels
<1>2. i \in Known
  BY <1>1, KnownDown
<1>3. i \notin Behind
  BY <1>1, EventIsAhead
<1>4. QED
  BY <1>2, <1>3 DEF Known

\* An event's row comes after the last.
LEMMA OrderAppends ==
  ASSUME TypeOK, LogInv, StreamInv, OrderInv, LogKept, EventArrives,
         NEW e \in [id : DOMAIN log, ended : BOOLEAN], e = Head(stream), EventAppends(e), isEnd
  PROVE  OrderInv'
<1>1. /\ e.id \in IdsOf(stream) /\ heard' = heard \cup {e.id}
      /\ UNCHANGED <<request, source, early, stored>>
  BY EventMoves
<1>2. PICK d \in {0, 1}, l \in Nat :
        /\ l = Len(shown) /\ DOMAIN shown = 1..l /\ DOMAIN shown' = 1..(l + 1 - d)
        /\ \A k \in 1..(l - d) : shown'[k] = shown[k + d] /\ k + d \in 1..l
        /\ shown'[l + 1 - d] = e
        /\ IdsOf(shown') \subseteq IdsOf(shown) \cup {e.id}
        /\ stray' = (stray \/ log[e.id] = Start)
  <2>1. PICK d \in {0, 1} :
          /\ Len(shown) \in Nat
          /\ DOMAIN shown = 1..Len(shown) /\ DOMAIN shown' = 1..(Len(shown) + 1 - d)
          /\ \A k \in 1..(Len(shown) - d) : shown'[k] = shown[k + d] /\ k + d \in 1..Len(shown)
          /\ shown'[Len(shown) + 1 - d] = e
          /\ IdsOf(shown') \subseteq IdsOf(shown) \cup {e.id}
          /\ stray' = (stray \/ log[e.id] = Start)
    BY EventShown
  <2>2. QED
    BY <2>1, Zenon
<1>3. SUFFICES ASSUME ~stray' PROVE OrderInv'
  BY DEF OrderInv
<1>4. PICK n \in Sent : n = e.id /\ n \in IdsOf(stream) /\ ~stray
  BY <1>1, <1>2, <1>3 DEF Sent
<1>5. Sent' = Sent /\ Sels' = Sels /\ Finds' = Finds
  BY DEF LogKept
<1>6. Known \subseteq Known'
  BY <1>1, <1>5, KnownGrows
<1>7. n \in Known' /\ n \in heard'
  <2>1. n \in Nat
    BY ViewFacts
  <2>2. n \in heard' \cap Sent' /\ n <= n
    BY <1>1, <1>4, <1>5, <2>1
  <2>3. QED
    BY <1>5, <2>2 DEF Known, Behind
<1>8. IdsOf(shown)' \subseteq IdsOf(shown) \cup {n}
  BY <1>2, <1>4 DEF IdsOf
<1>9. IdsOf(shown)' \subseteq Sent' \cap Known' \cap (stored' \cup heard')
  BY <1>1, <1>4, <1>5, <1>6, <1>7, <1>8 DEF OrderInv
<1>10. IdsOf(shown)' \subseteq Sels' \cup (heard' \cap Finds')
  <2>1. n \in Coming \cap Appended
    BY <1>4 DEF Coming, Appended, EventAppends
  <2>2. n \in Finds
    BY <2>1 DEF StreamInv
  <2>3. IdsOf(shown) \subseteq Sels \cup (heard \cap Finds)
    BY <1>4 DEF OrderInv
  <2>4. QED
    BY <1>1, <1>4, <1>5, <1>7, <1>8, <2>2, <2>3
<1>11. ASSUME NEW j \in DOMAIN shown', NEW k \in DOMAIN shown', j < k, NEW i \in Sels',
              shown'[k].id <= i, i <= shown'[j].id
       PROVE  i \in early'
  <2>1. j \in 1..(l - d) /\ (k \in 1..(l - d) \/ k = l + 1 - d)
    <3>1. j \in 1..(l + 1 - d) /\ k \in 1..(l + 1 - d)
      BY <1>2
    <3>2. QED
      BY <1>11, <3>1
  <2>2. shown'[j] = shown[j + d] /\ j + d \in DOMAIN shown
    BY <1>2, <2>1
  <2>3. CASE k \in 1..(l - d)
    <3>1. shown'[k] = shown[k + d] /\ k + d \in DOMAIN shown
      BY <1>2, <2>3
    <3>2. j + d < k + d
      BY <1>11, <2>1, <2>3
    <3>3. QED
      BY <1>1, <1>4, <1>5, <1>11, <2>2, <3>1, <3>2 DEF OrderInv
  <2>4. CASE k = l + 1 - d
    <3>1. shown'[k].id = n
      BY <1>2, <1>4, <2>4
    <3>2. shown[j + d].id \in Sent /\ shown[j + d].id \in Known
      BY <1>4, <2>2, ViewFacts DEF OrderInv
    <3>3. i \in early
      BY <1>4, <1>5, <1>11, <2>2, <3>1, <3>2, OrderAtEvent
    <3>4. QED
      BY <1>1, <3>3
  <2>5. QED
    BY <2>1, <2>3, <2>4
<1>12. \A x \in early' : \A i \in Sels' : i <= x => i \in Known'
  BY <1>1, <1>4, <1>5, <1>6 DEF OrderInv
<1>13. ASSUME request'.type = "older"
       PROVE  /\ request'.cursor \in Sent' \cap Known' \cap (stored' \cup heard')
              /\ \A k \in DOMAIN shown' : \A i \in Sels' :
                   shown'[k].id <= i /\ i < request'.cursor => i \in early'
  <2>1. request.cursor \in Sent /\ request.cursor \in Known /\ request.cursor \in stored \cup heard
    BY <1>1, <1>4, <1>13 DEF OrderInv
  <2>2. request'.cursor \in Sent' \cap Known' \cap (stored' \cup heard')
    BY <1>1, <1>5, <1>6, <2>1
  <2>3. ASSUME NEW k \in DOMAIN shown', NEW i \in Sels', shown'[k].id <= i, i < request'.cursor
        PROVE  i \in early'
    <3>1. k \in 1..(l - d) \/ k = l + 1 - d
      <4>1. k \in 1..(l + 1 - d)
        BY <1>2
      <4>2. QED
        BY <4>1
    <3>2. CASE k \in 1..(l - d)
      <4>1. shown'[k] = shown[k + d] /\ k + d \in DOMAIN shown
        BY <1>2, <3>2
      <4>2. QED
        BY <1>1, <1>4, <1>5, <1>13, <2>3, <4>1 DEF OrderInv
    <3>3. CASE k = l + 1 - d
      <4>1. n <= i
        BY <1>2, <1>4, <2>3, <3>3
      <4>2. i <= request.cursor
        <5>1. i \in Nat /\ request.cursor \in Nat
          BY <1>5, ViewFacts DEF Sels
        <5>2. QED
          BY <1>1, <2>3, <5>1
      <4>3. i \in early
        BY <1>4, <1>5, <2>1, <4>1, <4>2, OrderAtEvent
      <4>4. QED
        BY <1>1, <4>3
    <3>4. QED
      BY <3>1, <3>2, <3>3
  <2>4. QED
    BY <2>2, <2>3
<1>14. QED
  BY <1>9, <1>10, <1>11, <1>12, <1>13 DEF OrderInv

\* An event keeps the order.
LEMMA OrderEvent ==
  ASSUME TypeOK, LogInv, StreamInv, OrderInv, LogKept, EventArrives
  PROVE  OrderInv'
<1>1. PICK e \in [id : DOMAIN log, ended : BOOLEAN] :
        /\ e = Head(stream)
        /\ EventAppends(e) \/ EventChanges(e)
        /\ heard' = heard \cup {e.id}
        /\ UNCHANGED <<request, source, early, stored>>
  BY EventMoves
<1>2. CASE EventAppends(e) /\ isEnd
  BY <1>1, <1>2, OrderAppends
<1>3. CASE EventAppends(e) /\ ~isEnd
  <2>1. UNCHANGED <<shown, stray>>
    BY <1>3 DEF EventAppends
  <2>2. IdsOf(shown)' = IdsOf(shown)
    BY <2>1 DEF IdsOf
  <2>3. QED
    BY <1>1, <2>1, <2>2, OrderFrame
<1>4. CASE EventChanges(e)
  <2>1. /\ DOMAIN shown' = DOMAIN shown /\ IdsOf(shown') = IdsOf(shown) /\ stray' = stray
        /\ \A k \in DOMAIN shown : shown'[k].id = shown[k].id
    BY <1>4, ChangeShown
  <2>2. IdsOf(shown)' = IdsOf(shown)
    BY <2>1 DEF IdsOf
  <2>3. QED
    BY <1>1, <2>1, <2>2, OrderFrame
<1>5. QED
  BY <1>1, <1>2, <1>3, <1>4

\* What a listing brings, it brings before or after its event.
LEMMA ListedIsKnown ==
  ASSUME TypeOK, Sent' = Sent, source' = source, heard' = heard, NEW B \in SUBSET Sent,
         early' = early \cup (B \ heard)
  PROVE  B \subseteq Known' /\ Known \subseteq Known'
<1>1. Known \subseteq Known'
  BY KnownGrows
<1>2. ASSUME NEW b \in B
      PROVE  b \in Known'
  <2>1. b \in heard => b \in heard' \cap Sent' /\ b <= b
    BY <1>2, ViewFacts
  <2>2. QED
    BY <1>2, <2>1 DEF Known, Behind
<1>3. QED
  BY <1>1, <1>2

\* The rows after the last come after it, but for what came early.
LEMMA OrderMoreArrives ==
  ASSUME TypeOK, LogInv, PhaseInv, ListInv, OrderInv, LogKept, MoreArrives
  PROVE  OrderInv'
<1>1. /\ request.type = "more" /\ request.at = "back" /\ request' = NoRequest
      /\ UNCHANGED <<source, stored, heard, stray>>
  BY DEF MoreArrives, dbVars
<1>2. shown # <<>> /\ request.cursor = shown[Len(shown)].id
  BY <1>1 DEF PhaseInv
<1>3. PICK c \in Nat, d \in Nat, l \in Nat, r \in Nat :
        /\ r = Len(Rows) /\ c <= r /\ l = Len(shown) /\ d < l
        /\ DOMAIN shown = 1..l /\ DOMAIN Rows = 1..r
        /\ DOMAIN shown' = 1..(l - d + c)
        /\ \A k \in 1..(l - d) : shown'[k] = shown[k + d] /\ k + d \in 1..l
        /\ \A k \in 1..c : shown'[l - d + k] = Rows[k] /\ k \in 1..r
        /\ early' = early \cup ({Rows[k].id : k \in 1..c} \ heard)
        /\ {Rows[k].id : k \in 1..c} \subseteq Listed
        /\ \A i \in IdsOf(shown') : i \in IdsOf(shown) \/ i \in {Rows[k].id : k \in 1..c}
  BY <1>2, MoreShown
<1>4. /\ RisingRows(Rows) /\ Listed \subseteq Sels \cap stored
      /\ \A i \in Listed : request.cursor < i
      /\ \A i \in Sels \cap UpToListed : request.cursor < i => i \in Listed
  BY <1>1 DEF ListInv
<1>5. PICK B \in SUBSET Sent : B = {Rows[k].id : k \in 1..c} /\ B \subseteq Listed
  BY <1>3, <1>4 DEF Sels
<1>6. Sent' = Sent /\ Sels' = Sels /\ Finds' = Finds
  BY DEF LogKept
<1>7. SUFFICES ASSUME ~stray PROVE OrderInv'
  BY <1>1 DEF OrderInv
<1>8. B \subseteq Known' /\ Known \subseteq Known'
  BY <1>1, <1>3, <1>5, <1>6, ListedIsKnown
<1>9. IdsOf(shown)' \subseteq IdsOf(shown) \cup B
  BY <1>3, <1>5 DEF IdsOf
<1>10. /\ IdsOf(shown)' \subseteq Sent' \cap Known' \cap (stored' \cup heard')
       /\ IdsOf(shown)' \subseteq Sels' \cup (heard' \cap Finds')
  BY <1>1, <1>4, <1>5, <1>6, <1>7, <1>8, <1>9 DEF OrderInv
<1>11. l \in DOMAIN shown /\ shown[l].id = request.cursor /\ request.cursor \in Nat
       /\ request.cursor \in Sent /\ request.cursor \in Known
  <2>1. l \in DOMAIN shown
    BY <1>3
  <2>2. shown[l].id \in IdsOf(shown)
    BY <2>1 DEF IdsOf
  <2>3. QED
    BY <1>2, <1>3, <1>7, <2>1, <2>2, ViewFacts DEF OrderInv
<1>12. ASSUME NEW j \in DOMAIN shown', NEW k \in DOMAIN shown', j < k, NEW i \in Sels',
              shown'[k].id <= i, i <= shown'[j].id
       PROVE  i \in early'
  <2>1. /\ j \in 1..(l - d) \/ \E m \in 1..c : j = l - d + m
        /\ k \in 1..(l - d) \/ \E m \in 1..c : k = l - d + m
    <3>1. \A q \in 1..(l - d + c) : q \in 1..(l - d)
          \/ (q - (l - d) \in 1..c /\ q = l - d + (q - (l - d)))
      BY <1>3
    <3>2. QED
      BY <1>3, <3>1
  <2>2. i \in Nat /\ i \in Sels
    BY <1>6, ViewFacts DEF Sels
  <2>3. CASE j \in 1..(l - d) /\ k \in 1..(l - d)
    <3>1. /\ shown'[j] = shown[j + d] /\ j + d \in DOMAIN shown
          /\ shown'[k] = shown[k + d] /\ k + d \in DOMAIN shown
      BY <1>3, <2>3
    <3>2. j + d < k + d
      BY <1>12, <2>3
    <3>3. i \in early
      BY <1>7, <1>12, <2>2, <3>1, <3>2 DEF OrderInv
    <3>4. QED
      BY <1>3, <3>3
  <2>4. CASE j \in 1..(l - d) /\ \E m \in 1..c : k = l - d + m
    <3>1. PICK m \in 1..c : k = l - d + m
      BY <2>4
    <3>2. shown'[k] = Rows[m] /\ m \in DOMAIN Rows
      BY <1>3, <3>1
    <3>3. request.cursor < Rows[m].id /\ Rows[m].id \in Nat
      BY <1>4, <3>2, ViewFacts
    <3>4. request.cursor < i
      BY <1>11, <1>12, <2>2, <3>2, <3>3
    <3>5. shown'[j] = shown[j + d] /\ j + d \in 1..l /\ shown[j + d].id \in Nat
      BY <1>3, <2>4, ViewFacts
    <3>6. j + d # l
      BY <1>11, <1>12, <2>2, <3>4, <3>5
    <3>7. j + d < l
      BY <3>5, <3>6
    <3>8. shown[l].id <= i
      BY <1>11, <2>2, <3>4
    <3>9. i \in early
      BY <1>3, <1>7, <1>11, <1>12, <2>2, <3>5, <3>7, <3>8 DEF OrderInv
    <3>10. QED
      BY <1>3, <3>9
  <2>5. CASE (\E m \in 1..c : j = l - d + m) /\ \E m \in 1..c : k = l - d + m
    <3>1. PICK m \in 1..c, q \in 1..c : j = l - d + m /\ k = l - d + q
      BY <2>5
    <3>2. m < q
      BY <1>12, <3>1
    <3>3. shown'[j] = Rows[m] /\ shown'[k] = Rows[q] /\ m \in DOMAIN Rows /\ q \in DOMAIN Rows
      BY <1>3, <3>1
    <3>4. Rows[m].id < Rows[q].id /\ Rows[m].id \in Nat /\ Rows[q].id \in Nat
      BY <1>4, <3>2, <3>3, ViewFacts DEF RisingRows
    <3>5. QED
      BY <1>12, <2>2, <3>3, <3>4
  <2>6. CASE (\E m \in 1..c : j = l - d + m) /\ k \in 1..(l - d)
    <3>1. PICK m \in 1..c : j = l - d + m
      BY <2>6
    <3>2. k < j
      BY <1>3, <2>6, <3>1
    <3>3. QED
      BY <1>12, <3>1, <3>2, <2>6
  <2>7. QED
    BY <2>1, <2>3, <2>4, <2>5, <2>6
<1>13. ASSUME NEW x \in early', NEW i \in Sels', i <= x
       PROVE  i \in Known'
  <2>1. i \in Nat /\ i \in Sels /\ i \in Sent
    BY <1>6, ViewFacts DEF Sels
  <2>2. CASE x \in early
    BY <1>7, <1>8, <1>13, <2>1, <2>2 DEF OrderInv
  <2>3. CASE x \in B /\ i <= request.cursor
    <3>1. i \in Known
      BY <1>7, <1>11, <2>1, <2>3, KnownDown
    <3>2. QED
      BY <1>8, <3>1
  <2>4. CASE x \in B /\ ~(i <= request.cursor)
    <3>1. request.cursor < i
      BY <1>11, <2>1, <2>4
    <3>2. x \in Listed
      BY <1>5, <2>4
    <3>3. i \in UpToListed
      BY <1>13, <2>1, <3>2 DEF UpToListed
    <3>4. i \in Listed
      BY <1>4, <2>1, <3>1, <3>3
    <3>5. PICK m \in 1..r : Rows[m].id = i
      BY <1>3, <3>4 DEF Listed, IdsOf
    <3>6. PICK q \in 1..c : Rows[q].id = x
      BY <1>5, <2>4
    <3>7. q \in 1..r
      BY <1>3
    <3>8. ~(q < m)
      <4>1. q < m => Rows[q].id < Rows[m].id
        BY <1>3, <1>4, <3>7 DEF RisingRows
      <4>2. Rows[q].id \in Nat
        BY <1>3, <3>7, ViewFacts
      <4>3. QED
        BY <1>13, <2>1, <3>5, <3>6, <4>1, <4>2
    <3>9. m \in 1..c
      BY <3>5, <3>6, <3>8
    <3>10. i \in B
      BY <1>5, <3>5, <3>9
    <3>11. QED
      BY <1>8, <3>10
  <2>5. x \in early \/ x \in B
    BY <1>3, <1>5
  <2>6. QED
    BY <2>2, <2>3, <2>4, <2>5
<1>14. request'.type # "older"
  BY <1>1 DEF NoRequest
<1>15. QED
  BY <1>10, <1>12, <1>13, <1>14 DEF OrderInv

\* Older rows come before the first shown, but for what came early.
LEMMA OrderOlderArrives ==
  ASSUME TypeOK, LogInv, PhaseInv, ListInv, OrderInv, LogKept, OlderArrives
  PROVE  OrderInv'
<1>1. /\ request.type = "older" /\ request.at = "back" /\ request' = NoRequest
      /\ UNCHANGED <<source, stored, heard, stray>>
  BY DEF OlderArrives, dbVars
<1>2. shown # <<>>
  BY <1>1 DEF PhaseInv
<1>3. PICK d \in {0, 1}, c \in Nat, m \in Nat, l \in Nat, r \in Nat :
        /\ r = Len(Rows) /\ c = r - d /\ l = Len(shown) /\ m <= l
        /\ DOMAIN shown = 1..l /\ DOMAIN Rows = 1..r
        /\ DOMAIN shown' = 1..(c + m)
        /\ \A k \in 1..c : shown'[k] = Rows[k + d] /\ k + d \in 1..r
        /\ \A k \in 1..m : shown'[c + k] = shown[k] /\ k \in 1..l
        /\ early' = early \cup ({Rows[k + d].id : k \in 1..c} \ heard)
        /\ {Rows[k + d].id : k \in 1..c} \subseteq Listed
        /\ \A i \in IdsOf(shown') : i \in IdsOf(shown) \/ i \in {Rows[k + d].id : k \in 1..c}
  <2>1. PICK d \in {0, 1}, c \in Nat, m \in Nat :
           /\ Len(Rows) \in Nat /\ c = Len(Rows) - d
           /\ Len(shown) \in Nat /\ m <= Len(shown)
           /\ DOMAIN shown = 1..Len(shown) /\ DOMAIN Rows = 1..Len(Rows)
           /\ DOMAIN shown' = 1..(c + m)
           /\ \A k \in 1..c : shown'[k] = Rows[k + d] /\ k + d \in 1..Len(Rows)
           /\ \A k \in 1..m : shown'[c + k] = shown[k] /\ k \in 1..Len(shown)
           /\ early' = early \cup ({Rows[k + d].id : k \in 1..c} \ heard)
           /\ {Rows[k + d].id : k \in 1..c} \subseteq Listed
           /\ \A i \in IdsOf(shown') : i \in IdsOf(shown) \/ i \in {Rows[k + d].id : k \in 1..c}
    BY <1>2, OlderShown, ZenonT(30)
  <2>2. QED
    BY <2>1, Zenon
<1>4. /\ RisingRows(Rows) /\ Listed \subseteq Sels \cap stored
      /\ \A i \in Listed : i < request.cursor
  BY <1>1 DEF ListInv
<1>5. PICK B \in SUBSET Sent : B = {Rows[k + d].id : k \in 1..c} /\ B \subseteq Listed
  BY <1>3, <1>4 DEF Sels
<1>6. Sent' = Sent /\ Sels' = Sels /\ Finds' = Finds
  BY DEF LogKept
<1>7. SUFFICES ASSUME ~stray PROVE OrderInv'
  BY <1>1 DEF OrderInv
<1>8. B \subseteq Known' /\ Known \subseteq Known'
  BY <1>1, <1>3, <1>5, <1>6, ListedIsKnown
<1>9. IdsOf(shown)' \subseteq IdsOf(shown) \cup B
  BY <1>3, <1>5 DEF IdsOf
<1>10. /\ IdsOf(shown)' \subseteq Sent' \cap Known' \cap (stored' \cup heard')
       /\ IdsOf(shown)' \subseteq Sels' \cup (heard' \cap Finds')
  BY <1>1, <1>4, <1>5, <1>6, <1>7, <1>8, <1>9 DEF OrderInv
<1>11. request.cursor \in Sent /\ request.cursor \in Known /\ request.cursor \in Nat
  BY <1>1, <1>7, ViewFacts DEF OrderInv
<1>12. ASSUME NEW j \in DOMAIN shown', NEW k \in DOMAIN shown', j < k, NEW i \in Sels',
              shown'[k].id <= i, i <= shown'[j].id
       PROVE  i \in early'
  <2>1. /\ j \in 1..c \/ \E q \in 1..m : j = c + q
        /\ k \in 1..c \/ \E q \in 1..m : k = c + q
    <3>1. \A q \in 1..(c + m) : q \in 1..c \/ (q - c \in 1..m /\ q = c + (q - c))
      BY <1>3
    <3>2. QED
      BY <1>3, <3>1
  <2>2. i \in Nat /\ i \in Sels
    BY <1>6, ViewFacts DEF Sels
  <2>3. CASE j \in 1..c /\ k \in 1..c
    <3>1. /\ shown'[j] = Rows[j + d] /\ j + d \in DOMAIN Rows
          /\ shown'[k] = Rows[k + d] /\ k + d \in DOMAIN Rows
      BY <1>3, <2>3
    <3>2. j + d < k + d
      BY <1>12, <2>3
    <3>3. Rows[j + d].id < Rows[k + d].id /\ Rows[j + d].id \in Nat /\ Rows[k + d].id \in Nat
      BY <1>4, <3>1, <3>2, ViewFacts DEF RisingRows
    <3>4. QED
      BY <1>12, <2>2, <3>1, <3>3
  <2>4. CASE j \in 1..c /\ \E q \in 1..m : k = c + q
    <3>1. PICK q \in 1..m : k = c + q
      BY <2>4
    <3>2. shown'[k] = shown[q] /\ q \in DOMAIN shown /\ shown'[j] = Rows[j + d]
          /\ j + d \in DOMAIN Rows
      BY <1>3, <2>4, <3>1
    <3>3. Rows[j + d].id < request.cursor /\ Rows[j + d].id \in Nat
      BY <1>4, <3>2, ViewFacts
    <3>4. i < request.cursor
      BY <1>11, <1>12, <2>2, <3>2, <3>3
    <3>5. i \in early
      BY <1>1, <1>7, <1>12, <2>2, <3>2, <3>4 DEF OrderInv
    <3>6. QED
      BY <1>3, <3>5
  <2>5. CASE (\E q \in 1..m : j = c + q) /\ \E q \in 1..m : k = c + q
    <3>1. PICK p \in 1..m, q \in 1..m : j = c + p /\ k = c + q
      BY <2>5
    <3>2. p < q
      BY <1>12, <3>1
    <3>3. shown'[j] = shown[p] /\ shown'[k] = shown[q] /\ p \in DOMAIN shown /\ q \in DOMAIN shown
      BY <1>3, <3>1
    <3>4. i \in early
      BY <1>7, <1>12, <2>2, <3>2, <3>3 DEF OrderInv
    <3>5. QED
      BY <1>3, <3>4
  <2>6. CASE (\E q \in 1..m : j = c + q) /\ k \in 1..c
    <3>1. PICK q \in 1..m : j = c + q
      BY <2>6
    <3>2. k < j
      BY <1>3, <2>6, <3>1
    <3>3. QED
      BY <1>12, <3>1, <3>2, <2>6
  <2>7. QED
    BY <2>1, <2>3, <2>4, <2>5, <2>6
<1>13. ASSUME NEW x \in early', NEW i \in Sels', i <= x
       PROVE  i \in Known'
  <2>1. i \in Nat /\ i \in Sels
    BY <1>6, ViewFacts DEF Sels
  <2>2. CASE x \in early
    BY <1>7, <1>8, <1>13, <2>1, <2>2 DEF OrderInv
  <2>3. CASE x \in B
    <3>1. x < request.cursor /\ x \in Nat
      BY <1>4, <1>5, <2>3, ViewFacts
    <3>2. i <= request.cursor
      BY <1>11, <1>13, <2>1, <3>1
    <3>3. i \in Known
      BY <1>7, <1>11, <2>1, <3>2, KnownDown
    <3>4. QED
      BY <1>8, <3>3
  <2>4. x \in early \/ x \in B
    BY <1>3, <1>5
  <2>5. QED
    BY <2>2, <2>3, <2>4
<1>14. request'.type # "older"
  BY <1>1 DEF NoRequest
<1>15. QED
  BY <1>10, <1>12, <1>13, <1>14 DEF OrderInv

\* Every step keeps the order of what is shown.
LEMMA OrderInvNext ==
  ASSUME TypeOK, LogInv, TaskInv, PhaseInv, ListInv, StreamInv, OrderInv, [Next]_vars
  PROVE  OrderInv'
<1>1. /\ request \in [type : {"none", "first", "more", "older"},
                      at : {"no", "list", "look", "back"},
                      cursor : {0} \cup DOMAIN log, rows : Seq(RowType)]
      /\ source \in [at : {"no", "list", "look", "open"}, cursor : {0} \cup DOMAIN log,
                     rows : Seq(RowType)]
  BY DEF TypeOK
<1>2. ASSUME LogKept, source'.cursor = source.cursor, stored \subseteq stored',
             UNCHANGED <<early, heard, stray, shown>>,
             request'.type = "older" => request.type = "older" /\ request'.cursor = request.cursor
      PROVE  OrderInv'
  <2>1. IdsOf(shown)' = IdsOf(shown) /\ DOMAIN shown' = DOMAIN shown
        /\ \A k \in DOMAIN shown : shown'[k].id = shown[k].id
    BY <1>2 DEF IdsOf
  <2>2. QED
    BY <1>2, <2>1, OrderFrame
<1>3. CASE QuietStep
  <2>1. /\ UNCHANGED <<request, source, early, heard, stray, shown>> /\ stored \subseteq stored'
    BY <1>3 DEF QuietStep, ViewKept
  <2>2. CASE LogKept
    BY <1>2, <2>1, <2>2
  <2>3. CASE LogMore(Len(log'))
    BY <2>1, <2>3, OrderMore
  <2>4. QED
    BY <1>3, <2>2, <2>3 DEF QuietStep
<1>4. CASE LogKept /\ (Swap \/ Notify \/ TellView)
  <2>1. UNCHANGED <<request, source, early, heard, stray, shown, stored>>
    BY <1>4 DEF Swap, Notify, TellView, missVars, storeVars, dbVars
  <2>2. QED
    BY <1>2, <1>4, <2>1
<1>5. CASE LogKept /\ (ServeList \/ ServeLookUp)
  <2>1. /\ UNCHANGED <<source, early, heard, stray, shown, stored>>
        /\ request'.type = request.type /\ request'.cursor = request.cursor
    BY <1>1, <1>5 DEF ServeList, ServeLookUp, storeVars, dbVars
  <2>2. QED
    BY <1>2, <1>5, <2>1
<1>6. CASE LogKept /\ (SubscribeList \/ Subscribe)
  <2>1. /\ UNCHANGED <<request, early, heard, stray, shown, stored>>
        /\ source'.cursor = source.cursor
    BY <1>1, <1>6 DEF SubscribeList, Subscribe, storeVars, dbVars, missVars
  <2>2. QED
    BY <1>2, <1>6, <2>1
<1>7. CASE LogKept /\ FetchMore
  <2>1. /\ UNCHANGED <<source, early, heard, stray, shown, stored>>
        /\ request' = [type |-> "more", at |-> "list", cursor |-> shown[Len(shown)].id,
           rows |-> <<>>]
    BY <1>7 DEF FetchMore, NoRequest, storeVars, dbVars
  <2>2. request'.type # "older"
    BY <2>1
  <2>3. QED
    BY <1>2, <1>7, <2>1, <2>2
<1>8. QED
  BY <1>3, <1>4, <1>5, <1>6, <1>7, LoudSteps, OrderFirst, OrderFetchOlder, OrderEvent,
     OrderMoreArrives, OrderOlderArrives DEF Server, View

\* The view shows each record once and in order.
LEMMA ShownInOrder ==
  ASSUME TypeOK, LogInv, OrderInv
  PROVE  ShownOnce
<1>1. SUFFICES ASSUME ~stray PROVE ShownOnce
  BY DEF ShownOnce
<1>2. ASSUME NEW j \in DOMAIN shown, NEW k \in DOMAIN shown, j < k
      PROVE  \/ shown[j].id < shown[k].id
             \/ shown[k].id \in early
             \/ OutOfTime(shown[j].id) /\ OutOfTime(shown[k].id)
             \/ ~SqlSelects(filter, log[shown[k].id])
  <2>1. shown[j].id \in Nat /\ shown[k].id \in Nat /\ shown[k].id \in Sent
    BY <1>1, ViewFacts DEF OrderInv
  <2>2. CASE shown[k].id \in Sels /\ ~(shown[j].id < shown[k].id)
    <3>1. shown[k].id <= shown[k].id /\ shown[k].id <= shown[j].id
      BY <2>1, <2>2
    <3>2. QED
      BY <1>1, <1>2, <2>2, <3>1 DEF OrderInv
  <2>3. QED
    BY <2>1, <2>2 DEF Sels
<1>3. \A i \in IdsOf(shown) : \/ SqlSelects(filter, log[i])
                              \/ /\ i \in heard
                                 /\ SqlSelects([filter EXCEPT !.search = {}], log[i])
  BY <1>1 DEF OrderInv, Sels, Finds
<1>4. QED
  BY <1>1, <1>2, <1>3 DEF ShownOnce

-----------------------------------------------------------------------------
(* The ends of spans.                                                      *)

\* No close is appended, and none comes before its span.
LEMMA EndsAre ==
  ASSUME TypeOK, LogInv, NEW i, NEW c, <<i, c>> \in Ends
  PROVE  /\ i \in Sent /\ c \in Sent /\ i \in Nat /\ c \in Nat /\ i < c /\ ~Appends(c)
         /\ log[i].kind = "SpanCreate" /\ Closes(c) /\ log[i].span_t_id = log[c].span_t_id
<1>1. /\ i \in Sent /\ c \in Sent /\ i < c /\ c \notin Appended
  BY LogFacts
<1>2. i \in Nat /\ c \in Nat
  BY <1>1, LogFacts
<1>3. log[i].kind = "SpanCreate" /\ Closes(c) /\ log[i].span_t_id = log[c].span_t_id
  BY DEF Ends
<1>4. QED
  BY <1>1, <1>2, <1>3 DEF Appended

\* A step that shows no other rows and notes no less.
LEMMA CloseFrame ==
  ASSUME CloseInv, LogKept, Noted \subseteq Noted', lost \subseteq lost',
         UNCHANGED <<seen, heard, shown, stream>>,
         request.type = "first" /\ request.at = "look" =>
           request'.type = "first" /\ request'.at = "look",
         request'.at = "back" => request.at = "back" /\ request'.rows = request.rows
  PROVE  CloseInv'
<1>1. Sent' = Sent /\ Ends' = Ends
  BY DEF LogKept
<1>2. ~(request'.type = "first" /\ request'.at = "look") => seen' \cap Sent' \subseteq Noted'
  BY <1>1 DEF CloseInv
<1>3. \A k \in DOMAIN shown' : ~shown'[k].ended =>
        \A c \in seen' \cup heard' : <<shown'[k].id, c>> \in Ends' => c \in lost'
  BY <1>1 DEF CloseInv
<1>4. request'.at = "back" =>
        \A k \in DOMAIN Rows' : ~Rows'[k].ended => \A c \in seen' : <<Rows'[k].id, c>> \notin Ends'
  BY <1>1 DEF CloseInv, Rows
<1>5. \A k \in DOMAIN stream' : ~stream'[k].ended
      => \A c \in seen' : <<stream'[k].id, c>> \notin Ends'
  BY <1>1 DEF CloseInv
<1>6. QED
  BY <1>2, <1>3, <1>4, <1>5 DEF CloseInv

\* A close more was neither listed nor heard.
LEMMA CloseMore ==
  ASSUME TypeOK, CloseInv, LogMore(Len(log')), Noted \subseteq Noted',
         UNCHANGED <<request, seen, heard, shown, stream, lost>>
  PROVE  CloseInv'
<1>1. PICK n \in Nat \ {0} :
        /\ n \notin DOMAIN log /\ Sent' = Sent \cup {n}
        /\ \A i, c \in DOMAIN log : <<i, c>> \in Ends' => <<i, c>> \in Ends
  BY DEF LogMore
<1>2. seen \subseteq DOMAIN log /\ heard \subseteq DOMAIN log
  BY ViewFacts
<1>3. ~(request'.type = "first" /\ request'.at = "look") => seen' \cap Sent' \subseteq Noted'
  BY <1>1, <1>2 DEF CloseInv
<1>4. \A k \in DOMAIN shown' : ~shown'[k].ended =>
        \A c \in seen' \cup heard' : <<shown'[k].id, c>> \in Ends' => c \in lost'
  <2>1. \A k \in DOMAIN shown : shown[k].id \in DOMAIN log
    BY ViewFacts
  <2>2. QED
    BY <1>1, <1>2, <2>1 DEF CloseInv
<1>5. request'.at = "back" =>
        \A k \in DOMAIN Rows' : ~Rows'[k].ended => \A c \in seen' : <<Rows'[k].id, c>> \notin Ends'
  <2>1. \A k \in DOMAIN Rows : Rows[k].id \in DOMAIN log
    BY ViewFacts
  <2>2. Rows' = Rows
    BY DEF Rows
  <2>3. QED
    BY <1>1, <1>2, <2>1, <2>2 DEF CloseInv
<1>6. \A k \in DOMAIN stream' : ~stream'[k].ended
      => \A c \in seen' : <<stream'[k].id, c>> \notin Ends'
  <2>1. \A k \in DOMAIN stream : stream[k].id \in DOMAIN log
    BY ViewFacts
  <2>2. QED
    BY <1>1, <1>2, <2>1 DEF CloseInv
<1>7. QED
  BY <1>3, <1>4, <1>5, <1>6 DEF CloseInv

\* Another event on its way.
LEMMA CloseStream ==
  ASSUME TypeOK, CloseInv, LogKept, Noted \subseteq Noted',
         UNCHANGED <<request, seen, heard, shown, lost>>,
         NEW n \in DOMAIN log, \A c \in seen : <<n, c>> \notin Ends,
         stream' = Append(stream, Row(n))
  PROVE  CloseInv'
<1>1. Sent' = Sent /\ Ends' = Ends
  BY DEF LogKept
<1>2. stream \in Seq([id : DOMAIN log, ended : BOOLEAN])
  BY RowsTyped
<1>3. Row(n) \in [id : DOMAIN log, ended : BOOLEAN] /\ Row(n).id = n
  BY DEF Row
<1>4. /\ Len(stream) \in Nat
      /\ \A k \in 1..Len(stream) : stream'[k] = stream[k]
      /\ stream'[Len(stream) + 1].id = n
      /\ Len(stream') = Len(stream) + 1
      /\ stream' \in Seq([id : DOMAIN log, ended : BOOLEAN])
  BY <1>2, <1>3, IdsOfAppend
<1>5. DOMAIN stream' = 1..(Len(stream) + 1) /\ DOMAIN stream = 1..Len(stream)
  BY <1>2, <1>4, RowsAre
<1>6. ASSUME NEW k \in DOMAIN stream', ~stream'[k].ended, NEW c \in seen
      PROVE  <<stream'[k].id, c>> \notin Ends
  <2>1. k \in 1..Len(stream) \/ k = Len(stream) + 1
    BY <1>4, <1>5
  <2>2. CASE k \in 1..Len(stream)
    BY <1>4, <1>5, <1>6, <2>2 DEF CloseInv
  <2>3. CASE k = Len(stream) + 1
    BY <1>4, <2>3
  <2>4. QED
    BY <2>1, <2>2, <2>3
<1>7. \A k \in DOMAIN stream' : ~stream'[k].ended
      => \A c \in seen' : <<stream'[k].id, c>> \notin Ends'
  BY <1>1, <1>6
<1>8. ~(request'.type = "first" /\ request'.at = "look") => seen' \cap Sent' \subseteq Noted'
  BY <1>1 DEF CloseInv
<1>9. \A k \in DOMAIN shown' : ~shown'[k].ended =>
        \A c \in seen' \cup heard' : <<shown'[k].id, c>> \in Ends' => c \in lost'
  BY <1>1 DEF CloseInv
<1>10. request'.at = "back" =>
         \A k \in DOMAIN Rows' : ~Rows'[k].ended => \A c \in seen' : <<Rows'[k].id, c>> \notin Ends'
  BY <1>1 DEF CloseInv, Rows
<1>11. QED
  BY <1>7, <1>8, <1>9, <1>10 DEF CloseInv

\* A row that is told was not listed, nor was the close of its span.
LEMMA CloseTold ==
  ASSUME TypeOK, LogInv, TaskInv, PhaseInv, StreamInv, CloseInv, LogKept, Noted \subseteq Noted',
         Notify \/ TellView
  PROVE  CloseInv'
<1>1. UNCHANGED <<request, seen, heard, shown, lost>>
  BY DEF Notify, TellView, storeVars, missVars
<1>2. CASE stream' = stream
  BY <1>1, <1>2, CloseFrame
<1>3. CASE Notify /\ stream' # stream
  <2>1. PICK n \in Untold :
          /\ n = batch[told + 1] /\ n \in Sent /\ n \in DOMAIN log
          /\ \A i \in Sent \ Untold : i < n
    BY <1>3, NotifyIs
  <2>2. watched /\ stream' = Append(stream, Row(n))
    BY <1>3, <2>1 DEF Notify
  <2>3. ASSUME NEW c \in seen, <<n, c>> \in Ends
        PROVE  FALSE
    <3>1. c \in Sent /\ c \in Nat /\ n \in Nat /\ n < c
      BY <2>3, EndsAre
    <3>2. c \notin Untold
      BY <2>2 DEF StreamInv
    <3>3. c < n
      BY <2>1, <3>1, <3>2
    <3>4. QED
      BY <3>1, <3>3
  <2>4. QED
    BY <1>1, <2>1, <2>2, <2>3, CloseStream
<1>4. CASE TellView /\ stream' # stream
  <2>1. /\ stream' = Append(stream, Row(Head(registry))) /\ registry # <<>>
           /\ Head(registry) # Watch
    BY <1>4 DEF TellView, TypeOK
  <2>2. Head(registry) \in IdsIn(registry)
    BY <2>1, RegistryTyped, IdsInTail
  <2>3. Head(registry) \in DOMAIN log /\ Head(registry) \notin Sent
    BY <2>1, <2>2, RegistryTyped DEF PhaseInv
  <2>4. \A c \in seen : <<Head(registry), c>> \notin Ends
    BY <2>3 DEF Ends
  <2>5. QED
    BY <1>1, <2>1, <2>3, <2>4, CloseStream
<1>5. QED
  BY <1>2, <1>3, <1>4

\* Rows that were looked up lack no end that is noted.
LEMMA LookedUp ==
  ASSUME TypeOK, LogInv, NEW i \in DOMAIN log, NEW c \in Noted, <<i, c>> \in Ends
  PROVE  log[i].kind = "SpanCreate" /\ log[i].span_t_id \subseteq closed
  BY EndsAre DEF Noted

\* The rows looked up have the ends noted.
LEMMA CloseListings ==
  ASSUME TypeOK, LogInv, PhaseInv, CloseInv, LogKept, Noted \subseteq Noted', ServeList
         \/ ServeLookUp
  PROVE  CloseInv'
<1>1. Sent' = Sent /\ Ends' = Ends
  BY DEF LogKept
<1>2. UNCHANGED <<shown, stream, heard>> /\ lost \subseteq lost'
  BY DEF ServeList, ServeLookUp, storeVars
<1>3. /\ request \in [type : {"none", "first", "more", "older"},
                      at : {"no", "list", "look", "back"},
                      cursor : {0} \cup DOMAIN log, rows : Seq(RowType)]
  BY DEF TypeOK
<1>4. CASE ServeList /\ request.type # "first"
  <2>1. seen' = seen /\ request'.at = "look"
    BY <1>3, <1>4 DEF ServeList
  <2>2. QED
    BY <1>2, <1>4, <2>1, CloseFrame
<1>5. CASE ServeList /\ request.type = "first"
  <2>1. request'.type = "first" /\ request'.at = "look"
    BY <1>3, <1>5 DEF ServeList
  <2>2. DOMAIN shown' = {} /\ DOMAIN stream' = {}
    BY <1>2, <1>5, NoRows DEF PhaseInv
  <2>3. QED
    BY <2>1, <2>2 DEF CloseInv
<1>6. CASE ServeLookUp
  <2>1. /\ request'.type = request.type /\ request'.at = "back" /\ DOMAIN Rows' = DOMAIN Rows
        /\ \A k \in DOMAIN Rows :
             /\ Rows'[k].id = Rows[k].id
             /\ Rows'[k].ended <=>
                  log[Rows[k].id].kind = "SpanCreate" /\ log[Rows[k].id].span_t_id \subseteq closed
    BY <1>6, ServeLookUpIs
  <2>2. /\ seen' \subseteq seen
        /\ request.type = "first" => seen' \cap Sent = seen \cap Noted
        /\ request.type # "first" => seen' = seen
    BY <1>6, SeenOfLookUp
  <2>3. seen' \cap Sent \subseteq Noted
    BY <1>6, <2>2 DEF CloseInv, Noted
  <2>4. ASSUME NEW k \in DOMAIN Rows, ~Rows'[k].ended, NEW c \in seen', <<Rows[k].id, c>> \in Ends
        PROVE  FALSE
    <3>1. c \in Noted /\ Rows[k].id \in DOMAIN log
      BY <2>3, <2>4, EndsAre, ViewFacts
    <3>2. QED
      BY <2>1, <2>4, <3>1, LookedUp
  <2>5. request'.at = "back" =>
          \A k \in DOMAIN Rows' : ~Rows'[k].ended
          => \A c \in seen' : <<Rows'[k].id, c>> \notin Ends'
    BY <1>1, <2>1, <2>4
  <2>6. \A k \in DOMAIN shown' : ~shown'[k].ended =>
          \A c \in seen' \cup heard' : <<shown'[k].id, c>> \in Ends' => c \in lost'
    BY <1>1, <1>2, <2>2 DEF CloseInv
  <2>7. \A k \in DOMAIN stream' : ~stream'[k].ended
        => \A c \in seen' : <<stream'[k].id, c>> \notin Ends'
    BY <1>1, <1>2, <2>2 DEF CloseInv
  <2>8. seen' \cap Sent' \subseteq Noted'
    BY <1>1, <2>3
  <2>9. QED
    BY <2>5, <2>6, <2>7, <2>8 DEF CloseInv
<1>7. QED
  BY <1>4, <1>5, <1>6

\* And so have those the subscription lists.
LEMMA CloseSubscribe ==
  ASSUME TypeOK, LogInv, PhaseInv, CloseInv, LogKept, Noted \subseteq Noted', Subscribe
  PROVE  CloseInv'
<1>1. Sent' = Sent /\ Ends' = Ends
  BY DEF LogKept
<1>2. /\ UNCHANGED <<request, seen, heard, shown, lost>> /\ stream' = LookUp(source.rows)
      /\ source.at = "look"
  BY DEF Subscribe, storeVars, missVars
<1>3. source.rows \in Seq([id : DOMAIN log, ended : BOOLEAN])
  BY RowsTyped
<1>4. /\ DOMAIN stream' = DOMAIN source.rows
      /\ \A k \in DOMAIN source.rows :
           /\ stream'[k].id = source.rows[k].id
           /\ stream'[k].ended <=> log[source.rows[k].id].kind = "SpanCreate"
                                   /\ log[source.rows[k].id].span_t_id \subseteq closed
  BY <1>2, <1>3, LookUpIs
<1>5. seen \cap Sent \subseteq Noted
  BY <1>2 DEF PhaseInv, CloseInv
<1>6. ASSUME NEW k \in DOMAIN stream', ~stream'[k].ended, NEW c \in seen,
             <<stream'[k].id, c>> \in Ends
      PROVE  FALSE
  <2>1. c \in Noted
    BY <1>5, <1>6, EndsAre
  <2>2. stream'[k].id \in DOMAIN log
    BY <1>6, EndsAre, ViewFacts
  <2>3. log[stream'[k].id].kind = "SpanCreate" /\ log[stream'[k].id].span_t_id \subseteq closed
    BY <1>6, <2>1, <2>2, LookedUp
  <2>4. QED
    BY <1>4, <1>6, <2>3
<1>7. \A k \in DOMAIN stream' : ~stream'[k].ended
      => \A c \in seen' : <<stream'[k].id, c>> \notin Ends'
  BY <1>1, <1>2, <1>6
<1>8. ~(request'.type = "first" /\ request'.at = "look") => seen' \cap Sent' \subseteq Noted'
  BY <1>1, <1>2 DEF CloseInv
<1>9. \A k \in DOMAIN shown' : ~shown'[k].ended =>
        \A c \in seen' \cup heard' : <<shown'[k].id, c>> \in Ends' => c \in lost'
  BY <1>1, <1>2 DEF CloseInv
<1>10. request'.at = "back" =>
         \A k \in DOMAIN Rows' : ~Rows'[k].ended => \A c \in seen' : <<Rows'[k].id, c>> \notin Ends'
  BY <1>1, <1>2 DEF CloseInv, Rows
<1>11. QED
  BY <1>7, <1>8, <1>9, <1>10 DEF CloseInv

\* A listing has arrived, and what is shown of it says what there is to say.
LEMMA CloseArrival ==
  ASSUME CloseInv, LogKept, Noted \subseteq Noted', UNCHANGED <<seen, stream>>,
         request.at = "back", request' = NoRequest,
         \A k \in DOMAIN shown' : ~shown'[k].ended =>
           \A c \in seen \cup heard' : <<shown'[k].id, c>> \in Ends => c \in lost'
  PROVE  CloseInv'
<1>1. Sent' = Sent /\ Ends' = Ends
  BY DEF LogKept
<1>2. seen' \cap Sent' \subseteq Noted'
  BY <1>1 DEF CloseInv
<1>3. request'.at # "back"
  BY DEF NoRequest
<1>4. \A k \in DOMAIN stream' : ~stream'[k].ended
      => \A c \in seen' : <<stream'[k].id, c>> \notin Ends'
  BY <1>1 DEF CloseInv
<1>5. \A k \in DOMAIN shown' : ~shown'[k].ended =>
        \A c \in seen' \cup heard' : <<shown'[k].id, c>> \in Ends' => c \in lost'
  BY <1>1
<1>6. QED
  BY <1>2, <1>3, <1>4, <1>5 DEF CloseInv

\* The first rows shown have the ends that were noted.
LEMMA CloseFirst ==
  ASSUME TypeOK, LogInv, PhaseInv, CloseInv, LogKept, Noted \subseteq Noted', FirstArrives
  PROVE  CloseInv'
<1>1. /\ request.at = "back" /\ request.type = "first" /\ request' = NoRequest
      /\ UNCHANGED <<seen, heard, lost, stream>>
  BY DEF FirstArrives, missVars
<1>2. heard' = {}
  BY <1>1 DEF PhaseInv
<1>3. PICK d \in {0, 1}, r \in Nat :
        /\ r = Len(Rows) /\ DOMAIN Rows = 1..r /\ DOMAIN shown' = 1..(r - d)
        /\ \A k \in 1..(r - d) : shown'[k] = Rows[k + d] /\ k + d \in 1..r
  <2>1. PICK d \in {0, 1} :
          /\ Len(Rows) \in Nat /\ DOMAIN Rows = 1..Len(Rows) /\ DOMAIN shown' = 1..(Len(Rows) - d)
          /\ \A k \in 1..(Len(Rows) - d) : shown'[k] = Rows[k + d] /\ k + d \in 1..Len(Rows)
    BY FirstShown
  <2>2. QED
    BY <2>1, Zenon
<1>4. ASSUME NEW k \in DOMAIN shown', ~shown'[k].ended, NEW c \in seen, <<shown'[k].id, c>> \in Ends
      PROVE  FALSE
  <2>1. shown'[k] = Rows[k + d] /\ k + d \in DOMAIN Rows
    BY <1>3
  <2>2. QED
    BY <1>1, <1>4, <2>1 DEF CloseInv
<1>5. QED
  BY <1>1, <1>2, <1>4, CloseArrival

\* The rows after the last have them too, or the close is lost.
LEMMA CloseMoreArrives ==
  ASSUME TypeOK, LogInv, PhaseInv, CloseInv, LogKept, Noted \subseteq Noted', MoreArrives
  PROVE  CloseInv'
<1>1. /\ request.at = "back" /\ request.type = "more" /\ request' = NoRequest
      /\ UNCHANGED <<seen, heard, stream>>
  BY DEF MoreArrives
<1>2. shown # <<>>
  BY <1>1 DEF PhaseInv
<1>3. PICK c \in Nat, d \in Nat, l \in Nat, r \in Nat :
        /\ r = Len(Rows) /\ c <= r /\ l = Len(shown) /\ d < l
        /\ DOMAIN shown = 1..l /\ DOMAIN Rows = 1..r
        /\ DOMAIN shown' = 1..(l - d + c)
        /\ \A k \in 1..(l - d) : shown'[k] = shown[k + d] /\ k + d \in 1..l
        /\ \A k \in 1..c : shown'[l - d + k] = Rows[k] /\ k \in 1..r
        /\ lost \subseteq lost'
        /\ \A k \in 1..c : ~Rows[k].ended =>
             \A x \in heard : <<Rows[k].id, x>> \in Ends => x \in lost'
  BY <1>2, MoreShown
<1>4. ASSUME NEW k \in DOMAIN shown', ~shown'[k].ended, NEW x \in seen \cup heard',
             <<shown'[k].id, x>> \in Ends
      PROVE  x \in lost'
  <2>1. k \in 1..(l - d) \/ \E m \in 1..c : k = l - d + m
    <3>1. \A q \in 1..(l - d + c) : q \in 1..(l - d)
          \/ (q - (l - d) \in 1..c /\ q = l - d + (q - (l - d)))
      BY <1>3
    <3>2. QED
      BY <1>3, <3>1
  <2>2. CASE k \in 1..(l - d)
    <3>1. shown'[k] = shown[k + d] /\ k + d \in DOMAIN shown
      BY <1>3, <2>2
    <3>2. QED
      BY <1>1, <1>3, <1>4, <3>1 DEF CloseInv
  <2>3. CASE \E m \in 1..c : k = l - d + m
    <3>1. PICK m \in 1..c : k = l - d + m
      BY <2>3
    <3>2. shown'[k] = Rows[m] /\ m \in DOMAIN Rows
      BY <1>3, <3>1
    <3>3. x \notin seen
      BY <1>1, <1>4, <3>2 DEF CloseInv
    <3>4. QED
      BY <1>1, <1>3, <1>4, <3>2, <3>3
  <2>4. QED
    BY <2>1, <2>2, <2>3
<1>5. QED
  BY <1>1, <1>4, CloseArrival

\* And so have the older ones.
LEMMA CloseOlderArrives ==
  ASSUME TypeOK, LogInv, PhaseInv, CloseInv, LogKept, Noted \subseteq Noted', OlderArrives
  PROVE  CloseInv'
<1>1. /\ request.at = "back" /\ request.type = "older" /\ request' = NoRequest
      /\ UNCHANGED <<seen, heard, stream>>
  BY DEF OlderArrives
<1>2. shown # <<>>
  BY <1>1 DEF PhaseInv
<1>3. PICK d \in {0, 1}, c \in Nat, m \in Nat, l \in Nat, r \in Nat :
        /\ l = Len(shown) /\ m <= l /\ DOMAIN shown = 1..l /\ r = Len(Rows) /\ DOMAIN Rows = 1..r
        /\ DOMAIN shown' = 1..(c + m)
        /\ \A k \in 1..c : shown'[k] = Rows[k + d] /\ k + d \in 1..r
        /\ \A k \in 1..m : shown'[c + k] = shown[k] /\ k \in 1..l
        /\ lost \cup shifted \subseteq lost'
        /\ \A k \in 1..c : ~Rows[k + d].ended =>
             \A x \in heard : <<Rows[k + d].id, x>> \in Ends => x \in lost'
  <2>1. PICK d \in {0, 1}, c \in Nat, m \in Nat :
           /\ Len(Rows) \in Nat /\ Len(shown) \in Nat /\ m <= Len(shown)
           /\ DOMAIN shown = 1..Len(shown) /\ DOMAIN Rows = 1..Len(Rows)
           /\ DOMAIN shown' = 1..(c + m)
           /\ \A k \in 1..c : shown'[k] = Rows[k + d] /\ k + d \in 1..Len(Rows)
           /\ \A k \in 1..m : shown'[c + k] = shown[k] /\ k \in 1..Len(shown)
           /\ lost \cup shifted \subseteq lost'
           /\ \A k \in 1..c : ~Rows[k + d].ended =>
                \A x \in heard : <<Rows[k + d].id, x>> \in Ends => x \in lost'
    BY <1>2, OlderShown, ZenonT(30)
  <2>2. QED
    BY <2>1, Zenon
<1>4. ASSUME NEW k \in DOMAIN shown', ~shown'[k].ended, NEW x \in seen \cup heard',
             <<shown'[k].id, x>> \in Ends
      PROVE  x \in lost'
  <2>1. k \in 1..c \/ \E q \in 1..m : k = c + q
    <3>1. \A q \in 1..(c + m) : q \in 1..c \/ (q - c \in 1..m /\ q = c + (q - c))
      BY <1>3
    <3>2. QED
      BY <1>3, <3>1
  <2>2. CASE \E q \in 1..m : k = c + q
    <3>1. PICK q \in 1..m : k = c + q
      BY <2>2
    <3>2. shown'[k] = shown[q] /\ q \in DOMAIN shown
      BY <1>3, <3>1
    <3>3. x \in lost
      BY <1>1, <1>4, <3>2 DEF CloseInv
    <3>4. QED
      BY <1>3, <3>3
  <2>3. CASE k \in 1..c
    <3>1. shown'[k] = Rows[k + d] /\ k + d \in DOMAIN Rows
      BY <1>3, <2>3
    <3>2. x \notin seen
      BY <1>1, <1>4, <3>1 DEF CloseInv
    <3>3. QED
      BY <1>1, <1>3, <1>4, <2>3, <3>1, <3>2
  <2>4. QED
    BY <2>1, <2>2, <2>3
<1>5. QED
  BY <1>1, <1>4, CloseArrival

\* A close that comes is noted at its span's row, if that is shown.
LEMMA CloseEvent ==
  ASSUME TypeOK, LogInv, PhaseInv, StreamInv, CloseInv, LogKept, Noted \subseteq Noted',
         EventArrives
  PROVE  CloseInv'
<1>1. PICK e \in [id : DOMAIN log, ended : BOOLEAN] :
        /\ e = Head(stream) /\ e = stream[1]
        /\ EventAppends(e) \/ EventChanges(e)
        /\ heard' = heard \cup {e.id}
        /\ e.id \in IdsOf(stream)
        /\ Len(stream) \in Nat /\ DOMAIN stream = 1..Len(stream)
        /\ DOMAIN stream' = 1..(Len(stream) - 1)
        /\ \A k \in 1..(Len(stream) - 1) : stream'[k] = stream[k + 1] /\ k + 1 \in 1..Len(stream)
        /\ 1 \in 1..Len(stream)
        /\ UNCHANGED <<request, isEnd, seen, lost>>
  BY EventMoves
<1>2. Sent' = Sent /\ Ends' = Ends
  BY DEF LogKept
<1>3. ~(request'.type = "first" /\ request'.at = "look") => seen' \cap Sent' \subseteq Noted'
  BY <1>1, <1>2 DEF CloseInv
<1>4. request'.at = "back" =>
        \A k \in DOMAIN Rows' : ~Rows'[k].ended => \A c \in seen' : <<Rows'[k].id, c>> \notin Ends'
  BY <1>1, <1>2 DEF CloseInv, Rows
<1>5. \A k \in DOMAIN stream' : ~stream'[k].ended
      => \A c \in seen' : <<stream'[k].id, c>> \notin Ends'
  BY <1>1, <1>2 DEF CloseInv
<1>6. ASSUME NEW k \in DOMAIN shown, ~shown[k].ended, NEW c \in seen \cup heard,
             <<shown[k].id, c>> \in Ends
      PROVE  c \in lost
  BY <1>6 DEF CloseInv
<1>7. ASSUME EventAppends(e), NEW i
      PROVE  <<i, e.id>> \notin Ends
  BY <1>7, EndsAre DEF EventAppends
<1>8. ASSUME NEW k \in DOMAIN shown', ~shown'[k].ended, NEW c \in seen \cup heard \cup {e.id},
             <<shown'[k].id, c>> \in Ends
      PROVE  c \in lost
  <2>1. CASE EventAppends(e) /\ ~isEnd
    <3>1. shown' = shown
      BY <2>1 DEF EventAppends
    <3>2. c # e.id
      BY <1>7, <1>8, <2>1
    <3>3. QED
      BY <1>6, <1>8, <3>1, <3>2
  <2>2. CASE EventChanges(e)
    <3>1. /\ k \in DOMAIN shown /\ shown'[k].id = shown[k].id
          /\ shown'[k].ended <=> shown[k].ended \/ <<shown[k].id, e.id>> \in Ends
      BY <1>8, <2>2, ChangeShown
    <3>2. c # e.id
      BY <1>8, <3>1
    <3>3. QED
      BY <1>6, <1>8, <3>1, <3>2
  <2>3. CASE EventAppends(e) /\ isEnd
    <3>1. PICK d \in {0, 1}, l \in Nat :
            /\ DOMAIN shown = 1..l /\ DOMAIN shown' = 1..(l + 1 - d)
            /\ \A q \in 1..(l - d) : shown'[q] = shown[q + d] /\ q + d \in 1..l
            /\ shown'[l + 1 - d] = e
      <4>1. PICK d \in {0, 1} :
              /\ Len(shown) \in Nat
              /\ DOMAIN shown = 1..Len(shown) /\ DOMAIN shown' = 1..(Len(shown) + 1 - d)
              /\ \A q \in 1..(Len(shown) - d) : shown'[q] = shown[q + d] /\ q + d \in 1..Len(shown)
              /\ shown'[Len(shown) + 1 - d] = e
        BY <2>3, EventShown
      <4>2. QED
        BY <4>1, Zenon
    <3>2. c # e.id
      BY <1>7, <1>8, <2>3
    <3>3. k \in 1..(l - d) \/ k = l + 1 - d
      <4>1. k \in 1..(l + 1 - d)
        BY <3>1
      <4>2. QED
        BY <4>1
    <3>4. CASE k \in 1..(l - d)
      <4>1. shown'[k] = shown[k + d] /\ k + d \in DOMAIN shown
        BY <3>1, <3>4
      <4>2. QED
        BY <1>6, <1>8, <3>2, <4>1
    <3>5. CASE k = l + 1 - d
      <4>1. shown'[k] = e
        BY <3>1, <3>5
      <4>2. c \notin seen
        BY <1>1, <1>8, <4>1 DEF CloseInv
      <4>3. c \in heard /\ c \in Sent /\ e.id \in Sent /\ e.id < c /\ c \in Nat /\ e.id \in Nat
        BY <1>8, <3>2, <4>1, <4>2, EndsAre
      <4>4. c < e.id
        BY <1>1, <4>3, EventIsAhead
      <4>5. QED
        BY <4>3, <4>4
    <3>6. QED
      BY <3>3, <3>4, <3>5
  <2>4. QED
    BY <1>1, <2>1, <2>2, <2>3
<1>9. \A k \in DOMAIN shown' : ~shown'[k].ended =>
        \A c \in seen' \cup heard' : <<shown'[k].id, c>> \in Ends' => c \in lost'
  BY <1>1, <1>2, <1>8
<1>10. QED
  BY <1>3, <1>4, <1>5, <1>9 DEF CloseInv

\* Every step keeps the ends of spans.
LEMMA CloseInvNext ==
  ASSUME TypeOK, LogInv, TaskInv, PhaseInv, StreamInv, CloseInv, [Next]_vars
  PROVE  CloseInv'
<1>1. CASE QuietStep
  <2>1. /\ UNCHANGED <<request, seen, heard, shown, stream, lost>> /\ Noted \subseteq Noted'
    BY <1>1 DEF QuietStep, ViewKept
  <2>2. CASE LogKept
    <3>1. lost \subseteq lost'
      BY <2>1
    <3>2. QED
      BY <2>1, <2>2, <3>1, CloseFrame
  <2>3. CASE LogMore(Len(log'))
    BY <2>1, <2>3, CloseMore
  <2>4. QED
    BY <1>1, <2>2, <2>3 DEF QuietStep
<1>2. CASE LogKept /\ Noted \subseteq Noted' /\ (Swap \/ SubscribeList)
  <2>1. UNCHANGED <<request, seen, heard, shown, stream>> /\ lost \subseteq lost'
    BY <1>2 DEF Swap, SubscribeList, storeVars, missVars
  <2>2. QED
    BY <1>2, <2>1, CloseFrame
<1>3. CASE LogKept /\ Noted \subseteq Noted' /\ FetchMore
  <2>1. /\ UNCHANGED <<seen, heard, shown, stream, lost>> /\ request.type = "none"
        /\ request' = [type |-> "more", at |-> "list", cursor |-> shown[Len(shown)].id,
           rows |-> <<>>]
    BY <1>3 DEF FetchMore, NoRequest, storeVars
  <2>2. request'.at = "list" /\ lost \subseteq lost'
    BY <2>1
  <2>3. QED
    BY <1>3, <2>1, <2>2, CloseFrame
<1>4. CASE LogKept /\ Noted \subseteq Noted' /\ FetchOlder
  <2>1. /\ UNCHANGED <<seen, heard, shown, stream, lost>> /\ request.type = "none"
        /\ request' = [type |-> "older", at |-> "list", cursor |-> shown[1].id, rows |-> <<>>]
    BY <1>4 DEF FetchOlder, NoRequest, storeVars
  <2>2. request'.at = "list" /\ lost \subseteq lost'
    BY <2>1
  <2>3. QED
    BY <1>4, <2>1, <2>2, CloseFrame
<1>5. QED
  BY <1>1, <1>2, <1>3, <1>4, LoudSteps, CloseTold, CloseListings, CloseSubscribe, CloseFirst,
     CloseMoreArrives, CloseOlderArrives, CloseEvent DEF Server, View

-----------------------------------------------------------------------------
(* What is not shown.                                                      *)

\* What a race has kept from the view remains so.
LEMMA GoneGrows ==
  ASSUME TypeOK, PhaseInv, Sent' = Sent, lost \subseteq lost', stored \subseteq stored',
         seen' = seen, watched' = watched,
         source' = source \/ source.at # "open"
  PROVE  Gone \subseteq Gone'
<1>1. CASE source.at = "open" /\ ~watched
  <2>1. source' = source
    BY <1>1
  <2>2. MissedBefore \subseteq MissedBefore'
    BY <2>1 DEF MissedBefore, IdsOf
  <2>3. QED
    BY <1>1, <2>1, <2>2 DEF Gone
<1>2. CASE ~(source.at = "open" /\ ~watched)
  BY <1>2 DEF Gone
<1>3. QED
  BY <1>1, <1>2

\* A step that neither lists nor shows.
LEMMA GapFrame ==
  ASSUME TypeOK, GapInv, Sent' = Sent, SelApps' = SelApps, Gone \subseteq Gone',
         UNCHANGED <<seen, heard, shown, isEnd, noOlder, stray, shifted, dropped>>,
         request'.type = request.type, request'.cursor = request.cursor,
         request'.at # "list" => /\ request.at # "list"
                                 /\ Listed' = Listed /\ LeftOut' = LeftOut /\ (Full' <=> Full)
  PROVE  GapInv'
<1>1. SUFFICES ASSUME ~stray, request.type # "first", NEW i \in SelApps
               PROVE  (EdgeGap(i) /\ HoleGap(i) /\ HeardGap(i) /\ OlderGap(i) /\ MoreGap(i))'
  BY DEF GapInv
<1>2. EdgeGap(i) /\ HoleGap(i) /\ HeardGap(i) /\ OlderGap(i) /\ MoreGap(i)
  BY <1>1 DEF GapInv
<1>3. Acc' = Acc /\ First' = First /\ Last' = Last /\ IdsOf(shown)' = IdsOf(shown)
  BY DEF Acc, First, Last, IdsOf
<1>4. EdgeGap(i)'
  BY <1>2, <1>3 DEF EdgeGap
<1>5. HoleGap(i)'
  BY <1>2, <1>3 DEF HoleGap
<1>6. HeardGap(i)'
  BY <1>2, <1>3 DEF HeardGap
<1>7. OlderGap(i)'
  BY <1>2, <1>3 DEF OlderGap
<1>8. MoreGap(i)'
  BY <1>2, <1>3 DEF MoreGap
<1>9. QED
  BY <1>4, <1>5, <1>6, <1>7, <1>8

\* A record more is missed by nobody yet.
LEMMA GapMore ==
  ASSUME TypeOK, PhaseInv, GapInv, LogMore(Len(log')), stored \subseteq stored', ViewKept
  PROVE  GapInv'
<1>1. PICK n \in Nat \ {0} :
        /\ n \notin DOMAIN log /\ (\A i \in DOMAIN log : i < n) /\ Sent' = Sent \cup {n}
        /\ SelApps' \subseteq SelApps \cup {n}
  BY DEF LogMore
<1>2. UNCHANGED <<request, source, stream, shown, isEnd, noOlder, seen, heard, dropped, shifted,
                  early, lost, stray, watched>>
  BY DEF ViewKept
<1>3. SUFFICES ASSUME ~stray, request.type # "first", NEW i \in SelApps'
               PROVE  (EdgeGap(i) /\ HoleGap(i) /\ HeardGap(i) /\ OlderGap(i) /\ MoreGap(i))'
  BY <1>2 DEF GapInv
<1>4. /\ Acc' = Acc /\ First' = First /\ Last' = Last /\ IdsOf(shown)' = IdsOf(shown)
      /\ Listed' = Listed /\ (Full' <=> Full)
  BY <1>2 DEF Acc, First, Last, IdsOf, Listed, Full, Rows
<1>5. heard \cap Sent' = heard \cap Sent
  BY <1>1, ViewFacts
<1>6. CASE i \in SelApps
  <2>1. EdgeGap(i) /\ HoleGap(i) /\ HeardGap(i) /\ OlderGap(i) /\ MoreGap(i)
    BY <1>3, <1>6 DEF GapInv
  <2>2. Gone \subseteq Gone'
    <3>1. MissedBefore \subseteq MissedBefore'
      BY <1>1, <1>2 DEF MissedBefore, IdsOf
    <3>2. QED
      BY <1>2, <3>1 DEF Gone
  <2>3. LeftOut \subseteq LeftOut'
    BY <1>1, <1>2, <1>4 DEF LeftOut, Rows
  <2>4. EdgeGap(i)'
    BY <1>2, <1>4, <2>1, <2>2 DEF EdgeGap
  <2>5. HoleGap(i)'
    BY <1>2, <1>4, <2>1, <2>2 DEF HoleGap
  <2>6. HeardGap(i)'
    BY <1>2, <1>4, <1>5, <2>1, <2>2 DEF HeardGap
  <2>7. OlderGap(i)'
    BY <1>2, <1>4, <2>1, <2>2, <2>3 DEF OlderGap
  <2>8. MoreGap(i)'
    BY <1>2, <1>4, <2>1, <2>2 DEF MoreGap
  <2>9. QED
    BY <2>4, <2>5, <2>6, <2>7, <2>8
<1>7. CASE i = n
  <2>1. n \notin Acc /\ n \notin IdsOf(shown)
    BY <1>1, ViewFacts DEF Acc
  <2>2. \A x \in DOMAIN log \cup {0} : ~(n < x)
    BY <1>1, ViewFacts
  <2>3. \A k \in DOMAIN shown : shown[k].id \in DOMAIN log
    BY ViewFacts
  <2>4. shown # <<>> => First \in DOMAIN log
    <3>1. shown \in Seq([id : DOMAIN log, ended : BOOLEAN])
      BY RowsTyped
    <3>2. shown # <<>> => 1 \in DOMAIN shown
      BY <3>1, RowsAre
    <3>3. QED
      BY <2>3, <3>2 DEF First
  <2>5. EdgeGap(i)'
    BY <1>2, <1>4, <1>7, <2>1, <2>2, <2>4 DEF EdgeGap
  <2>6. HoleGap(i)'
    <3>1. \A k \in 1..(Len(shown) - 1) : k + 1 \in DOMAIN shown
      BY ViewFacts
    <3>2. \A k \in 1..(Len(shown) - 1) : ~(n < shown[k + 1].id)
      BY <2>2, <2>3, <3>1
    <3>3. QED
      BY <1>2, <1>7, <3>2 DEF HoleGap
  <2>7. HeardGap(i)'
    BY <1>2, <1>5, <1>7, <2>2, ViewFacts DEF HeardGap
  <2>8. OlderGap(i)'
    <3>1. request.cursor \in DOMAIN log \cup {0}
      BY ViewFacts
    <3>2. ~(n < request.cursor) /\ ~(request.cursor = n)
      BY <1>1, <2>2, <3>1
    <3>3. CASE shown = <<>>
      <4>1. request.type # "older"
        BY <3>3 DEF PhaseInv
      <4>2. QED
        BY <1>2, <4>1 DEF OlderGap
    <3>4. CASE shown # <<>>
      BY <1>2, <1>4, <1>7, <2>2, <2>4, <3>2, <3>4 DEF OlderGap
    <3>5. QED
      BY <3>3, <3>4
  <2>9. MoreGap(i)'
    BY <1>2, <1>4, <1>7, <2>1 DEF MoreGap
  <2>10. QED
    BY <2>5, <2>6, <2>7, <2>8, <2>9
<1>8. QED
  BY <1>1, <1>3, <1>6, <1>7

\* What the swap that lets the sender in leaves out, it has kept from the view.
LEMMA GoneAtSwap ==
  ASSUME TypeOK, PhaseInv, LogKept, Swap
  PROVE  Gone \subseteq Gone'
<1>1. /\ UNCHANGED <<seen, source, stored>> /\ watched' = (watched \/ joining)
      /\ lost' = IF joining THEN lost \cup MissedBefore ELSE lost
  BY DEF Swap, dbVars
<1>2. watched \in BOOLEAN /\ joining \in BOOLEAN
  BY DEF TypeOK
<1>3. CASE joining
  BY <1>1, <1>3 DEF Gone
<1>4. CASE ~joining
  <2>1. watched' = watched /\ lost \subseteq lost'
    BY <1>1, <1>2, <1>4
  <2>2. QED
    BY <1>1, <2>1, GoneGrows DEF LogKept
<1>5. QED
  BY <1>3, <1>4

\* The task's and the registry's steps and the subscription's listing show nothing.
LEMMA GapTask ==
  ASSUME TypeOK, PhaseInv, GapInv, LogKept, Swap \/ Notify \/ TellView \/ SubscribeList \/ Subscribe
  PROVE  GapInv'
<1>1. UNCHANGED <<request, seen, heard, shown, isEnd, noOlder, stray, shifted, dropped>>
  BY DEF Swap, Notify, TellView, SubscribeList, Subscribe, storeVars, missVars
<1>2. Gone \subseteq Gone'
  <2>1. CASE Swap
    BY <2>1, GoneAtSwap
  <2>2. CASE Notify \/ TellView \/ SubscribeList \/ Subscribe
    <3>1. UNCHANGED <<stored, watched, lost>> /\ (source' = source \/ source.at # "open")
      BY <2>2 DEF Notify, TellView, SubscribeList, Subscribe, missVars, taskVars, dbVars
    <3>2. lost \subseteq lost' /\ stored \subseteq stored' /\ Sent' = Sent
      BY <3>1 DEF LogKept
    <3>3. QED
      BY <1>1, <3>1, <3>2, GoneGrows
  <2>3. QED
    BY <2>1, <2>2
<1>3. Listed' = Listed /\ LeftOut' = LeftOut /\ (Full' <=> Full)
  BY <1>1 DEF Listed, LeftOut, Full, Rows, IdsOf, LogKept
<1>4. request'.type = request.type /\ request'.cursor = request.cursor
      /\ (request'.at # "list" => request.at # "list")
  BY <1>1
<1>5. Sent' = Sent /\ SelApps' = SelApps
  BY DEF LogKept
<1>6. QED
  BY <1>1, <1>2, <1>3, <1>4, <1>5, GapFrame

\* Nor does looking up the ends of spans.
LEMMA GapServeLookUp ==
  ASSUME TypeOK, LogInv, PhaseInv, GapInv, LogKept, ServeLookUp
  PROVE  GapInv'
<1>1. /\ UNCHANGED <<heard, shown, isEnd, noOlder, stray, shifted, dropped>>
      /\ UNCHANGED <<stored, watched, lost, source>> /\ request.at = "look"
  BY DEF ServeLookUp, storeVars, taskVars, dbVars
<1>2. /\ Listed' = Listed /\ (Full' <=> Full) /\ (Rows'[1].id = Rows[1].id \/ ~Full)
      /\ request'.type = request.type /\ request'.cursor = request.cursor
  BY ServeLookUpIs
<1>3. CASE request.type = "first"
  BY <1>2, <1>3 DEF GapInv
<1>4. CASE request.type # "first"
  <2>1. seen' = seen
    BY <1>4, SeenOfLookUp
  <2>2. lost \subseteq lost' /\ stored \subseteq stored' /\ Sent' = Sent /\ SelApps' = SelApps
    BY <1>1 DEF LogKept
  <2>3. Gone \subseteq Gone'
    BY <1>1, <2>1, <2>2, GoneGrows
  <2>4. LeftOut' = LeftOut
    BY <1>2, <2>2 DEF LeftOut
  <2>5. QED
    BY <1>1, <1>2, <2>1, <2>2, <2>3, <2>4, GapFrame
<1>5. QED
  BY <1>3, <1>4

\* The buttons ask for what is beyond them.
LEMMA GapFetch ==
  ASSUME TypeOK, PhaseInv, GapInv, LogKept, FetchMore \/ FetchOlder
  PROVE  GapInv'
<1>1. /\ UNCHANGED <<seen, heard, shown, isEnd, noOlder, stray, stored, watched, lost, source>>
      /\ request.type = "none"
  BY DEF FetchMore, FetchOlder, storeVars, taskVars, dbVars, NoRequest
<1>2. \/ request'.type = "more" /\ request'.at = "list"
      \/ request'.type = "older" /\ request'.at = "list" /\ request'.cursor = First
  <2>1. CASE FetchMore
    <3>1. request' = [type |-> "more", at |-> "list", cursor |-> shown[Len(shown)].id,
          rows |-> <<>>]
      BY <2>1 DEF FetchMore, NoRequest
    <3>2. QED
      BY <3>1
  <2>2. CASE FetchOlder
    <3>1. request' = [type |-> "older", at |-> "list", cursor |-> shown[1].id, rows |-> <<>>]
      BY <2>2 DEF FetchOlder, NoRequest
    <3>2. QED
      BY <3>1 DEF First
  <2>3. QED
    BY <2>1, <2>2
<1>3. lost \subseteq lost' /\ stored \subseteq stored' /\ Sent' = Sent /\ SelApps' = SelApps
  BY <1>1 DEF LogKept
<1>4. Gone \subseteq Gone'
  BY <1>1, <1>3, GoneGrows
<1>5. SUFFICES ASSUME ~stray, NEW i \in SelApps
               PROVE  (EdgeGap(i) /\ HoleGap(i) /\ HeardGap(i) /\ OlderGap(i) /\ MoreGap(i))'
  BY <1>1, <1>3 DEF GapInv
<1>6. EdgeGap(i) /\ HoleGap(i) /\ HeardGap(i)
  BY <1>1, <1>5 DEF GapInv
<1>7. Acc' = Acc /\ First' = First /\ Last' = Last
  BY <1>1 DEF Acc, First, Last
<1>8. EdgeGap(i)'
  BY <1>1, <1>4, <1>6, <1>7 DEF EdgeGap
<1>9. HoleGap(i)'
  BY <1>1, <1>4, <1>6 DEF HoleGap
<1>10. HeardGap(i)'
  BY <1>1, <1>3, <1>4, <1>6, <1>7 DEF HeardGap
<1>11. OlderGap(i)'
  <2>1. CASE request'.type = "older"
    <3>1. request'.cursor = First' /\ request'.at = "list"
      BY <1>2, <1>7, <2>1
    <3>2. shown # <<>>
      BY <1>2, <2>1 DEF FetchMore, FetchOlder
    <3>3. shown \in Seq([id : DOMAIN log, ended : BOOLEAN])
      BY RowsTyped
    <3>4. 1 \in DOMAIN shown
      BY <3>2, <3>3, RowsAre
    <3>5. First \in Nat /\ i \in Nat
      BY <3>4, ViewFacts DEF First, SelApps, Sels
    <3>6. ~(First <= i /\ i < First)
      BY <3>5
    <3>7. QED
      BY <1>7, <3>1, <3>6 DEF OlderGap
  <2>2. QED
    BY <2>1 DEF OlderGap
<1>12. MoreGap(i)'
  BY <1>2 DEF MoreGap
<1>13. QED
  BY <1>8, <1>9, <1>10, <1>11, <1>12

\* A listing finds in the database what is before what is shown, or it is lost.
LEMMA StoredOrGone ==
  ASSUME TypeOK, LogInv, TaskInv, StreamInv, GapInv, ~stray, request.type # "first",
         NEW c \in Sent, c \in stored \cup heard, NEW i \in SelApps, i <= c
  PROVE  i \in stored \/ i \in heard \/ i \in Gone
<1>1. i \in Sent /\ i \in Nat /\ c \in Nat
  BY ViewFacts DEF SelApps, Sels
<1>2. CASE c \in stored
  BY <1>1, <1>2, StoredBefore
<1>3. CASE c \in heard
  <2>1. HeardGap(i)
    BY DEF GapInv
  <2>2. i = c \/ i < c
    BY <1>1
  <2>3. seen \subseteq stored
    BY DEF StreamInv
  <2>4. QED
    BY <1>3, <2>1, <2>2, <2>3 DEF HeardGap, Acc
<1>4. QED
  BY <1>2, <1>3

\* A listing finds what it is asked for, or it is gone.
LEMMA GapServeList ==
  ASSUME TypeOK, LogInv, TaskInv, PhaseInv, StreamInv, OrderInv, GapInv, LogKept, ServeList
  PROVE  GapInv'
<1>1. /\ request \in [type : {"none", "first", "more", "older"},
                      at : {"no", "list", "look", "back"},
                      cursor : {0} \cup DOMAIN log, rows : Seq(RowType)]
      /\ request.at = "list" /\ (request.type = "none" => request = NoRequest)
  BY DEF TypeOK, ServeList
<1>2. request'.type = request.type /\ request'.cursor = request.cursor /\ request'.at = "look"
  BY <1>1 DEF ServeList
<1>3. SUFFICES ASSUME ~stray, request.type # "first", NEW i \in SelApps
               PROVE  (EdgeGap(i) /\ HoleGap(i) /\ HeardGap(i) /\ OlderGap(i) /\ MoreGap(i))'
  BY <1>2 DEF GapInv, LogKept, ServeList
<1>4. /\ request.type = "more" => request'.rows = RowsOf(PageAfter(request.cursor))
      /\ request.type = "older" => request'.rows = RowsOf(PageBefore(request.cursor))
      /\ UNCHANGED <<heard, shown, isEnd, noOlder, stray, shifted, dropped, stored, watched,
         source>>
      /\ seen' = seen /\ lost' = lost \cup (heard \ stored)
  BY <1>1, <1>3 DEF ServeList, storeVars, taskVars, dbVars
<1>5. Sent' = Sent /\ SelApps' = SelApps /\ lost \subseteq lost' /\ stored \subseteq stored'
  BY <1>4 DEF LogKept
<1>6. Gone \subseteq Gone' /\ heard \ stored \subseteq Gone'
  <2>1. Gone \subseteq Gone'
    BY <1>4, <1>5, GoneGrows
  <2>2. QED
    BY <1>4, <2>1 DEF Gone
<1>7. EdgeGap(i) /\ HoleGap(i) /\ HeardGap(i) /\ OlderGap(i) /\ MoreGap(i)
  BY <1>3 DEF GapInv
<1>8. Acc' = Acc /\ First' = First /\ Last' = Last /\ IdsOf(shown)' = IdsOf(shown)
  BY <1>4 DEF Acc, First, Last, IdsOf
<1>9. EdgeGap(i)'
  BY <1>4, <1>6, <1>7, <1>8 DEF EdgeGap
<1>10. HoleGap(i)'
  BY <1>4, <1>6, <1>7 DEF HoleGap
<1>11. HeardGap(i)'
  BY <1>4, <1>5, <1>6, <1>7, <1>8 DEF HeardGap
<1>12. i \in Sels /\ i \in Sent /\ i \in Nat /\ request.cursor \in Nat
  BY ViewFacts DEF SelApps, Sels
<1>13. OlderGap(i)'
  <2>1. SUFFICES ASSUME request.type = "older"
                 PROVE  OlderGap(i)'
    BY <1>2 DEF OlderGap
  <2>2. request.cursor <= i /\ i < First => i \in shifted \cup Gone'
    BY <1>6, <1>7, <2>1 DEF OlderGap
  <2>3. ASSUME i < request.cursor
        PROVE  i \in Listed' \cup LeftOut' \cup Gone'
    <3>1. request.cursor \in Sent /\ request.cursor \in stored \cup heard
      BY <1>3, <2>1 DEF OrderInv
    <3>2. i <= request.cursor
      BY <1>12, <2>3
    <3>3. i \in stored \/ i \in heard \/ i \in Gone
      BY <1>3, <3>1, <3>2, StoredOrGone
    <3>4. CASE i \in stored
      <4>1. PageBefore(request.cursor) \in SUBSET (1..Len(log))
        BY PagesTyped
      <4>2. /\ Listed' = PageBefore(request.cursor)
            /\ Full' <=> Cardinality(PageBefore(request.cursor)) = Count + 1
            /\ Full' => Rows'[1].id \in PageBefore(request.cursor)
        BY <1>4, <2>1, <4>1, ServeListIs
      <4>3. CASE i \notin Listed'
        <5>1. Cardinality(PageBefore(request.cursor)) = Count + 1
              /\ \A j \in PageBefore(request.cursor) : i < j
          BY <1>12, <2>3, <3>4, <4>2, <4>3, PageBeforeIs
        <5>2. i \in LeftOut'
          BY <1>5, <1>12, <4>2, <5>1 DEF LeftOut
        <5>3. QED
          BY <5>2
      <4>4. QED
        BY <4>3
    <3>5. QED
      BY <1>6, <3>3, <3>4
  <2>4. QED
    BY <1>2, <1>4, <1>8, <2>2, <2>3 DEF OlderGap
<1>14. MoreGap(i)'
  <2>1. SUFFICES ASSUME request.type = "more", request.cursor < i, ~Full',
                        i \in Acc \/ i \in IdsOf(shown)
                 PROVE  i \in Listed' \cup Gone'
    BY <1>2, <1>8 DEF MoreGap
  <2>2. i \in stored \/ i \in heard
    BY <1>3, <2>1 DEF Acc, StreamInv, OrderInv
  <2>3. CASE i \in stored
    <3>1. PageAfter(request.cursor) \in SUBSET (1..Len(log))
      BY PagesTyped
    <3>2. /\ Listed' = PageAfter(request.cursor)
          /\ Full' <=> Cardinality(PageAfter(request.cursor)) = Count + 1
      BY <1>4, <2>1, <3>1, ServeListIs
    <3>3. QED
      BY <1>12, <2>1, <2>3, <3>2, PageAfterIs
  <2>4. QED
    BY <1>6, <2>2, <2>3
<1>15. QED
  BY <1>9, <1>10, <1>11, <1>13, <1>14

\* Nothing of rising rows is between two of them that follow each other.
LEMMA NoneBetween ==
  ASSUME NEW D \in SUBSET Nat, NEW rows \in Seq([id : D, ended : BOOLEAN]), RisingRows(rows),
         NEW k \in 1..(Len(rows) - 1), NEW i \in IdsOf(rows), rows[k].id < i, i < rows[k + 1].id
  PROVE  FALSE
<1>1. Len(rows) \in Nat /\ DOMAIN rows = 1..Len(rows)
  BY RowsAre
<1>2. PICK q \in 1..Len(rows) : rows[q].id = i
  BY RowsAre
<1>3. k \in 1..Len(rows) /\ k + 1 \in 1..Len(rows)
  BY <1>1
<1>4. rows[k].id \in Nat /\ rows[k + 1].id \in Nat /\ i \in Nat
  <2>1. rows[k].id \in D /\ rows[k + 1].id \in D /\ rows[q].id \in D
    BY <1>3, RowsAre
  <2>2. QED
    BY <1>2, <2>1
<1>5. q < k \/ q = k \/ q = k + 1 \/ k + 1 < q
  BY <1>1, <1>3
<1>6. q < k => rows[q].id < rows[k].id
  BY <1>1, <1>3 DEF RisingRows
<1>7. k + 1 < q => rows[k + 1].id < rows[q].id
  BY <1>1, <1>3 DEF RisingRows
<1>8. QED
  BY <1>2, <1>4, <1>5, <1>6, <1>7

\* Nothing left out by full rows is after the first of them.
LEMMA LeftOutBefore ==
  ASSUME TypeOK, RisingRows(Rows), NEW i \in LeftOut, NEW k \in DOMAIN Rows
  PROVE  i < Rows[k].id /\ Full
<1>1. Rows \in Seq([id : DOMAIN log, ended : BOOLEAN]) /\ DOMAIN log \in SUBSET Nat
  BY RowsTyped DEF Rows
<1>2. i < Rows[1].id /\ i \in Nat /\ Full
  BY ViewFacts DEF LeftOut
<1>3. Rows[k].id \in IdsOf(Rows) /\ Rows # <<>>
  <2>1. k \in 1..Len(Rows)
    BY ViewFacts
  <2>2. Rows # <<>>
    BY <2>1, EmptySeq
  <2>3. QED
    BY <2>2 DEF IdsOf
<1>4. Rows[1].id <= Rows[k].id /\ Rows[1].id \in Nat /\ Rows[k].id \in Nat
  BY <1>1, <1>3, RisingEnds
<1>5. QED
  BY <1>2, <1>4

\* The first listing shows the last of what is selected, and knows if there is more.
LEMMA GapFirst ==
  ASSUME TypeOK, LogInv, PhaseInv, ListInv, LogKept, FirstArrives
  PROVE  GapInv'
<1>1. /\ request.type = "first" /\ request.at = "back" /\ request' = NoRequest
      /\ UNCHANGED <<seen, heard, isEnd, watched>>
  BY DEF FirstArrives, missVars, taskVars
<1>2. heard = {} /\ request'.type = "none"
  BY <1>1 DEF PhaseInv, NoRequest
<1>3. PICK d \in {0, 1}, r \in Nat :
        /\ d = 1 <=> Full
        /\ r = Len(Rows) /\ DOMAIN Rows = 1..r
        /\ Len(shown') = r - d /\ Len(shown') \in Nat
        /\ DOMAIN shown' = 1..(r - d)
        /\ \A k \in 1..(r - d) : shown'[k] = Rows[k + d] /\ k + d \in 1..r
        /\ noOlder' = ~Full
        /\ shown' = <<>> => Rows = <<>> /\ ~Full
        /\ shown' # <<>> => /\ source'.cursor = shown'[Len(shown')].id
                            /\ Len(shown') \in 1..Len(shown')
  <2>1. PICK d \in {0, 1} :
          /\ d = 1 <=> Full
          /\ Len(Rows) \in Nat /\ DOMAIN Rows = 1..Len(Rows)
          /\ Len(shown') = Len(Rows) - d /\ Len(shown') \in Nat
          /\ DOMAIN shown' = 1..(Len(Rows) - d)
          /\ \A k \in 1..(Len(Rows) - d) : shown'[k] = Rows[k + d] /\ k + d \in 1..Len(Rows)
          /\ noOlder' = ~Full
          /\ shown' = <<>> => Rows = <<>> /\ ~Full
          /\ shown' # <<>> => /\ source'.cursor = shown'[Len(shown')].id
                              /\ Len(shown') \in 1..Len(shown')
    BY FirstShown
  <2>2. QED
    BY <2>1, Zenon
<1>4. /\ RisingRows(Rows) /\ Sels \cap UpToListed \subseteq Listed \cup LeftOut
      /\ SelApps \cap seen \subseteq Listed \cup LeftOut
  BY <1>1 DEF ListInv
<1>5. Rows \in Seq([id : DOMAIN log, ended : BOOLEAN]) /\ DOMAIN log \in SUBSET Nat
  BY RowsTyped DEF Rows
<1>6. /\ \A i \in Listed \cup LeftOut : i <= source'.cursor
      /\ source'.cursor \in Nat
  BY FirstCursor
<1>7. SUFFICES ASSUME NEW i \in SelApps
               PROVE  (EdgeGap(i) /\ HoleGap(i) /\ HeardGap(i) /\ OlderGap(i) /\ MoreGap(i))'
  BY DEF GapInv, LogKept
<1>8. i \in Sels /\ i \in Sent /\ i \in Nat
  BY ViewFacts DEF SelApps, Sels
<1>9. Acc' = seen
  BY <1>1, <1>2 DEF Acc
<1>10. (shown = <<>> /\ i \in Acc => i \in Gone)'
  <2>1. shown' = <<>> => Listed \cup LeftOut = {}
    BY <1>3, NoRows DEF Listed, LeftOut
  <2>2. QED
    BY <1>4, <1>7, <1>9, <2>1
<1>11. (shown # <<>> /\ isEnd /\ Last < i /\ i \in Acc => i \in Gone)'
  <2>1. ASSUME shown' # <<>>, Last' < i, i \in seen
        PROVE  FALSE
    <3>1. source'.cursor < i
      BY <1>3, <2>1 DEF Last
    <3>2. i <= source'.cursor
      BY <1>4, <1>6, <1>7, <2>1
    <3>3. QED
      BY <1>6, <1>8, <3>1, <3>2
  <2>2. QED
    BY <1>9, <2>1
<1>12. (shown # <<>> /\ noOlder /\ i < First => i \in Gone)'
  <2>1. ASSUME shown' # <<>>, noOlder', i < First'
        PROVE  FALSE
    <3>1. ~Full /\ d = 0 /\ 1 \in 1..Len(shown') /\ Rows # <<>>
      <4>1. ~Full /\ d = 0
        BY <1>3, <2>1
      <4>2. 1 \in 1..Len(shown')
        BY <1>3, <2>1
      <4>3. 1 \in 1..r
        BY <1>3, <4>1, <4>2
      <4>4. Rows # <<>>
        BY <1>3, <4>3, EmptySeq
      <4>5. QED
        BY <4>1, <4>2, <4>4
    <3>2. First' = Rows[1].id
      BY <1>3, <3>1 DEF First
    <3>3. 1 \in DOMAIN Rows /\ Rows[1].id \in Listed /\ Rows[1].id \in Nat
      BY <1>3, <3>1, ViewFacts
    <3>4. i \in UpToListed
      BY <1>8, <2>1, <3>2, <3>3 DEF UpToListed
    <3>5. i \in Listed
      BY <1>4, <1>8, <3>1, <3>4 DEF LeftOut
    <3>6. Rows[1].id <= i
      BY <1>4, <1>5, <3>1, <3>5, RisingEnds DEF Listed
    <3>7. QED
      BY <1>8, <2>1, <3>2, <3>3, <3>6
  <2>2. QED
    BY <2>1
<1>13. HoleGap(i)'
  <2>1. ASSUME NEW k \in 1..(Len(shown') - 1), shown'[k].id < i, i < shown'[k + 1].id
        PROVE  FALSE
    <3>1. k \in 1..(r - d) /\ k + 1 \in 1..(r - d) /\ k + d \in 1..(r - 1)
          /\ (k + 1) + d = (k + d) + 1
      BY <1>3
    <3>2. shown'[k] = Rows[k + d] /\ shown'[k + 1] = Rows[(k + d) + 1]
          /\ k + d \in DOMAIN Rows /\ (k + d) + 1 \in DOMAIN Rows
      BY <1>3, <3>1
    <3>3. Rows[(k + d) + 1].id \in Listed /\ Rows[(k + d) + 1].id \in Nat /\ Rows[k + d].id \in Nat
      BY <3>2, ViewFacts
    <3>4. i \in UpToListed
      BY <1>8, <2>1, <3>2, <3>3 DEF UpToListed
    <3>5. i \notin LeftOut
      <4>1. i \in LeftOut => i < Rows[k + d].id
        BY <1>4, <3>2, LeftOutBefore
      <4>2. QED
        BY <1>8, <2>1, <3>2, <3>3, <4>1
    <3>6. i \in IdsOf(Rows)
      BY <1>4, <1>8, <3>4, <3>5 DEF Listed
    <3>7. QED
      BY <1>3, <1>4, <1>5, <2>1, <3>1, <3>2, <3>6, NoneBetween
  <2>2. QED
    BY <2>1 DEF HoleGap
<1>14. HeardGap(i)'
  BY <1>1, <1>2 DEF HeardGap
<1>15. OlderGap(i)' /\ MoreGap(i)'
  BY <1>2 DEF OlderGap, MoreGap
<1>16. QED
  BY <1>10, <1>11, <1>12, <1>13, <1>14, <1>15 DEF EdgeGap

\* The last rows have arrived: what is still to come is gone.
LEMMA GapMoreArrives ==
  ASSUME TypeOK, LogInv, PhaseInv, ListInv, GapInv, LogKept, MoreArrives
  PROVE  GapInv'
<1>1. /\ request.type = "more" /\ request.at = "back" /\ request' = NoRequest
      /\ UNCHANGED <<source, stored, seen, heard, watched, stray>>
  BY DEF MoreArrives, dbVars, taskVars
<1>2. shown # <<>> /\ request.cursor = shown[Len(shown)].id /\ request'.type = "none"
  BY <1>1 DEF PhaseInv, NoRequest
<1>3. PICK c \in Nat, d \in Nat, l \in Nat, r \in Nat :
        /\ r = Len(Rows) /\ c <= r /\ (~Full => c = r) /\ l = Len(shown) /\ d < l
        /\ DOMAIN shown = 1..l /\ DOMAIN Rows = 1..r
        /\ Len(shown') = l - d + c
        /\ \A k \in 1..(l - d) : shown'[k] = shown[k + d] /\ k + d \in 1..l
        /\ \A k \in 1..c : shown'[l - d + k] = Rows[k] /\ k \in 1..r
        /\ noOlder' => noOlder /\ d = 0
        /\ isEnd' = ~Full
        /\ lost \subseteq lost'
        /\ ~Full => dropped \subseteq lost' \cup IdsOf(shown) \cup {Rows[k].id : k \in 1..c}
  <2>1. PICK c \in Nat, d \in Nat :
          /\ Len(Rows) \in Nat /\ c <= Len(Rows) /\ (~Full => c = Len(Rows))
          /\ Len(shown) \in Nat /\ d < Len(shown)
          /\ DOMAIN shown = 1..Len(shown) /\ DOMAIN Rows = 1..Len(Rows)
          /\ Len(shown') = Len(shown) - d + c
          /\ \A k \in 1..(Len(shown) - d) : shown'[k] = shown[k + d] /\ k + d \in 1..Len(shown)
          /\ \A k \in 1..c : shown'[Len(shown) - d + k] = Rows[k] /\ k \in 1..Len(Rows)
          /\ noOlder' => noOlder /\ d = 0
          /\ isEnd' = ~Full
          /\ lost \subseteq lost'
          /\ ~Full => dropped \subseteq lost' \cup IdsOf(shown) \cup {Rows[k].id : k \in 1..c}
    BY <1>2, MoreShown
  <2>2. QED
    BY <2>1, Zenon
<1>4. /\ RisingRows(Rows) /\ \A i \in Listed : request.cursor < i
      /\ \A i \in Sels \cap UpToListed : request.cursor < i => i \in Listed
  BY <1>1 DEF ListInv
<1>5. Rows \in Seq([id : DOMAIN log, ended : BOOLEAN]) /\ DOMAIN log \in SUBSET Nat
  BY RowsTyped DEF Rows
<1>6. Sent' = Sent /\ SelApps' = SelApps /\ stored \subseteq stored' /\ source' = source
  BY <1>1 DEF LogKept
<1>7. Gone \subseteq Gone' /\ lost' \subseteq Gone'
  <2>1. Gone \subseteq Gone'
    BY <1>1, <1>3, <1>6, GoneGrows
  <2>2. QED
    BY <2>1 DEF Gone
<1>8. SUFFICES ASSUME ~stray, NEW i \in SelApps
               PROVE  (EdgeGap(i) /\ HoleGap(i) /\ HeardGap(i) /\ OlderGap(i) /\ MoreGap(i))'
  BY <1>1, <1>6 DEF GapInv
<1>9. EdgeGap(i) /\ HoleGap(i) /\ HeardGap(i) /\ OlderGap(i) /\ MoreGap(i)
  BY <1>1, <1>8 DEF GapInv
<1>10. i \in Sels /\ i \in Sent /\ i \in Nat /\ request.cursor \in Nat
  BY ViewFacts DEF SelApps, Sels
<1>11. Acc' = Acc /\ Len(shown') # 0 /\ shown' # <<>>
  <2>1. Acc' = Acc
    BY <1>1 DEF Acc
  <2>2. Len(shown') # 0
    BY <1>3
  <2>3. shown' # <<>>
    BY <2>2, EmptySeq
  <2>4. QED
    BY <2>1, <2>2, <2>3
<1>12. (shown # <<>> /\ isEnd /\ Last < i /\ i \in Acc => i \in Gone)'
  <2>1. SUFFICES ASSUME isEnd', Last' < i, i \in Acc
                 PROVE  i \in Gone'
    BY <1>11
  <2>2. ~Full /\ c = r
    BY <1>3, <2>1
  <2>3. request.cursor < i /\ i \notin Listed
    <3>1. CASE c = 0
      <4>1. Last' = shown[l].id
        <5>1. l - d \in 1..(l - d) /\ (l - d) + d = l /\ Len(shown') = l - d
          BY <1>3, <3>1
        <5>2. QED
          BY <1>3, <5>1 DEF Last
      <4>2. Len(Rows) = 0
        BY <1>3, <2>2, <3>1
      <4>3. Rows = <<>>
        BY <4>2, <1>5, RowsAre
      <4>4. Listed = {}
        BY <4>3, NoRows DEF Listed
      <4>5. QED
        BY <1>2, <1>3, <2>1, <4>1, <4>4
    <3>2. CASE c # 0
      <4>1. c \in 1..c /\ Len(shown') = l - d + c
        BY <1>3, <3>2
      <4>2. Last' = Rows[r].id /\ r \in DOMAIN Rows
        BY <1>3, <2>2, <4>1 DEF Last
      <4>3. Rows # <<>> /\ Rows[r].id \in Listed /\ Rows[r].id \in Nat
        <5>1. Len(Rows) # 0
          BY <1>3, <2>2, <3>2
        <5>2. Rows # <<>>
          BY <5>1, EmptySeq
        <5>3. QED
          BY <4>2, <5>2, ViewFacts
      <4>4. request.cursor < Rows[r].id
        BY <1>4, <4>3
      <4>5. i \in Listed => i <= Rows[r].id
        BY <1>3, <1>4, <1>5, <4>3, RisingEnds DEF Listed
      <4>6. QED
        BY <1>10, <2>1, <4>2, <4>3, <4>4, <4>5
    <3>3. QED
      BY <3>1, <3>2
  <2>4. i \in Gone \cup dropped
    BY <1>1, <1>9, <2>1, <2>2, <2>3 DEF MoreGap
  <2>5. CASE i \in dropped
    <3>1. i \in lost' \cup IdsOf(shown) \cup {Rows[k].id : k \in 1..c}
      BY <1>3, <2>2, <2>5
    <3>2. {Rows[k].id : k \in 1..c} \subseteq Listed
      <4>1. \A k \in 1..c : k \in DOMAIN Rows
        BY <1>3
      <4>2. QED
        BY <4>1, ViewFacts
    <3>3. i \in IdsOf(shown) => i \in Gone
      BY <1>1, <1>9, <2>2, <2>3 DEF MoreGap
    <3>4. QED
      BY <1>7, <2>3, <3>1, <3>2, <3>3
  <2>6. QED
    BY <1>7, <2>4, <2>5
<1>13. (shown # <<>> /\ noOlder /\ i < First => i \in Gone)'
  <2>1. SUFFICES ASSUME noOlder', i < First'
                 PROVE  i \in Gone'
    BY <1>11
  <2>2. noOlder /\ d = 0 /\ 1 \in 1..(l - d)
    BY <1>3, <2>1
  <2>3. First' = First
    BY <1>3, <2>2 DEF First
  <2>4. QED
    BY <1>2, <1>7, <1>9, <2>1, <2>2, <2>3 DEF EdgeGap
<1>14. HoleGap(i)'
  <2>1. SUFFICES ASSUME NEW k \in 1..(Len(shown') - 1), shown'[k].id < i, i < shown'[k + 1].id
                 PROVE  i \in Gone'
    BY DEF HoleGap
  <2>2. \/ k \in 1..(l - d) /\ k + 1 \in 1..(l - d)
        \/ k = l - d /\ 1 \in 1..c
        \/ \E m \in 1..(c - 1) : k = l - d + m
    <3>1. k \in 1..(l - d + c - 1)
      BY <1>3
    <3>2. \A q \in 1..(l - d + c - 1) :
            \/ q \in 1..(l - d) /\ q + 1 \in 1..(l - d)
            \/ q = l - d /\ 1 \in 1..c
            \/ q - (l - d) \in 1..(c - 1) /\ q = l - d + (q - (l - d))
      BY <1>3
    <3>3. QED
      BY <3>1, <3>2
  <2>3. CASE k \in 1..(l - d) /\ k + 1 \in 1..(l - d)
    <3>1. shown'[k] = shown[k + d] /\ shown'[k + 1] = shown[(k + 1) + d]
      BY <1>3, <2>3
    <3>2. k + d \in 1..(Len(shown) - 1) /\ (k + 1) + d = (k + d) + 1
      BY <1>3, <2>3
    <3>3. i \in Gone
      BY <1>9, <2>1, <3>1, <3>2 DEF HoleGap
    <3>4. QED
      BY <1>7, <3>3
  <2>4. CASE k = l - d /\ 1 \in 1..c
    <3>1. k \in 1..(l - d) /\ k + d = l /\ k + 1 = l - d + 1
      BY <1>3, <2>4
    <3>2. shown'[k] = shown[l] /\ shown'[k + 1] = Rows[1] /\ 1 \in DOMAIN Rows
      BY <1>3, <2>4, <3>1
    <3>3. request.cursor < i /\ i < Rows[1].id
      BY <1>2, <1>3, <2>1, <3>2
    <3>4. Rows[1].id \in Listed /\ Rows[1].id \in Nat
      BY <3>2, ViewFacts
    <3>5. i \in UpToListed
      BY <1>10, <3>3, <3>4 DEF UpToListed
    <3>6. i \in Listed
      BY <1>4, <1>10, <3>3, <3>5
    <3>7. Rows # <<>>
      BY <1>5, <3>4, NoRows DEF Listed
    <3>8. Rows[1].id <= i
      BY <1>4, <1>5, <3>6, <3>7, RisingEnds DEF Listed
    <3>9. QED
      BY <1>10, <3>3, <3>4, <3>8
  <2>5. CASE \E m \in 1..(c - 1) : k = l - d + m
    <3>1. PICK m \in 1..(c - 1) : k = l - d + m
      BY <2>5
    <3>2. m \in 1..c /\ m + 1 \in 1..c /\ k + 1 = l - d + (m + 1) /\ m \in 1..(r - 1)
      <4>1. c \in Nat /\ r \in Nat /\ c <= r /\ l \in Nat /\ d \in Nat
        BY <1>3
      <4>2. m \in Nat /\ 1 <= m /\ m <= c - 1
        BY <4>1
      <4>3. m \in 1..c /\ m + 1 \in 1..c /\ m \in 1..(r - 1)
        BY <4>1, <4>2
      <4>4. k + 1 = l - d + (m + 1)
        BY <3>1, <4>1, <4>2
      <4>5. QED
        BY <4>3, <4>4
    <3>3. shown'[k] = Rows[m] /\ shown'[k + 1] = Rows[m + 1] /\ m \in DOMAIN Rows
          /\ m + 1 \in DOMAIN Rows
      BY <1>3, <3>1, <3>2
    <3>4. /\ Rows[m].id \in Listed /\ Rows[m].id \in Nat
          /\ Rows[m + 1].id \in Listed /\ Rows[m + 1].id \in Nat
      BY <3>3, ViewFacts
    <3>5. request.cursor < i
      <4>1. request.cursor < Rows[m].id
        BY <1>4, <3>4
      <4>2. QED
        BY <1>10, <2>1, <3>3, <3>4, <4>1
    <3>6. i \in UpToListed
      BY <1>10, <2>1, <3>3, <3>4 DEF UpToListed
    <3>7. i \in IdsOf(Rows)
      BY <1>4, <1>10, <3>5, <3>6 DEF Listed
    <3>8. QED
      BY <1>3, <1>4, <1>5, <2>1, <3>2, <3>3, <3>7, NoneBetween
  <2>6. QED
    BY <2>2, <2>3, <2>4, <2>5
<1>15. HeardGap(i)'
  BY <1>1, <1>6, <1>7, <1>9, <1>11 DEF HeardGap
<1>16. OlderGap(i)' /\ MoreGap(i)'
  BY <1>2 DEF OlderGap, MoreGap
<1>17. QED
  BY <1>11, <1>12, <1>13, <1>14, <1>15, <1>16 DEF EdgeGap

\* Older rows have arrived: they go before what is shown, whose end may leave the window.
LEMMA GapOlderArrives ==
  ASSUME TypeOK, LogInv, PhaseInv, ListInv, GapInv, LogKept, OlderArrives
  PROVE  GapInv'
<1>1. /\ request.type = "older" /\ request.at = "back" /\ request' = NoRequest
      /\ UNCHANGED <<source, stored, seen, heard, watched, stray>>
  BY DEF OlderArrives, dbVars, taskVars
<1>2. shown # <<>> /\ ~noOlder /\ request'.type = "none"
  BY <1>1 DEF PhaseInv, NoRequest
<1>3. PICK d \in {0, 1}, c \in Nat, m \in Nat, l \in Nat, r \in Nat :
        /\ r = Len(Rows) /\ c = r - d /\ l = Len(shown) /\ 1 <= m /\ m <= l
        /\ d = 1 <=> Full
        /\ DOMAIN shown = 1..l /\ DOMAIN Rows = 1..r
        /\ Len(shown') = c + m
        /\ \A k \in 1..c : shown'[k] = Rows[k + d] /\ k + d \in 1..r
        /\ \A k \in 1..m : shown'[c + k] = shown[k] /\ k \in 1..l
        /\ noOlder' = (noOlder \/ ~Full)
        /\ isEnd' => isEnd /\ m = l
        /\ lost \cup shifted \subseteq lost'
  <2>1. PICK d \in {0, 1}, c \in Nat, m \in Nat :
           /\ d = 1 <=> Full
           /\ Len(Rows) \in Nat /\ c = Len(Rows) - d
           /\ Len(shown) \in Nat /\ 1 <= m /\ m <= Len(shown)
           /\ DOMAIN shown = 1..Len(shown) /\ DOMAIN Rows = 1..Len(Rows)
           /\ Len(shown') = c + m
           /\ \A k \in 1..c : shown'[k] = Rows[k + d] /\ k + d \in 1..Len(Rows)
           /\ \A k \in 1..m : shown'[c + k] = shown[k] /\ k \in 1..Len(shown)
           /\ noOlder' = (noOlder \/ ~Full)
           /\ isEnd' => isEnd /\ m = Len(shown)
           /\ lost \cup shifted \subseteq lost'
    BY <1>2, OlderShown, ZenonT(30)
  <2>2. QED
    BY <2>1, Zenon
<1>4. /\ RisingRows(Rows) /\ \A i \in Listed : i < request.cursor
  BY <1>1 DEF ListInv
<1>5. Rows \in Seq([id : DOMAIN log, ended : BOOLEAN]) /\ DOMAIN log \in SUBSET Nat
  BY RowsTyped DEF Rows
<1>6. Sent' = Sent /\ SelApps' = SelApps /\ stored \subseteq stored' /\ lost \subseteq lost'
  BY <1>1, <1>3 DEF LogKept
<1>7. Gone \subseteq Gone' /\ shifted \subseteq Gone'
  <2>1. Gone \subseteq Gone'
    BY <1>1, <1>6, GoneGrows
  <2>2. QED
    BY <1>3, <2>1 DEF Gone
<1>8. SUFFICES ASSUME ~stray, NEW i \in SelApps
               PROVE  (EdgeGap(i) /\ HoleGap(i) /\ HeardGap(i) /\ OlderGap(i) /\ MoreGap(i))'
  BY <1>1, <1>6 DEF GapInv
<1>9. EdgeGap(i) /\ HoleGap(i) /\ HeardGap(i) /\ OlderGap(i)
  BY <1>1, <1>8 DEF GapInv
<1>10. i \in Sent /\ i \in Nat /\ request.cursor \in Nat
  BY ViewFacts DEF SelApps, Sels
<1>11. Acc' = Acc /\ shown' # <<>>
  <2>1. Acc' = Acc
    BY <1>1 DEF Acc
  <2>2. Len(shown') # 0
    BY <1>3
  <2>3. shown' # <<>>
    BY <2>2, EmptySeq
  <2>4. QED
    BY <2>1, <2>3
<1>12. /\ i < request.cursor => i \in Listed \cup LeftOut \cup Gone
       /\ request.cursor <= i /\ i < First => i \in shifted \cup Gone
  BY <1>1, <1>9 DEF OlderGap
<1>13. \A k \in DOMAIN Rows : Rows[k].id \in Listed /\ Rows[k].id \in Nat
       /\ Rows[k].id < request.cursor
  BY <1>4, ViewFacts
<1>14. First \in Nat
  <2>1. 1 \in DOMAIN shown
    BY <1>3
  <2>2. QED
    BY <2>1, ViewFacts DEF First
<1>15. (shown # <<>> /\ isEnd /\ Last < i /\ i \in Acc => i \in Gone)'
  <2>1. SUFFICES ASSUME isEnd', Last' < i, i \in Acc
                 PROVE  i \in Gone'
    BY <1>11
  <2>2. isEnd /\ m = l /\ l \in 1..m
    BY <1>3, <2>1
  <2>3. Last' = Last
    BY <1>3, <2>2 DEF Last
  <2>4. QED
    BY <1>2, <1>7, <1>9, <2>1, <2>2, <2>3 DEF EdgeGap
<1>16. (shown # <<>> /\ noOlder /\ i < First => i \in Gone)'
  <2>1. SUFFICES ASSUME noOlder', i < First'
                 PROVE  i \in Gone'
    BY <1>11
  <2>2. ~Full /\ d = 0 /\ c = r
    <3>1. ~Full
      BY <1>2, <1>3, <2>1
    <3>2. d = 0
      BY <1>3, <3>1
    <3>3. c = r
      BY <1>3, <3>2
    <3>4. QED
      BY <3>1, <3>2, <3>3
  <2>3. LeftOut = {}
    BY <2>2 DEF LeftOut
  <2>4. CASE c = 0
    <3>1. Len(Rows) = 0
      BY <1>3, <2>2, <2>4
    <3>2. Rows = <<>>
      BY <1>5, <3>1, RowsAre
    <3>3. Listed = {}
      BY <3>2, NoRows DEF Listed
    <3>4. 1 \in 1..m /\ c + 1 = 1
      BY <1>3, <2>4
    <3>5. First' = First
      BY <1>3, <3>4 DEF First
    <3>6. i < request.cursor \/ (request.cursor <= i /\ i < First)
      BY <1>10, <1>14, <2>1, <3>5
    <3>7. QED
      BY <1>7, <1>12, <2>3, <3>3, <3>6
  <2>5. CASE c # 0
    <3>1. 1 \in 1..c /\ 1 + d = 1 /\ 1 \in 1..r
      BY <1>3, <2>2, <2>5
    <3>2. First' = Rows[1].id /\ 1 \in DOMAIN Rows
      BY <1>3, <3>1 DEF First
    <3>3. i < request.cursor
      <4>1. i < Rows[1].id /\ Rows[1].id < request.cursor /\ Rows[1].id \in Nat
        BY <1>13, <2>1, <3>2
      <4>2. QED
        BY <1>10, <4>1
    <3>4. i \notin Listed
      <4>1. Rows # <<>>
        BY <3>2, NoRows
      <4>2. i \in Listed => Rows[1].id <= i
        BY <1>4, <1>5, <4>1, RisingEnds DEF Listed
      <4>3. QED
        BY <1>10, <1>13, <2>1, <3>2, <4>2
    <3>5. QED
      BY <1>7, <1>12, <2>3, <3>3, <3>4
  <2>6. QED
    BY <2>4, <2>5
<1>17. HoleGap(i)'
  <2>1. SUFFICES ASSUME NEW k \in 1..(Len(shown') - 1), shown'[k].id < i, i < shown'[k + 1].id
                 PROVE  i \in Gone'
    BY DEF HoleGap
  <2>2. \/ k \in 1..c /\ k + 1 \in 1..c
        \/ k = c /\ k \in 1..c
        \/ \E q \in 1..(m - 1) : k = c + q
    <3>1. k \in 1..(c + m - 1)
      BY <1>3
    <3>2. \A q \in 1..(c + m - 1) :
            \/ q \in 1..c /\ q + 1 \in 1..c
            \/ q = c /\ q \in 1..c
            \/ q - c \in 1..(m - 1) /\ q = c + (q - c)
      BY <1>3
    <3>3. QED
      BY <3>1, <3>2
  <2>3. CASE k \in 1..c /\ k + 1 \in 1..c
    <3>1. k + d \in 1..(r - 1) /\ (k + 1) + d = (k + d) + 1
      BY <1>3, <2>3
    <3>2. shown'[k] = Rows[k + d] /\ shown'[k + 1] = Rows[(k + d) + 1]
          /\ k + d \in DOMAIN Rows /\ (k + d) + 1 \in DOMAIN Rows
      BY <1>3, <2>3, <3>1
    <3>3. i < request.cursor
      <4>1. Rows[(k + d) + 1].id < request.cursor /\ Rows[(k + d) + 1].id \in Nat
        BY <1>13, <3>2
      <4>2. QED
        BY <1>10, <2>1, <3>2, <4>1
    <3>4. i \notin LeftOut
      <4>1. i \in LeftOut => i < Rows[k + d].id
        BY <1>4, <3>2, LeftOutBefore
      <4>2. Rows[k + d].id \in Nat
        BY <1>13, <3>2
      <4>3. QED
        BY <1>10, <2>1, <3>2, <4>1, <4>2
    <3>5. i \notin IdsOf(Rows)
      BY <1>3, <1>4, <1>5, <2>1, <3>1, <3>2, NoneBetween
    <3>6. QED
      BY <1>7, <1>12, <3>3, <3>4, <3>5 DEF Listed
  <2>4. CASE k = c /\ k \in 1..c
    <3>1. k + d = r /\ r \in 1..r /\ 1 \in 1..m /\ k + 1 = c + 1
      BY <1>3, <2>4
    <3>2. shown'[k] = Rows[r] /\ shown'[k + 1] = shown[1] /\ r \in DOMAIN Rows
      BY <1>3, <2>4, <3>1
    <3>3. i < First
      BY <2>1, <3>2 DEF First
    <3>4. i \notin LeftOut
      <4>1. i \in LeftOut => i < Rows[r].id
        BY <1>4, <3>2, LeftOutBefore
      <4>2. QED
        BY <1>10, <1>13, <2>1, <3>2, <4>1
    <3>5. i \notin Listed
      <4>1. Rows # <<>>
        BY <3>2, NoRows
      <4>2. i \in Listed => i <= Rows[r].id
        BY <1>3, <1>4, <1>5, <4>1, RisingEnds DEF Listed
      <4>3. QED
        BY <1>10, <1>13, <2>1, <3>2, <4>2
    <3>6. i < request.cursor \/ request.cursor <= i
      BY <1>10
    <3>7. QED
      BY <1>7, <1>12, <3>3, <3>4, <3>5, <3>6
  <2>5. CASE \E q \in 1..(m - 1) : k = c + q
    <3>1. PICK q \in 1..(m - 1) : k = c + q
      BY <2>5
    <3>2. c \in Nat /\ m \in Nat /\ l \in Nat /\ m <= l
      BY <1>3
    <3>3. q \in 1..m /\ q + 1 \in 1..m /\ q \in 1..(l - 1)
      BY <3>2
    <3>4. k + 1 = c + (q + 1)
      BY <3>1, <3>2
    <3>5. shown'[k] = shown[q] /\ shown'[k + 1] = shown[q + 1]
      BY <1>3, <3>1, <3>3, <3>4
    <3>6. q \in 1..(Len(shown) - 1)
      BY <1>3, <3>3
    <3>7. i \in Gone
      BY <1>9, <2>1, <3>5, <3>6 DEF HoleGap
    <3>8. QED
      BY <1>7, <3>7
  <2>6. QED
    BY <2>2, <2>3, <2>4, <2>5
<1>18. HeardGap(i)'
  BY <1>1, <1>6, <1>7, <1>9, <1>11 DEF HeardGap
<1>19. OlderGap(i)' /\ MoreGap(i)'
  BY <1>2 DEF OlderGap, MoreGap
<1>20. QED
  BY <1>11, <1>15, <1>16, <1>17, <1>18, <1>19 DEF EdgeGap

\* The events of a run come in the order of its records: what is before the next one
\* and would be shown has come, was listed, or is gone.
LEMMA ToldInOrder ==
  ASSUME TypeOK, LogInv, TaskInv, PhaseInv, StreamInv, stream # <<>>,
         NEW n \in Sent, n = stream[1].id, NEW i \in SelApps, i < n
  PROVE  i \in Acc \cup Gone
<1>1. /\ DOMAIN stream = 1..Len(stream) /\ Len(stream) \in Nat /\ 1 \in 1..Len(stream)
      /\ n \in IdsOf(stream) /\ n \in Nat
  <2>1. stream \in Seq([id : DOMAIN log, ended : BOOLEAN])
    BY RowsTyped
  <2>2. DOMAIN stream = 1..Len(stream) /\ Len(stream) \in Nat
    BY <2>1, RowsAre
  <2>3. Len(stream) # 0
    BY <2>1, EmptySeq
  <2>4. 1 \in 1..Len(stream)
    BY <2>2, <2>3
  <2>5. QED
    BY <2>2, <2>4, ViewFacts
<1>2. source.at = "open"
  BY DEF PhaseInv
<1>3. n \in Coming
  BY <1>1 DEF Coming
<1>4. i \in Sent /\ i \in Sels /\ i \in Lives /\ i \in Nat
  BY LogFacts
<1>5. i \notin IdsOf(stream)
  <2>1. ASSUME NEW k \in 1..Len(stream), stream[k].id = i
        PROVE  FALSE
    <3>1. k # 1
      BY <1>1, <1>4, <2>1
    <3>2. 1 < k
      BY <1>1, <3>1
    <3>3. n < i
      BY <1>1, <1>4, <2>1, <3>2 DEF StreamInv
    <3>4. QED
      BY <1>1, <1>4, <3>3
  <2>2. QED
    BY <1>1, <2>1 DEF IdsOf
<1>6. CASE watched
  <2>1. i \notin Untold
    <3>1. n \notin Untold
      BY <1>3, <1>6 DEF StreamInv
    <3>2. i \in Untold => n < i
      BY <3>1, TaskFacts
    <3>3. QED
      BY <1>1, <1>4, <3>2
  <2>2. i \in seen \cup heard \cup lost \cup IdsOf(stream) \cup Untold
    BY <1>4, <1>6 DEF StreamInv
  <2>3. QED
    BY <1>5, <2>1, <2>2 DEF Acc, Gone
<1>7. CASE ~watched
  <2>1. n \in stored \cap Sent
    BY <1>3, <1>7 DEF StreamInv
  <2>2. i <= n
    BY <1>1, <1>4
  <2>3. i \in stored
    BY <1>4, <2>1, <2>2, StoredBefore
  <2>4. IdsOf(source.rows) \subseteq IdsOf(stream) \cup heard
    BY <1>2 DEF StreamInv
  <2>5. i \in IdsOf(source.rows) => i \in heard
    BY <1>5, <2>4
  <2>6. i \notin seen \cup IdsOf(source.rows) => i \in MissedBefore
    BY <1>4, <2>3 DEF MissedBefore
  <2>7. QED
    BY <1>2, <1>7, <2>5, <2>6 DEF Acc, Gone
<1>8. QED
  BY <1>6, <1>7

\* What would be shown and was taken into account is before the next event.
LEMMA TakenBefore ==
  ASSUME TypeOK, LogInv, StreamInv, SeenInv, request.type # "first",
         NEW n \in IdsOf(stream), n \in Sent, NEW i \in SelApps, i \in Acc
  PROVE  i < n
<1>1. /\ n \in Nat /\ source.cursor < n /\ \A h \in heard \cap Sent : h < n
  BY EventIsAhead
<1>2. i \in Sent /\ i \in Nat /\ source.cursor \in Nat
  BY LogFacts, ViewFacts
<1>3. CASE i \in seen
  <2>1. i <= source.cursor
    BY <1>3 DEF SeenInv
  <2>2. QED
    BY <1>1, <1>2, <2>1
<1>4. CASE i \in heard
  BY <1>1, <1>2, <1>4
<1>5. QED
  BY <1>3, <1>4 DEF Acc

\* An event leaves what is gone, and nothing before it is to come.
LEMMA EventKeeps ==
  ASSUME TypeOK, LogInv, TaskInv, PhaseInv, StreamInv, GapInv, LogKept, EventArrives, ~stray,
         request.type # "first", NEW i \in SelApps
  PROVE  Gone \subseteq Gone' /\ HeardGap(i)'
<1>1. PICK e \in [id : DOMAIN log, ended : BOOLEAN] :
        /\ e = stream[1] /\ stream # <<>> /\ heard' = heard \cup {e.id}
        /\ UNCHANGED <<source, seen, lost, stored, watched>>
  BY EventMoves
<1>2. Sent' = Sent /\ lost \subseteq lost' /\ stored \subseteq stored'
  BY <1>1 DEF LogKept
<1>3. Gone \subseteq Gone'
  BY <1>1, <1>2, GoneGrows
<1>4. Acc \subseteq Acc'
  BY <1>1 DEF Acc
<1>5. HeardGap(i)
  BY DEF GapInv
<1>6. ASSUME NEW h \in heard' \cap Sent', i < h
      PROVE  i \in Acc' \cup Gone'
  <2>1. CASE h \in heard
    BY <1>2, <1>3, <1>4, <1>5, <1>6, <2>1 DEF HeardGap
  <2>2. CASE h = e.id
    <3>1. h \in Sent /\ h = stream[1].id
      BY <1>1, <1>2, <2>2
    <3>2. i \in Acc \cup Gone
      BY <1>1, <1>6, <3>1, ToldInOrder
    <3>3. QED
      BY <1>3, <1>4, <3>2
  <2>3. QED
    BY <1>1, <2>1, <2>2
<1>7. HeardGap(i)'
  BY <1>6 DEF HeardGap
<1>8. QED
  BY <1>3, <1>7

\* An event that appends no row leaves the rows where they are.
LEMMA GapUnshown ==
  ASSUME TypeOK, LogInv, TaskInv, PhaseInv, StreamInv, GapInv, LogKept, EventArrives,
         NEW e \in [id : DOMAIN log, ended : BOOLEAN], e = stream[1],
         EventChanges(e) \/ (EventAppends(e) /\ ~isEnd)
  PROVE  GapInv'
<1>1. /\ heard' = heard \cup {e.id}
      /\ UNCHANGED <<request, source, isEnd, seen, lost, stored, watched>>
  BY EventMoves
<1>2. Sent' = Sent /\ SelApps' = SelApps
  BY DEF LogKept
<1>3. /\ UNCHANGED <<noOlder, shifted, stray>> /\ dropped \subseteq dropped'
      /\ Len(shown') = Len(shown) /\ DOMAIN shown' = DOMAIN shown
      /\ shown' = <<>> <=> shown = <<>>
      /\ IdsOf(shown)' = IdsOf(shown)
      /\ \A k \in DOMAIN shown : shown'[k].id = shown[k].id
  <2>1. CASE EventChanges(e)
    <3>1. UNCHANGED <<noOlder, dropped, shifted, stray>>
      BY <2>1, ChangeShown
    <3>2. Len(shown') = Len(shown) /\ DOMAIN shown' = DOMAIN shown
      BY <2>1, ChangeShown
    <3>3. shown' = <<>> <=> shown = <<>>
      BY <2>1, ChangeShown
    <3>4. IdsOf(shown') = IdsOf(shown) /\ \A k \in DOMAIN shown : shown'[k].id = shown[k].id
      BY <2>1, ChangeShown
    <3>5. IdsOf(shown)' = IdsOf(shown)
      BY <3>4 DEF IdsOf
    <3>6. QED
      BY <3>1, <3>2, <3>3, <3>4, <3>5
  <2>2. CASE EventAppends(e) /\ ~isEnd
    <3>1. UNCHANGED <<shown, noOlder, shifted, stray>> /\ dropped' = dropped \cup {e.id}
      BY <2>2 DEF EventAppends
    <3>2. QED
      BY <3>1 DEF IdsOf
  <2>3. QED
    BY <2>1, <2>2
<1>4. SUFFICES ASSUME ~stray, request.type # "first", NEW i \in SelApps
               PROVE  (EdgeGap(i) /\ HoleGap(i) /\ HeardGap(i) /\ OlderGap(i) /\ MoreGap(i))'
  BY <1>1, <1>2, <1>3 DEF GapInv
<1>5. EdgeGap(i) /\ HoleGap(i) /\ OlderGap(i) /\ MoreGap(i)
  BY <1>4 DEF GapInv
<1>6. Gone \subseteq Gone' /\ HeardGap(i)'
  BY <1>4, EventKeeps
<1>7. /\ DOMAIN shown = 1..Len(shown) /\ Len(shown) \in Nat
      /\ shown # <<>> => 1 \in DOMAIN shown /\ Len(shown) \in DOMAIN shown
  <2>1. shown \in Seq([id : DOMAIN log, ended : BOOLEAN])
    BY RowsTyped
  <2>2. DOMAIN shown = 1..Len(shown) /\ Len(shown) \in Nat
    BY <2>1, RowsAre
  <2>3. shown # <<>> => Len(shown) # 0
    BY <2>1, EmptySeq
  <2>4. QED
    BY <2>2, <2>3
<1>8. shown # <<>> => First' = First /\ Last' = Last
  BY <1>3, <1>7 DEF First, Last
<1>9. Listed' = Listed /\ LeftOut' = LeftOut /\ (Full' <=> Full)
  BY <1>1, <1>2 DEF Listed, LeftOut, Full, Rows, IdsOf
<1>10. i \in Acc' => i \in Acc \/ (~isEnd /\ i \in dropped')
  <2>1. CASE EventChanges(e)
    <3>1. e.id \notin SelApps
      BY <2>1 DEF EventChanges, SelApps, Appended
    <3>2. QED
      BY <1>1, <3>1 DEF Acc
  <2>2. CASE EventAppends(e) /\ ~isEnd
    <3>1. e.id \in dropped'
      BY <2>2 DEF EventAppends
    <3>2. QED
      BY <1>1, <2>2, <3>1 DEF Acc
  <2>3. QED
    BY <2>1, <2>2
<1>11. EdgeGap(i)'
  <2>1. shown = <<>> => isEnd
    BY DEF PhaseInv
  <2>2. QED
    BY <1>1, <1>3, <1>5, <1>6, <1>8, <1>10, <2>1 DEF EdgeGap
<1>12. HoleGap(i)'
  <2>1. \A k \in 1..(Len(shown) - 1) : k \in DOMAIN shown /\ k + 1 \in DOMAIN shown
    BY <1>7
  <2>2. QED
    BY <1>3, <1>5, <1>6, <2>1 DEF HoleGap
<1>13. OlderGap(i)'
  <2>1. request.type = "older" => shown # <<>>
    BY DEF PhaseInv
  <2>2. QED
    BY <1>1, <1>3, <1>5, <1>6, <1>8, <1>9, <2>1 DEF OlderGap
<1>14. MoreGap(i)'
  BY <1>1, <1>3, <1>5, <1>6, <1>9, <1>10 DEF MoreGap
<1>15. QED
  BY <1>6, <1>11, <1>12, <1>13, <1>14

\* An event that appends a row comes after the last one, and the first may leave.
LEMMA GapShown ==
  ASSUME TypeOK, LogInv, TaskInv, PhaseInv, StreamInv, SeenInv, GapInv, LogKept, EventArrives,
         NEW e \in [id : DOMAIN log, ended : BOOLEAN], e = stream[1], EventAppends(e), isEnd
  PROVE  GapInv'
<1>1. /\ heard' = heard \cup {e.id} /\ stream # <<>> /\ e.id \in IdsOf(stream)
      /\ UNCHANGED <<request, source, isEnd, seen, lost, stored, watched>>
  BY EventMoves
<1>2. Sent' = Sent /\ SelApps' = SelApps
  BY DEF LogKept
<1>3. PICK d \in {0, 1}, l \in Nat :
        /\ l = Len(shown) /\ Len(shown') = l + 1 - d
        /\ DOMAIN shown = 1..l /\ DOMAIN shown' = 1..(l + 1 - d)
        /\ \A k \in 1..(l - d) : shown'[k] = shown[k + d] /\ k + d \in 1..l
        /\ shown'[l + 1 - d] = e
        /\ d = 1 => l >= 2 /\ ~noOlder' /\ shifted' = shifted \cup {shown[1].id}
        /\ d = 0 => noOlder' = noOlder /\ shifted' = shifted
        /\ stray' = (stray \/ log[e.id] = Start)
  <2>1. PICK d \in {0, 1} :
          /\ Len(shown') = Len(shown) + 1 - d /\ Len(shown) \in Nat
          /\ DOMAIN shown = 1..Len(shown) /\ DOMAIN shown' = 1..(Len(shown) + 1 - d)
          /\ \A k \in 1..(Len(shown) - d) : shown'[k] = shown[k + d] /\ k + d \in 1..Len(shown)
          /\ shown'[Len(shown) + 1 - d] = e
          /\ d = 1 => Len(shown) >= 2 /\ ~noOlder' /\ shifted' = shifted \cup {shown[1].id}
          /\ d = 0 => noOlder' = noOlder /\ shifted' = shifted
          /\ stray' = (stray \/ log[e.id] = Start)
    BY EventShown
  <2>2. QED
    BY <2>1, Zenon
<1>4. SUFFICES ASSUME ~stray', request.type # "first", NEW i \in SelApps
               PROVE  (EdgeGap(i) /\ HoleGap(i) /\ HeardGap(i) /\ OlderGap(i) /\ MoreGap(i))'
  BY <1>1, <1>2 DEF GapInv
<1>5. PICK n \in Sent : n = e.id /\ n = stream[1].id /\ n \in IdsOf(stream) /\ ~stray /\ n \in Nat
  <2>1. ~stray /\ log[e.id] # Start
    BY <1>3, <1>4
  <2>2. e.id \in Sent /\ e.id \in Nat
    BY <2>1, ViewFacts DEF Sent
  <2>3. QED
    BY <1>1, <2>1, <2>2
<1>6. EdgeGap(i) /\ HoleGap(i) /\ OlderGap(i)
  BY <1>4, <1>5 DEF GapInv
<1>7. Gone \subseteq Gone' /\ HeardGap(i)'
  BY <1>4, <1>5, EventKeeps
<1>8. i \in Nat /\ Acc' = Acc \cup {n}
  BY <1>1, <1>5, LogFacts DEF Acc
<1>9. i < n => i \in Acc \cup Gone
  BY <1>1, <1>5, ToldInOrder
<1>10. /\ l = 0 <=> shown = <<>>
       /\ shown' # <<>>
       /\ Last' = n
  <2>1. shown \in Seq([id : DOMAIN log, ended : BOOLEAN])
    BY RowsTyped
  <2>2. l = 0 <=> shown = <<>>
    BY <1>3, <2>1, EmptySeq
  <2>3. Len(shown') # 0
    BY <1>3
  <2>4. shown' # <<>>
    BY <2>3, EmptySeq
  <2>5. Last' = n
    BY <1>3, <1>5 DEF Last
  <2>6. QED
    BY <2>2, <2>4, <2>5
<1>11. (shown # <<>> /\ isEnd /\ Last < i /\ i \in Acc => i \in Gone)'
  <2>1. SUFFICES ASSUME n < i, i \in Acc
                 PROVE  FALSE
    BY <1>5, <1>8, <1>10
  <2>2. i < n
    BY <1>4, <1>5, <2>1, TakenBefore
  <2>3. QED
    BY <1>5, <1>8, <2>1, <2>2
<1>12. (shown # <<>> /\ noOlder /\ i < First => i \in Gone)'
  <2>1. SUFFICES ASSUME noOlder', i < First'
                 PROVE  i \in Gone'
    OBVIOUS
  <2>2. d = 0 /\ noOlder
    BY <1>3, <2>1
  <2>3. CASE l = 0
    <3>1. First' = n
      BY <1>3, <1>5, <2>2, <2>3 DEF First
    <3>2. QED
      BY <1>6, <1>7, <1>9, <1>10, <2>1, <2>3, <3>1 DEF EdgeGap
  <2>4. CASE l # 0
    <3>1. 1 \in 1..(l - d) /\ 1 + d = 1
      BY <1>3, <2>2, <2>4
    <3>2. First' = First
      BY <1>3, <3>1 DEF First
    <3>3. QED
      BY <1>6, <1>7, <1>10, <2>1, <2>2, <2>4, <3>2 DEF EdgeGap
  <2>5. QED
    BY <2>3, <2>4
<1>13. HoleGap(i)'
  <2>1. SUFFICES ASSUME NEW k \in 1..(Len(shown') - 1), shown'[k].id < i, i < shown'[k + 1].id
                 PROVE  i \in Gone'
    BY DEF HoleGap
  <2>2. k \in 1..(l - d) /\ (k + 1 \in 1..(l - d) \/ k = l - d)
    <3>1. k \in 1..(l - d)
      BY <1>3
    <3>2. \A q \in 1..(l - d) : q + 1 \in 1..(l - d) \/ q = l - d
      BY <1>3
    <3>3. QED
      BY <3>1, <3>2
  <2>3. CASE k + 1 \in 1..(l - d)
    <3>1. shown'[k] = shown[k + d] /\ shown'[k + 1] = shown[(k + 1) + d]
      BY <1>3, <2>2, <2>3
    <3>2. k + d \in 1..(Len(shown) - 1) /\ (k + 1) + d = (k + d) + 1
      BY <1>3, <2>2, <2>3
    <3>3. QED
      BY <1>6, <1>7, <2>1, <3>1, <3>2 DEF HoleGap
  <2>4. CASE k = l - d
    <3>1. k + d = l /\ k + 1 = l + 1 - d /\ l # 0
      BY <1>3, <2>2, <2>4
    <3>2. shown'[k] = shown[l] /\ shown'[k + 1] = e
      BY <1>3, <2>2, <3>1
    <3>3. Last < i /\ i < n
      BY <1>3, <1>5, <2>1, <3>2 DEF Last
    <3>4. QED
      BY <1>6, <1>7, <1>9, <1>10, <3>1, <3>3 DEF EdgeGap
  <2>5. QED
    BY <2>2, <2>3, <2>4
<1>14. OlderGap(i)'
  <2>1. SUFFICES ASSUME request.type = "older"
                 PROVE  OlderGap(i)'
    BY <1>1 DEF OlderGap
  <2>2. l # 0
    BY <1>10, <2>1 DEF PhaseInv
  <2>3. ASSUME request.cursor <= i, i < First'
        PROVE  i \in shifted' \cup Gone'
    <3>1. CASE d = 0
      <4>1. 1 \in 1..(l - d) /\ 1 + d = 1
        BY <1>3, <2>2, <3>1
      <4>2. First' = First /\ shifted' = shifted
        BY <1>3, <3>1, <4>1 DEF First
      <4>3. QED
        BY <1>6, <1>7, <2>1, <2>3, <4>2 DEF OlderGap
    <3>2. CASE d = 1
      <4>1. /\ l >= 2 /\ shifted' = shifted \cup {First}
            /\ 1 \in 1..(l - d) /\ 1 + d = 2 /\ 1 \in 1..l /\ 1 \in 1..(l - 1)
        BY <1>3, <3>2 DEF First
      <4>2. First' = shown[2].id
        BY <1>3, <4>1 DEF First
      <4>3. First \in Nat
        BY <1>3, <4>1, ViewFacts DEF First
      <4>4. i < First \/ i = First \/ First < i
        BY <1>8, <4>3
      <4>5. i < First => i \in shifted \cup Gone
        BY <1>6, <2>1, <2>3 DEF OlderGap
      <4>6. First < i => i \in Gone
        <5>1. 1 \in 1..(Len(shown) - 1) /\ 1 + 1 = 2
          BY <1>3, <4>1
        <5>2. shown[1].id < i /\ i < shown[1 + 1].id => i \in Gone
          BY <1>6, <5>1 DEF HoleGap
        <5>3. QED
          BY <2>3, <4>2, <5>1, <5>2 DEF First
      <4>7. QED
        BY <1>7, <4>1, <4>4, <4>5, <4>6
    <3>3. QED
      BY <3>1, <3>2
  <2>4. request'.at # "list" /\ i < request'.cursor => i \in Listed' \cup LeftOut' \cup Gone'
    <3>1. Listed' = Listed /\ LeftOut' = LeftOut
      BY <1>1, <1>2 DEF Listed, LeftOut, Full, Rows, IdsOf
    <3>2. QED
      BY <1>1, <1>6, <1>7, <2>1, <3>1 DEF OlderGap
  <2>5. QED
    BY <1>1, <2>3, <2>4 DEF OlderGap
<1>15. MoreGap(i)'
  <2>1. request'.type # "more"
    BY <1>1 DEF PhaseInv
  <2>2. QED
    BY <2>1 DEF MoreGap
<1>16. QED
  BY <1>7, <1>10, <1>11, <1>12, <1>13, <1>14, <1>15 DEF EdgeGap

\* An event leaves nothing out.
LEMMA GapEvent ==
  ASSUME TypeOK, LogInv, TaskInv, PhaseInv, StreamInv, SeenInv, GapInv, LogKept, EventArrives
  PROVE  GapInv'
<1>1. PICK e \in [id : DOMAIN log, ended : BOOLEAN] :
        e = stream[1] /\ (EventAppends(e) \/ EventChanges(e))
  BY EventMoves
<1>2. CASE EventAppends(e) /\ isEnd
  BY <1>1, <1>2, GapShown
<1>3. CASE EventChanges(e) \/ (EventAppends(e) /\ ~isEnd)
  BY <1>1, <1>3, GapUnshown
<1>4. QED
  BY <1>1, <1>2, <1>3

\* Every step keeps account of what is not shown.
LEMMA GapInvNext ==
  ASSUME TypeOK, LogInv, TaskInv, PhaseInv, StreamInv, ListInv, SeenInv, OrderInv, GapInv,
         [Next]_vars
  PROVE  GapInv'
<1>1. CASE QuietStep
  <2>1. ViewKept /\ stored \subseteq stored'
    BY <1>1 DEF QuietStep
  <2>2. CASE LogKept
    <3>1. UNCHANGED <<request, source, stream, shown, isEnd, noOlder, seen, heard, dropped, shifted,
                      early, lost, stray, watched>>
      BY <2>1 DEF ViewKept
    <3>2. Sent' = Sent /\ SelApps' = SelApps /\ lost \subseteq lost'
      BY <2>2, <3>1 DEF LogKept
    <3>3. Gone \subseteq Gone'
      BY <2>1, <3>1, <3>2, GoneGrows
    <3>4. Listed' = Listed /\ LeftOut' = LeftOut /\ (Full' <=> Full)
      BY <3>1, <3>2 DEF Listed, LeftOut, Full, Rows, IdsOf
    <3>5. QED
      BY <3>1, <3>2, <3>3, <3>4, GapFrame
  <2>3. CASE LogMore(Len(log'))
    BY <2>1, <2>3, GapMore
  <2>4. QED
    BY <1>1, <2>2, <2>3 DEF QuietStep
<1>2. CASE LogKept /\ (Swap \/ Notify \/ TellView \/ SubscribeList \/ Subscribe)
  BY <1>2, GapTask
<1>3. CASE LogKept /\ (ServeList \/ ServeLookUp)
  BY <1>3, GapServeList, GapServeLookUp
<1>4. CASE LogKept /\ (FetchMore \/ FetchOlder)
  BY <1>4, GapFetch
<1>5. CASE LogKept /\ FirstArrives
  BY <1>5, GapFirst
<1>6. CASE LogKept /\ MoreArrives
  BY <1>6, GapMoreArrives
<1>7. CASE LogKept /\ OlderArrives
  BY <1>7, GapOlderArrives
<1>8. CASE LogKept /\ EventArrives
  BY <1>8, GapEvent
<1>9. QED
  BY <1>1, <1>2, <1>3, <1>4, <1>5, <1>6, <1>7, <1>8, LoudSteps DEF Server, View

-----------------------------------------------------------------------------
(* What the invariant says when all is quiet.                              *)

\* Between the ends of what is shown an id is a row's or between two of them.
LEMMA InAHole ==
  ASSUME TypeOK, shown # <<>>, NEW i \in Nat, i \notin IdsOf(shown), First < i, i < Last
  PROVE  \E k \in 1..(Len(shown) - 1) : shown[k].id < i /\ i < shown[k + 1].id
<1>1. PICK l \in Nat : l = Len(shown) /\ l # 0 /\ DOMAIN shown = 1..l
  <2>1. shown \in Seq([id : DOMAIN log, ended : BOOLEAN])
    BY RowsTyped
  <2>2. QED
    BY <2>1, EmptySeq, RowsAre
<1>2. \A k \in 1..l : shown[k].id \in Nat /\ shown[k].id # i
  BY <1>1, ViewFacts
<1>3. PICK S \in SUBSET (1..l) : S = {k \in 1..l : shown[k].id < i}
  OBVIOUS
<1>4. 1 \in S
  BY <1>1, <1>3 DEF First
<1>5. PICK k \in S : \A j \in S : j <= k
  BY <1>1, <1>3, <1>4, LastIs
<1>6. k # l
  BY <1>1, <1>2, <1>3 DEF Last
<1>7. k \in 1..(l - 1) /\ k + 1 \in 1..l
  BY <1>1, <1>6
<1>8. k + 1 \notin S
  BY <1>5, <1>7
<1>9. i < shown[k + 1].id
  BY <1>2, <1>3, <1>7, <1>8
<1>10. QED
  BY <1>1, <1>3, <1>7, <1>9

\* Once all is quiet, all that was to be told was heard or listed, or is lost.
LEMMA QuietFacts ==
  ASSUME TypeOK, LogInv, TaskInv, StreamInv, Quiet
  PROVE  /\ request.type = "none" /\ Gone = lost
         /\ Lives \subseteq Acc \cup lost
<1>1. /\ channel = <<>> /\ filling = <<>> /\ BatchDone /\ watched /\ stream = <<>>
      /\ request = NoRequest
  BY DEF Quiet
<1>2. request.type = "none" /\ Gone = lost
  BY <1>1 DEF NoRequest, Gone
<1>3. IdsIn(channel) = {} /\ IdsIn(filling) = {} /\ IdsOf(stream) = {}
  <2>1. DOMAIN <<>> = {}
    OBVIOUS
  <2>2. QED
    BY <1>1, <2>1 DEF IdsIn, IdsOf
<1>4. Untold = {}
  <2>1. Untold = Ahead
    BY <1>1, TaskFacts
  <2>2. QED
    BY <1>3, <2>1 DEF Ahead
<1>5. Lives \subseteq Acc \cup lost
  BY <1>1, <1>3, <1>4 DEF StreamInv, Acc
<1>6. QED
  BY <1>2, <1>5

\* What the view misses a race has kept from it.
LEMMA NothingElseMissed ==
  ASSUME TypeOK, LogInv, TaskInv, StreamInv, OrderInv, GapInv, CloseInv
  PROVE  MissedOnlyByRaces
<1>1. SUFFICES ASSUME ~stray, Quiet
               PROVE  /\ \A i \in Selected \cap Sent :
                           Appends(i) => i \in IdsOf(shown) \/ Fetchable(i) \/ i \in lost
                                         \/ OutOfTime(i)
                      /\ \A c \in stored : Closes(c) =>
                           \A k \in DOMAIN shown :
                             log[shown[k].id].kind = "SpanCreate"
                             /\ log[shown[k].id].span_t_id = log[c].span_t_id
                               => shown[k].ended \/ c \in lost
  BY DEF MissedOnlyByRaces
<1>2. request.type = "none" /\ Gone = lost /\ Lives \subseteq Acc \cup lost
  BY <1>1, QuietFacts
<1>3. ASSUME NEW i \in Selected \cap Sent, Appends(i), i \notin IdsOf(shown), ~Fetchable(i)
      PROVE  i \in lost
  <2>1. i \in SelApps /\ i \in Nat
    BY <1>3, LogFacts DEF SelApps, Appended
  <2>2. i \in Acc \cup lost
    BY <1>2, <2>1, LogFacts
  <2>3. EdgeGap(i) /\ HoleGap(i)
    BY <1>1, <1>2, <2>1 DEF GapInv
  <2>4. CASE shown = <<>>
    BY <1>2, <2>2, <2>3, <2>4 DEF EdgeGap
  <2>5. CASE shown # <<>> /\ i < First
    BY <1>2, <1>3, <2>3, <2>5 DEF EdgeGap, Fetchable, First
  <2>6. CASE shown # <<>> /\ Last < i
    <3>1. isEnd
      BY <1>3, <2>6 DEF Fetchable, Last
    <3>2. QED
      BY <1>2, <2>2, <2>3, <2>6, <3>1 DEF EdgeGap
  <2>7. CASE shown # <<>> /\ First < i /\ i < Last
    <3>1. PICK k \in 1..(Len(shown) - 1) : shown[k].id < i /\ i < shown[k + 1].id
      BY <1>3, <2>1, <2>7, InAHole
    <3>2. QED
      BY <1>2, <2>3, <3>1 DEF HoleGap
  <2>8. shown # <<>> => First \in Nat /\ Last \in Nat /\ i # First /\ i # Last
    <3>1. ASSUME shown # <<>>
          PROVE  1 \in DOMAIN shown /\ Len(shown) \in DOMAIN shown
      <4>1. shown \in Seq([id : DOMAIN log, ended : BOOLEAN])
        BY RowsTyped
      <4>2. Len(shown) \in Nat /\ DOMAIN shown = 1..Len(shown) /\ Len(shown) # 0
        BY <3>1, <4>1, EmptySeq, RowsAre
      <4>3. QED
        BY <4>2
    <3>2. QED
      BY <1>3, <3>1, ViewFacts DEF First, Last
  <2>9. QED
    BY <2>1, <2>4, <2>5, <2>6, <2>7, <2>8
<1>4. ASSUME NEW c \in stored, Closes(c), NEW k \in DOMAIN shown,
             log[shown[k].id].kind = "SpanCreate",
             log[shown[k].id].span_t_id = log[c].span_t_id, ~shown[k].ended
      PROVE  c \in lost
  <2>1. shown[k].id \in IdsOf(shown)
    BY ViewFacts
  <2>2. shown[k].id \in Sent /\ shown[k].id \in Finds
    BY <1>1, <2>1, LogFacts DEF OrderInv
  <2>3. c \in Sent
    <3>1. log[c] # Start
      BY <1>4, StartAssumption DEF Closes
    <3>2. c \in DOMAIN log
      BY ViewFacts
    <3>3. QED
      BY <3>1, <3>2 DEF Sent
  <2>4. <<shown[k].id, c>> \in Ends
    BY <1>4, <2>2, <2>3 DEF Ends
  <2>5. c \in Lives
    BY <2>2, <2>4, LogFacts
  <2>6. c \in seen \cup heard => c \in lost
    BY <1>4, <2>4 DEF CloseInv
  <2>7. QED
    BY <1>2, <2>5, <2>6 DEF Acc
<1>5. QED
  BY <1>3, <1>4

-----------------------------------------------------------------------------
(* The invariant holds in the initial states and is kept by every step.    *)

\* The invariant holds in the initial states.
LEMMA InvInit ==
  Init => Inv
<1> SUFFICES ASSUME Init
             PROVE  Inv
  OBVIOUS
<1>1. /\ log = <<>> /\ channel = <<>> /\ filling = <<>> /\ batch = <<>>
      /\ registry = <<>> /\ stream = <<>> /\ shown = <<>> /\ did = {} /\ told = 0
      /\ joining = FALSE /\ watched = FALSE /\ stored = {} /\ regWatch = FALSE
      /\ isEnd = TRUE /\ noOlder = FALSE /\ stray = FALSE
      /\ seen = {} /\ heard = {} /\ dropped = {} /\ shifted = {} /\ early = {} /\ lost = {}
      /\ source = [at |-> "no", cursor |-> 0, rows |-> <<>>]
  BY DEF Init
<1>2. request = [type |-> "first", at |-> "list", cursor |-> 0, rows |-> <<>>]
  BY DEF Init, NoRequest
<1>3. DOMAIN <<>> = {} /\ Len(<<>>) = 0
  OBVIOUS
<1>4. Sent = {} /\ IdsIn(<<>>) = {} /\ IdsOf(<<>>) = {}
  BY <1>1, <1>3 DEF Sent, IdsIn, IdsOf
<1>5. TypeOK
  BY TypeOKInit
<1>6. LogInv
  BY <1>4 DEF LogInv
<1>7. TaskInv
  BY <1>1, <1>3, <1>4 DEF TaskInv, InBatch, Ahead, Old, Rising
<1>8. PhaseInv
  BY <1>1, <1>2, <1>4 DEF PhaseInv
<1>9. StreamInv
  <2>1. Coming = {} /\ Lives = {} /\ RisingRows(<<>>)
    BY <1>3, <1>4 DEF Coming, Lives, RisingRows
  <2>2. QED
    BY <1>1, <1>3, <1>4, <2>1 DEF StreamInv
<1>10. ListInv
  BY <1>2 DEF ListInv
<1>11. SeenInv
  BY <1>2 DEF SeenInv
<1>12. OrderInv
  BY <1>1, <1>2, <1>3, <1>4 DEF OrderInv
<1>13. GapInv
  BY <1>2 DEF GapInv
<1>14. CloseInv
  BY <1>1, <1>2, <1>3 DEF CloseInv
<1>15. QED
  BY <1>5, <1>6, <1>7, <1>8, <1>9, <1>10, <1>11, <1>12, <1>13, <1>14 DEF Inv

\* What is in the order of its times now always was.
LEMMA InTimeBefore ==
  ASSUME TypeOK, LogInv, TaskInv, [Next]_vars, InTime'
  PROVE  InTime
<1>1. case' = case /\ \A i \in DOMAIN log : i \in DOMAIN log' /\ log'[i] = log[i]
  <2>1. CASE RunRecords \/ OtherStarts
    <3>1. PICK m : log' = Append(log, m)
      BY <2>1 DEF RunRecords, OtherStarts
    <3>2. PICK R : log \in Seq(R)
      BY DEF TypeOK
    <3>3. \A i \in DOMAIN log : i \in DOMAIN log' /\ log'[i] = log[i]
      BY <3>1, <3>2, LogGrows
    <3>4. QED
      BY <2>1, <3>3 DEF RunRecords, OtherStarts
  <2>2. CASE ~(RunRecords \/ OtherStarts)
    BY <2>2 DEF Next, Task, Registry, Server, View, Receive, Swap, InsertRows, UpdateSpans, Notify,
      HandleAppRun, TellPage, TellView, HandleAddRecordWatcher, PageReads, PageLeaves, ServeList,
      ServeLookUp, SubscribeList, Subscribe, FirstArrives, FetchMore, FetchOlder, MoreArrives,
      OlderArrives, EventArrives, vars
  <2>3. QED
    BY <2>1, <2>2
<1>2. stored \subseteq stored'
  <2>1. CASE Swap \/ Notify \/ TellView \/ Server \/ View
    BY <2>1 DEF Swap, Notify, TellView, Server, ServeList, ServeLookUp, SubscribeList, Subscribe,
      View, FirstArrives, FetchMore, FetchOlder, MoreArrives, OlderArrives, EventArrives, dbVars
  <2>2. CASE ~(Swap \/ Notify \/ TellView \/ Server \/ View)
    BY <2>2, QuietSteps DEF Next, Task, Registry, QuietStep
  <2>3. QED
    BY <2>1, <2>2
<1>3. \A i \in stored : i \in DOMAIN log
  BY DEF TypeOK
<1>4. Selected \subseteq Selected' /\ \A i \in Selected : log'[i] = log[i]
  BY <1>1, <1>2, <1>3 DEF Selected, filter
<1>5. \A i, j \in Selected :
        /\ i < j => ~(log[i].time >= log[j].time)
        /\ j < i => ~(log[j].time >= log[i].time)
  BY <1>4 DEF InTime, OutOfTime
<1>6. QED
  BY <1>5 DEF InTime, OutOfTime

\* Every step keeps the invariant, as long as records are in the order of their times.
LEMMA InvNext ==
  ASSUME Inv, InTime, [Next]_vars
  PROVE  Inv'
<1>1. /\ TypeOK /\ LogInv /\ TaskInv /\ PhaseInv /\ StreamInv /\ ListInv /\ SeenInv /\ OrderInv
      /\ GapInv /\ CloseInv
  BY DEF Inv
<1>2. TypeOK'
  BY <1>1, TypeOKNext
<1>3. LogInv'
  BY <1>1, LogNext
<1>4. TaskInv'
  BY <1>1, TaskInvNext
<1>5. PhaseInv'
  BY <1>1, PhaseInvNext
<1>6. StreamInv'
  BY <1>1, StreamInvNext
<1>7. ListInv'
  BY <1>1, ListInvNext
<1>8. SeenInv'
  BY <1>1, SeenInvNext
<1>9. OrderInv'
  BY <1>1, OrderInvNext
<1>10. GapInv'
  BY <1>1, GapInvNext
<1>11. CloseInv'
  BY <1>1, CloseInvNext
<1>12. QED
  BY <1>2, <1>3, <1>4, <1>5, <1>6, <1>7, <1>8, <1>9, <1>10, <1>11 DEF Inv

\* The inductive invariant holds in every state of the specification before which
\* the records that the view is to show came in the order of their times, as those of
\* one thread do: the run's records go through its task in their order, the listings
\* and the subscription are where their phases say, and of what a view does not show
\* it is known why.
THEOREM ViewInvariant == Spec => [](InTime => Inv)
<1>1. Init => (InTime => Inv)
  BY InvInit
<1>2. TypeOK /\ LogInv /\ TaskInv /\ (InTime => Inv) /\ [Next]_vars => (InTime => Inv)'
  BY InTimeBefore, InvNext
<1>3. Init => LogInv /\ TaskInv /\ PhaseInv
  BY InvInit DEF Inv
<1>4. TypeOK /\ LogInv /\ TaskInv /\ PhaseInv /\ [Next]_vars => LogInv' /\ TaskInv' /\ PhaseInv'
  BY LogNext, TaskInvNext, PhaseInvNext
<1>5. QED
  BY <1>1, <1>2, <1>3, <1>4, ViewTyped, PTL DEF Spec

\* A view shows each record once and in order, and only what its filter selects,
\* but for what a listing brought before its event and what a search would leave out
\* (onmessage and the buttons of use_records_live.ts): for every page's filter, every
\* script of the run that is recorded in the order of its times, and every window.
THEOREM ShowsOnceInOrder == Spec => [](InTime => ShownOnce)
<1>1. Inv => ShownOnce
  BY ShownInOrder DEF Inv
<1>2. QED
  BY <1>1, ViewInvariant, PTL

\* Once all is quiet, a view shows or leads to every record that its filter selects
\* and shows every span as ended that is, but for what one of the races that the
\* property names has kept from it.  Where records come in the order of their times
\* the sixth of them cannot be, and nothing but the other five, of the listings, the
\* registry's and the task's notifications and the view's window, loses a record.
THEOREM MissesOnlyByRaces == Spec => [](InTime => MissedOnlyByRaces)
<1>1. Inv => MissedOnlyByRaces
  BY NothingElseMissed DEF Inv
<1>2. QED
  BY <1>1, ViewInvariant, PTL
=============================================================================
