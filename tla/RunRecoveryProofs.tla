------------------------- MODULE RunRecoveryProofs -------------------------
(***************************************************************************)
(* What RunRecovery keeps for every number of runs, connections, records   *)
(* and crashes.                                                            *)
(*                                                                         *)
(* The inductive invariant follows a record from the connection that       *)
(* numbers it to the database.  Its parts, each of which needs those       *)
(* before it:                                                              *)
(*   Types     the types of the variables;                                 *)
(*   Order     in what order a run's connections come, and how far the     *)
(*             registry is with each;                                      *)
(*   IdsInv    an id in use belongs to one record, stored or held by one   *)
(*             connection;                                                 *)
(*   IndexInv  an id is greater than the index of its record, and the ids  *)
(*             of a connection are greater than those of the run's         *)
(*             connections before it;                                      *)
(*   OnceInv   of a run that is not behind, what is held is not stored;    *)
(*   RowsInv   the id of a span's row is claimed by one connection;        *)
(*   NamesInv  the row of a span has the records it goes back to;          *)
(*   MarksInv  a run that stopped in good order is on no list to mark;     *)
(*   DefsInv   there are no more definitions of a key than crossed         *)
(*             look-ups.                                                   *)
(***************************************************************************)
EXTENDS RunRecovery, TLAPS, SequenceTheorems, FiniteSetTheorems, WellFoundedInduction

\* The sets that the variables take their values in: records sent, records stored,
\* rows of spans, the ids that a connection keeps for spans, and connections.
MessageType == {"Create", "Close", "Event"}
RowType == MessageType \cup {"AppStart", "Reconnect", "none"}
RecordRow == [id : Nat, run : Runs \cup {0}, idx : Int, type : RowType, span : Nat]
SpanRow == [row : Nat, run : Runs, span : Nat, rec : Nat, closed : BOOLEAN, marked : BOOLEAN]
SpanIds == UNION {[D -> Nat] : D \in SUBSET Nat}
Conn == [phase : {"new", "open", "ended", "dropped"}, start : Nat, reconnect : BOOLEAN,
         normal : BOOLEAN, running : SUBSET Nat, task : {"none", "running", "rejected"},
         queue : Seq(RecordRow), created : SpanIds, record : RecordRow, row : Nat,
         todo : SUBSET {"record", "span"}]

\* Every variable has its type.
Types ==
  /\ case \in Cases
  /\ alive \in [Runs -> BOOLEAN]
  /\ link \in [Runs -> {"down", "waiting", "up"}]
  /\ next \in [Runs -> Nat]
  /\ records \subseteq RecordRow
  /\ appRun \in [Runs -> {"none", "open", "stopped", "exception"}]
  /\ spanRuns \subseteq SpanRow
  /\ defs \in [Applications -> Nat]
  /\ nextId \in Nat \ {0} /\ rowIds \in Nat
  /\ conns \in [Runs -> Seq(Conn)]
  /\ registry \in [Runs -> [conn : Nat \ {0}, at : {"AppRun", "AppStop", "task"}]]
  /\ cached \in [Runs -> Nat]
  /\ looking \subseteq Runs
  /\ init \in {"spawned", "own", "sleeping", "marking", "done"}
  /\ toMark \subseteq marked /\ marked \subseteq found /\ found \subseteq Runs

\* The AppRun of the k-th connection of r waits for the registry.
Waits(r, k) ==
  registry[r].conn < k \/ (registry[r].conn = k /\ registry[r].at = "AppRun")

\* The k-th connection of r: only the latest is not over, it has a task when the
\* registry has dealt with its AppRun, and only a run with a row gets a task that
\* runs.
ConnOrder(r, k) ==
  LET c == conns[r][k] IN
  /\ next[r] # 0
  /\ k < Len(conns[r]) => c.phase \in {"ended", "dropped"}
  /\ c.phase = "new" => link[r] = "waiting"
  /\ c.phase = "open" => link[r] # "waiting"
  /\ c.phase \in {"new", "dropped"} => c.queue = <<>> /\ c.todo = {}
  /\ Waits(r, k) <=> c.task = "none"
  /\ c.task # "running" => c.todo = {}
  /\ c.task = "running" => appRun[r] # "none"
  /\ c.normal => c.phase = "ended" /\ k = Len(conns[r]) /\ ~alive[r]
  /\ ~c.reconnect => k = 1

\* The registry takes the connections of r in turn, and the client uses the latest.
RunOrder(r) ==
  /\ registry[r].conn <= Len(conns[r]) + 1
  /\ registry[r].conn = Len(conns[r]) + 1 => registry[r].at = "AppRun"
  /\ link[r] = "up" => conns[r] # <<>> /\ Latest(r).phase = "open"
  /\ \A k \in DOMAIN conns[r] : ConnOrder(r, k)

\* So it is for every run, and init finds only runs with a row.
Order ==
  /\ \A r \in Runs : RunOrder(r)
  /\ \A r \in found : appRun[r] # "none"

\* The rows and the ids that a connection has and the database has not.
RowsIn(c) ==
  {c.queue[i] : i \in DOMAIN c.queue} \cup (IF "record" \in c.todo THEN {c.record} ELSE {})

\* The ids are those of the rows, and that of the AppRun while it waits.
IdsIn(c, waits) == {m.id : m \in RowsIn(c)} \cup (IF waits THEN {c.start} ELSE {})

\* So it is of the k-th connection of r.
HeldRows(r, k) == RowsIn(conns[r][k])
HeldIds(r, k) == IdsIn(conns[r][k], Waits(r, k))

\* A connection has its records in the order of their ids.
InOrder(c) ==
  /\ \A i, j \in DOMAIN c.queue : i < j => c.queue[i].id < c.queue[j].id
  /\ \A i \in DOMAIN c.queue : c.start < c.queue[i].id
  /\ "record" \in c.todo => \A i \in DOMAIN c.queue : c.record.id < c.queue[i].id

\* An id in use was handed out, no two stored records have one id, and no id is
\* held by two connections, or held and stored.
IdsInv ==
  /\ \A m \in records : m.id \in 1..(nextId - 1)
  /\ \A m, n \in records : m.id = n.id => m = n
  /\ \A r \in Runs : \A k \in DOMAIN conns[r] :
       /\ conns[r][k].start \in 1..(nextId - 1)
       /\ InOrder(conns[r][k])
       /\ \A i \in HeldIds(r, k) : i \in 1..(nextId - 1) /\ \A m \in records : m.id # i
  /\ \A r, q \in Runs : \A k \in DOMAIN conns[r], l \in DOMAIN conns[q] :
       <<q, l>> # <<r, k>> => HeldIds(r, k) \cap HeldIds(q, l) = {}

\* There is no row of the run, and no AppRun that would make one.
Unknown(r) ==
  /\ next[r] # 0 /\ appRun[r] = "none"
  /\ \A k \in DOMAIN conns[r] : Waits(r, k) => conns[r][k].reconnect

\* What the k-th connection of r holds has ids above the indices, and above those
\* of the connections before it; what the reply to its AppRun is worked out from
\* is all there is.
IndexConn(r, k) ==
  LET c == conns[r][k] IN
  /\ \A m \in HeldRows(r, k) : (m.id > m.idx \/ Unknown(r)) /\ m.idx >= 1 /\ m.run = r
  /\ \A l \in DOMAIN conns[r] : l < k => \A i \in HeldIds(r, l) : i < c.start
  /\ c.phase = "new" /\ c.reconnect => \A m \in RowsOf(r) : m.idx >= 0 => m.id < c.start
  /\ c.phase = "new" /\ ~c.reconnect => next[r] = 1
  /\ Waits(r, k) /\ ~c.reconnect => RowsOf(r) = {}

\* The client goes on below the ids to come, and the row of r has its AppStart.
IndexRun(r) ==
  /\ link[r] = "up" => next[r] < nextId \/ Unknown(r)
  /\ next[r] = 0 => RowsOf(r) = {} /\ appRun[r] = "none"
  /\ appRun[r] # "none" => \E m \in RowsOf(r) : m.idx = 0
  /\ \A k \in DOMAIN conns[r] : IndexConn(r, k)

\* An id is above the index of its record, and so it is for every run.
IndexInv ==
  /\ \A m \in records : m.id > m.idx /\ m.idx >= -1 /\ m.run \in Runs
  /\ \A r \in Runs : IndexRun(r)

\* A connection has its records in the order of their indices.
IndexOrder(c) ==
  /\ \A i, j \in DOMAIN c.queue : i < j => c.queue[i].idx < c.queue[j].idx
  /\ "record" \in c.todo => \A i \in DOMAIN c.queue : c.record.idx < c.queue[i].idx

\* No record that a connection holds is stored, and only the latest one in use holds
\* any.
OnceConn(r, k) ==
  LET c == conns[r][k] IN
  /\ \A h \in HeldRows(r, k) : h.idx < next[r] /\ \A m \in RowsOf(r) : m.idx # h.idx
  /\ IndexOrder(c)
  /\ c.phase \notin {"new", "dropped"} => \A l \in DOMAIN conns[r] : l < k => ~Holds(conns[r][l])

\* No record of r is stored twice, or stored before it is sent.
OnceRun(r) ==
  /\ \A m, n \in RowsOf(r) : m.idx > 0 /\ m.idx = n.idx => m = n
  /\ \A m \in RowsOf(r) : m.idx < next[r]
  /\ \A k \in DOMAIN conns[r] : OnceConn(r, k)

\* So it is for every run that is not behind.
OnceInv == \A r \in Runs \ behind : OnceRun(r)

\* The rows of spans that a connection has the ids of, each with the span.
ClaimsIn(c) ==
  {<<c.created[x], x>> : x \in DOMAIN c.created}
    \cup (IF "span" \in c.todo THEN {<<c.row, c.record.span>>} ELSE {})

\* So it is of the k-th connection of r.
Claims(r, k) == ClaimsIn(conns[r][k])

\* Whose row has an id that a connection of r claims.
RowsConn(r, k) ==
  LET c == conns[r][k] IN
  /\ \A x \in Claims(r, k) : x[1] \in 0..rowIds
  /\ \A x \in Claims(r, k) : x[1] # 0 =>
       /\ \A s \in spanRuns : s.row = x[1] => s.run = r /\ s.span = x[2]
       /\ \A y \in Claims(r, k) : x[1] = y[1] => x[2] = y[2]
  /\ "span" \in c.todo =>
       /\ c.record.run = r
       /\ "record" \notin c.todo => c.record \in records
       /\ c.record.type = "Create" => c.row # 0 /\ \A s \in spanRuns : s.row # c.row

\* The rows of spans have ids of their own, and no two connections claim one id.
RowsInv ==
  /\ \A s \in spanRuns : s.row \in 1..rowIds
  /\ \A s, t \in spanRuns : s.row = t.row => s = t
  /\ \A r \in Runs : \A k \in DOMAIN conns[r] : RowsConn(r, k)
  /\ \A r, q \in Runs : \A k \in DOMAIN conns[r], l \in DOMAIN conns[q] :
       <<q, l>> # <<r, k>> =>
         \A x \in Claims(r, k), y \in Claims(q, l) : x[1] # 0 => x[1] # y[1]

\* The record of the creation of the span of row s, in the database or in hand.
Begun(s) ==
  \E m \in records \cup InHand(s.run) :
    m.id = s.rec /\ m.type = "Create" /\ m.run = s.run /\ m.span = s.span

\* A row that no crash has torn has the record of its creation and, when it is
\* closed, that of its close.
NamesInv ==
  \A s \in {s \in spanRuns : s.row \notin torn} :
    Begun(s) /\ (s.closed => ClosedIn(records \cup InHand(s.run), s))

\* The registry has dealt with the AppStop of the k-th connection of r.
Passed(r, k) == registry[r].conn > k \/ (registry[r].conn = k /\ registry[r].at = "task")

\* When the registry has dealt with the AppStop of a connection, it is over, and a
\* run that it stopped in good order stays so unless init raced it.
MarksConn(r, k) ==
  LET c == conns[r][k] IN
  /\ Passed(r, k) => c.phase \in {"ended", "dropped"}
  /\ c.normal /\ c.task = "running" /\ Passed(r, k) /\ r \notin raced
       => appRun[r] = "stopped" /\ r \notin toMark

\* So it is for every connection.
MarksInv == \A r \in Runs : \A k \in DOMAIN conns[r] : MarksConn(r, k)

\* The look-ups for the spans of a, and those of them that have crossed.
Look(a) == {r \in looking : App(r) = a}
Cross(a) == {r \in crossed : App(r) = a}

\* A cached id is that of a definition, and each definition after the first of a
\* key, or look-up for it under way, is paid for by a look-up that crossed.
DefsInv ==
  /\ \A r \in Runs : cached[r] <= defs[App(r)]
  /\ IsFiniteSet(looking) /\ IsFiniteSet(crossed)
  /\ \A a \in Applications :
       /\ defs[a] = 0 => \A q, r \in Look(a) \ Cross(a) : q = r
       /\ defs[a] + Cardinality(Look(a)) <= 1 + Cardinality(Cross(a))
-----------------------------------------------------------------------------
\* A connection is added, and the connections of the others stay.
LEMMA ConnAdded ==
  ASSUME Types, NEW r \in Runs, NEW c \in Conn,
         conns' = [conns EXCEPT ![r] = Append(@, c)]
  PROVE  /\ conns' \in [Runs -> Seq(Conn)]
         /\ Len(conns'[r]) = Len(conns[r]) + 1
         /\ DOMAIN conns'[r] = DOMAIN conns[r] \cup {Len(conns[r]) + 1}
         /\ conns'[r][Len(conns[r]) + 1] = c
         /\ \A k \in DOMAIN conns[r] : conns'[r][k] = conns[r][k]
         /\ \A q \in Runs \ {r} : conns'[q] = conns[q]
<1>1. conns[r] \in Seq(Conn)
  BY DEF Types
<1>2. conns'[r] = Append(conns[r], c)
  BY DEF Types
<1>3. \A q \in Runs \ {r} : conns'[q] = conns[q]
  BY DEF Types
<1>4. Append(conns[r], c) \in Seq(Conn)
  BY <1>1
<1>5. conns' \in [Runs -> Seq(Conn)]
  BY <1>4 DEF Types
<1>6. QED
  BY <1>1, <1>2, <1>3, <1>5

\* The k-th connection of r becomes c.
Becomes(r, k, c) ==
  k \in DOMAIN conns[r] /\ conns[r][k] \in Conn /\ c \in Conn /\ conns' = SetConn(r, k, c)

\* A connection is changed, and all the others stay.
LEMMA ConnChanged ==
  ASSUME Types, NEW r \in Runs, NEW k, NEW c, Becomes(r, k, c)
  PROVE  /\ conns' \in [Runs -> Seq(Conn)]
         /\ conns'[r][k] = c
         /\ \A q \in Runs : /\ Len(conns'[q]) = Len(conns[q])
                            /\ DOMAIN conns'[q] = DOMAIN conns[q]
                            /\ \A l \in DOMAIN conns[q] :
                                 <<q, l>> # <<r, k>> => conns'[q][l] = conns[q][l]
<1> USE DEF Becomes
<1>1. conns[r] \in Seq(Conn)
  BY DEF Types
<1>2. conns'[r] = [conns[r] EXCEPT ![k] = c]
  BY DEF Types, SetConn
<1>3. \A q \in Runs \ {r} : conns'[q] = conns[q]
  BY DEF Types, SetConn
<1>4. [conns[r] EXCEPT ![k] = c] \in Seq(Conn)
  BY <1>1
<1>5. conns' \in [Runs -> Seq(Conn)]
  BY <1>4 DEF Types, SetConn
<1>6. Len(conns'[r]) = Len(conns[r])
  BY <1>1, <1>2
<1>7. QED
  BY <1>1, <1>2, <1>3, <1>5, <1>6

\* The latest connection is one of them.
LEMMA LatestIs ==
  ASSUME Types, NEW r \in Runs, conns[r] # <<>>
  PROVE  /\ Len(conns[r]) \in DOMAIN conns[r]
         /\ Latest(r) = conns[r][Len(conns[r])] /\ Latest(r) \in Conn
         /\ \A c : SetLatest(r, c) = SetConn(r, Len(conns[r]), c)
<1>1. conns[r] \in Seq(Conn)
  BY DEF Types
<1>2. Len(conns[r]) \in 1..Len(conns[r])
  BY <1>1, EmptySeq
<1>3. Len(conns[r]) \in DOMAIN conns[r]
  BY <1>1, <1>2
<1>4. QED
  BY <1>1, <1>3 DEF Latest, SetLatest, SetConn

\* The types of what is known of a connection.
LEMMA ConnIs ==
  ASSUME Types, NEW r \in Runs, NEW k \in DOMAIN conns[r]
  PROVE  /\ conns[r] \in Seq(Conn) /\ Len(conns[r]) \in Nat /\ k \in 1..Len(conns[r])
         /\ conns[r][k] \in Conn
         /\ conns[r][k].start \in Nat /\ conns[r][k].row \in Nat
         /\ conns[r][k].record \in RecordRow /\ conns[r][k].queue \in Seq(RecordRow)
         /\ conns[r][k].todo \in SUBSET {"record", "span"}
<1>1. conns[r] \in Seq(Conn)
  BY DEF Types
<1>2. conns[r][k] \in Conn /\ k \in 1..Len(conns[r]) /\ Len(conns[r]) \in Nat
  BY <1>1
<1>3. QED
  BY <1>1, <1>2 DEF Conn

\* The types of what is known of the registry.
LEMMA RegistryIs ==
  ASSUME Types, NEW r \in Runs
  PROVE  registry[r].conn \in Nat /\ registry[r].conn # 0
           /\ registry[r].at \in {"AppRun", "AppStop", "task"}
BY DEF Types

-----------------------------------------------------------------------------
\* A set of natural numbers has a least one.
LEMMA LeastExists ==
  ASSUME NEW T, T \subseteq Nat, T # {}
  PROVE  \E x \in T : \A y \in T : x <= y
<1>1. PICK x \in T : \A y \in T : ~(<<y, x>> \in OpToRel(<, Nat))
  BY NatLessThanWellFounded, WFMin
<1>2. \A y \in T : <<y, x>> \in OpToRel(<, Nat) <=> y < x
  BY DEF OpToRel
<1>3. ASSUME NEW y \in T
      PROVE  x <= y
  <2>1. y \in Nat /\ x \in Nat /\ ~(y < x)
    BY <1>1, <1>2
  <2>2. QED
    BY <2>1
<1>4. QED
  BY <1>3

\* A set of numbers with a bound has a greatest one.
LEMMA GreatestExists ==
  ASSUME NEW T, T \subseteq Int, T # {}, NEW n \in Int, \A y \in T : y <= n
  PROVE  \E x \in T : \A y \in T : y <= x
<1> DEFINE D == {n - y : y \in T}
<1>1. D \subseteq Nat
  <2> SUFFICES ASSUME NEW y \in T
               PROVE  n - y \in Nat
    OBVIOUS
  <2>1. y \in Int /\ y <= n
    OBVIOUS
  <2>2. QED
    BY <2>1
<1>2. D # {}
  OBVIOUS
<1>3. PICK d \in D : \A e \in D : d <= e
  <2> HIDE DEF D
  <2> QED
    BY <1>1, <1>2, LeastExists
<1>4. PICK x \in T : d = n - x
  OBVIOUS
<1>5. ASSUME NEW y \in T
      PROVE  y <= x
  <2>1. n - y \in D /\ y \in Int /\ x \in Int
    OBVIOUS
  <2>2. n - x <= n - y
    BY <1>3, <1>4, <2>1
  <2>3. QED
    BY <2>1, <2>2
<1>6. QED
  BY <1>5

\* The ids that are handed out after a crash are new to the database.
LEMMA IdAfterLastIs ==
  ASSUME Types, IdsInv
  PROVE  IdAfterLast \in Nat \ {0} /\ \A m \in records : m.id \in 1..(IdAfterLast - 1)
<1>1. CASE records = {}
  BY <1>1 DEF IdAfterLast, GeneratorStart
<1>2. CASE records # {}
  <2> DEFINE T == {m.id : m \in records}
  <2>1. T \subseteq Int /\ T # {} /\ \A y \in T : y <= nextId
    <3>1. \A m \in records : m.id \in Int /\ m.id <= nextId
      BY DEF IdsInv, Types
    <3>2. QED
      BY <1>2, <3>1
  <2>2. nextId \in Int
    BY DEF Types
  <2>3. \E x \in T : \A y \in T : y <= x
    <3> HIDE DEF T
    <3> QED
      BY <2>1, <2>2, GreatestExists
  <2>4. Greatest(T) \in T /\ \A y \in T : y <= Greatest(T)
    <3> HIDE DEF T
    <3> QED
      BY <2>3 DEF Greatest
  <2>5. IdAfterLast = Greatest(T) + 1
    BY <1>2 DEF IdAfterLast
  <2>6. \A m \in records : m.id \in T
    OBVIOUS
  <2>7. \A y \in T : y \in Nat /\ y >= 1
    BY DEF IdsInv, Types
  <2> HIDE DEF T
  <2>8. QED
    BY <2>4, <2>5, <2>6, <2>7
<1>3. QED
  BY <1>1, <1>2

\* The number that a run which comes back is replied to with.
LEMMA LastRecordIs ==
  ASSUME Types, IdsInv, IndexInv, NEW r \in Runs, RowsOf(r) # {}
  PROVE  \E m \in RowsOf(r) : LastRecordIndex(r) = m.id /\ \A n \in RowsOf(r) : n.idx <= m.idx
<1> DEFINE T == {m.idx : m \in RowsOf(r)}
<1>1. \A m \in RowsOf(r) : m \in records /\ m.idx \in Int /\ m.id \in Nat
  BY DEF RowsOf, Types, RecordRow
<1>2. T \subseteq Int /\ T # {}
  BY <1>1
<1>3. nextId \in Int /\ \A y \in T : y <= nextId
  <2>1. nextId \in Int
    BY DEF Types
  <2>2. \A m \in RowsOf(r) : m.idx < m.id /\ m.id <= nextId - 1
    BY <1>1, <2>1 DEF IdsInv, IndexInv
  <2>3. \A m \in RowsOf(r) : m.idx <= nextId
    BY <1>1, <2>1, <2>2
  <2>4. QED
    BY <2>1, <2>3
<1>4. \E x \in T : \A y \in T : y <= x
  <2> HIDE DEF T
  <2> QED
    BY <1>2, <1>3, GreatestExists
<1>5. \E m \in RowsOf(r) : \A n \in RowsOf(r) : n.idx <= m.idx
  BY <1>4
<1>6. QED
  BY <1>5 DEF LastRecordIndex

-----------------------------------------------------------------------------
\* What the record of a connection becomes in each of the steps that change one.
LEMMA ReplyConn ==
  ASSUME Types, NEW r \in Runs, Reply(r)
  PROVE  Becomes(r, Len(conns[r]), [conns[r][Len(conns[r])] EXCEPT !.phase = "open"])
BY LatestIs, SMTT(20) DEF Reply, Connected, Conn, Becomes

\* A connection that breaks before it is replied to,
LEMMA DropConn ==
  ASSUME Types, NEW r \in Runs, Drop(r)
  PROVE  Becomes(r, Len(conns[r]), [conns[r][Len(conns[r])] EXCEPT !.phase = "dropped"])
BY LatestIs, ZenonT(30) DEF Drop, Connected, Conn, Becomes

\* one that ends,
LEMMA EndedConn ==
  ASSUME NEW c \in Conn, NEW normal \in BOOLEAN
  PROVE  Ended(c, normal) \in Conn
BY DEF Conn, Ended

\* which changes nothing of what it holds,
LEMMA EndedIs ==
  ASSUME NEW c \in Conn, NEW normal \in BOOLEAN, NEW d, d = Ended(c, normal)
  PROVE  /\ d.phase = "ended" /\ (d.normal <=> normal)
         /\ (d.reconnect <=> c.reconnect)
         /\ d.start = c.start /\ d.task = c.task /\ d.queue = c.queue /\ d.todo = c.todo
         /\ d.record = c.record /\ d.row = c.row /\ d.created = c.created
BY DEF Conn, Ended

\* because the client stops
LEMMA StopConn ==
  ASSUME Types, NEW r \in Runs, Stop(r)
  PROVE  Becomes(r, Len(conns[r]), Ended(conns[r][Len(conns[r])], TRUE))
BY LatestIs, EndedConn DEF Stop, Connected, Becomes

\* or because the server notices that it broke,
LEMMA NoticeConn ==
  ASSUME Types, NEW r \in Runs, Notice(r)
  PROVE  Becomes(r, Len(conns[r]), Ended(conns[r][Len(conns[r])], FALSE))
BY LatestIs, EndedConn DEF Notice, Connected, Becomes

\* The record that the connection of r passes on next.
NextRow(r) == LET m == Script(r)[next[r]] IN Row(nextId, r, next[r], m.type, m.span)

\* The connection of r when it has.
Passing(r) ==
  LET m == Script(r)[next[r]]
  IN [conns[r][Len(conns[r])] EXCEPT
        !.queue = Append(@, NextRow(r)),
        !.running = IF m.type = "Create" THEN @ \cup {m.span} ELSE @]

\* one that passes a record on, or ends as its task is gone,
LEMMA RecordConn ==
  ASSUME Types, Order, NEW r \in Runs, Record(r)
  PROVE  /\ Script(r)[next[r]] \in Message /\ NextRow(r) \in RecordRow
         /\ \/ /\ Becomes(r, Len(conns[r]), Ended(conns[r][Len(conns[r])], FALSE))
               /\ alive' = [alive EXCEPT ![r] = FALSE] /\ link' = [link EXCEPT ![r] = "down"]
               /\ next' = next
            \/ /\ Becomes(r, Len(conns[r]), Passing(r))
               /\ next' = [next EXCEPT ![r] = @ + 1] /\ alive' = alive /\ link' = link
               /\ conns[r][Len(conns[r])].task # "rejected"
<1> DEFINE k == Len(conns[r])
           m == Script(r)[next[r]]
           c == conns[r][k]
<1>1. k \in DOMAIN conns[r] /\ c \in Conn /\ Latest(r) = c
      /\ \A d : SetLatest(r, d) = SetConn(r, k, d)
  BY LatestIs DEF Record, Connected
<1>2. next[r] # 0
  BY <1>1 DEF Order, RunOrder, ConnOrder
<1>3. next[r] \in 1..Len(Script(r)) /\ Script(r) \in Seq(Message)
  BY <1>2, ConstantsAssumption DEF Record, Script, Types
<1>4. m \in Message
  BY <1>3
<1>5. NextRow(r) \in RecordRow
  BY <1>3, <1>4 DEF NextRow, Row, RecordRow, Message, RowType, MessageType, Types
<1>6. [c EXCEPT !.queue = Append(@, NextRow(r)),
                !.running = IF m.type = "Create" THEN @ \cup {m.span} ELSE @] \in Conn
  <2>1. c.queue \in Seq(RecordRow) /\ c.running \in SUBSET Nat
    BY <1>1 DEF Conn
  <2>2. Append(c.queue, NextRow(r)) \in Seq(RecordRow)
    BY <2>1, <1>5
  <2>3. (IF m.type = "Create" THEN c.running \cup {m.span} ELSE c.running) \in SUBSET Nat
    BY <2>1, <1>4 DEF Message
  <2>4. QED
    BY <1>1, <2>2, <2>3 DEF Conn
<1>7. Ended(c, FALSE) \in Conn
  BY <1>1, EndedConn
<1>8. QED
  BY <1>1, <1>4, <1>5, <1>6, <1>7 DEF Record, NextRow, Becomes, Passing

\* and a new one.
LEMMA ConnectConn ==
  ASSUME Types, NEW r \in Runs, Connect(r)
  PROVE  \E c \in Conn :
           /\ conns' = [conns EXCEPT ![r] = Append(@, c)]
           /\ c.phase = "new" /\ c.start = nextId /\ (c.reconnect <=> next[r] # 0)
           /\ ~c.normal /\ c.task = "none" /\ c.queue = <<>> /\ c.todo = {}
           /\ \A x \in DOMAIN c.created : c.created[x] = 0
<1> DEFINE reconnect == next[r] # 0
           spans == IF reconnect THEN RunningSpans(r) ELSE {}
           c == [phase |-> "new", start |-> nextId, reconnect |-> reconnect, normal |-> FALSE,
                 running |-> spans, task |-> "none", queue |-> <<>>,
                 created |-> [s \in spans |-> 0], record |-> NoRow, row |-> 0, todo |-> {}]
<1>1. conns' = [conns EXCEPT ![r] = Append(@, c)]
  BY DEF Connect
<1>2. spans \in SUBSET Nat
  BY DEF RunningSpans, Types, RecordRow
<1>3. [s \in spans |-> 0] \in SpanIds
  <2>1. [s \in spans |-> 0] \in [spans -> Nat]
    OBVIOUS
  <2>2. QED
    BY <1>2, <2>1 DEF SpanIds
<1>4. NoRow \in RecordRow
  BY DEF NoRow, Row, RecordRow, RowType
<1>5. <<>> \in Seq(RecordRow)
  BY EmptySeq
<1>6. c \in Conn
  <2> HIDE DEF spans
  <2> QED
    BY <1>2, <1>3, <1>4, <1>5 DEF Conn, Types
<1>7. c.created = [s \in spans |-> 0]
  OBVIOUS
<1>8. QED
  <2>1. \A x \in DOMAIN c.created : c.created[x] = 0
    BY <1>7
  <2>2. /\ c.phase = "new" /\ c.start = nextId /\ (c.reconnect <=> next[r] # 0)
        /\ ~c.normal /\ c.task = "none" /\ c.queue = <<>> /\ c.todo = {}
    OBVIOUS
  <2> HIDE DEF c
  <2>3. QED
    BY <1>1, <1>6, <2>1, <2>2

\* Whether there is a task for a connection.
Known(r, k) == ~conns[r][k].reconnect \/ appRun[r] # "none"

\* A connection that the registry has got the AppRun of.
Handled(r, k) ==
  [conns[r][k] EXCEPT !.task = IF Known(r, k) THEN "running" ELSE "rejected",
                      !.queue = IF Known(r, k) THEN @ ELSE <<>>]

\* It gets a task, which runs or is rejected at once.
LEMMA HandleAppRunConn ==
  ASSUME Types, NEW r \in Runs, NEW k \in DOMAIN conns[r], HandleAppRun(r, k)
  PROVE  Becomes(r, k, Handled(r, k))
<1>1. conns[r][k] \in Conn
  BY ConnIs
<1>2. Handled(r, k) \in Conn
  BY <1>1, EmptySeq DEF Conn, Handled
<1>3. QED
  BY <1>1, <1>2 DEF HandleAppRun, Known, Handled, Becomes

\* The ids of the rows of spans, with one more and with one less.
LEMMA SpanIdsOf ==
  ASSUME NEW f \in SpanIds, NEW x \in Nat, NEW n \in Nat
  PROVE  /\ [s \in DOMAIN f \cup {x} |-> IF s = x THEN n ELSE f[s]] \in SpanIds
         /\ [s \in DOMAIN f \ {x} |-> f[s]] \in SpanIds
<1>1. PICK D \in SUBSET Nat : f \in [D -> Nat]
  BY DEF SpanIds
<1>2. DOMAIN f = D /\ \A s \in D : f[s] \in Nat
  BY <1>1
<1>3. [s \in D \cup {x} |-> IF s = x THEN n ELSE f[s]] \in [D \cup {x} -> Nat]
  <2> SUFFICES \A s \in D \cup {x} : (IF s = x THEN n ELSE f[s]) \in Nat
    OBVIOUS
  <2> QED
    BY <1>2
<1>4. [s \in D \ {x} |-> f[s]] \in [D \ {x} -> Nat]
  BY <1>2
<1>5. D \cup {x} \in SUBSET Nat /\ D \ {x} \in SUBSET Nat
  OBVIOUS
<1>6. QED
  BY <1>2, <1>3, <1>4, <1>5 DEF SpanIds

\* A connection d that is c after its task took the record m in hand.
InHandOf(c, m, d) ==
  /\ d.phase = c.phase /\ d.task = c.task /\ (d.normal <=> c.normal)
  /\ (d.reconnect <=> c.reconnect) /\ d.start = c.start
  /\ d.queue = Tail(c.queue) /\ d.record = m /\ d.todo = {"record", "span"}

\* The ids of rows with one for the span that begins ...
RowMade(c, m, d) ==
  /\ rowIds' = rowIds + 1 /\ d.row = rowIds + 1
  /\ d.created = [s \in DOMAIN c.created \cup {m.span} |->
                    IF s = m.span THEN rowIds + 1 ELSE c.created[s]]

\* ... and without that of the span that ends.
RowUsed(c, m, d) ==
  /\ rowIds' = rowIds
  /\ d.row = IF m.type = "Close" /\ m.span \in DOMAIN c.created THEN c.created[m.span] ELSE 0
  /\ d.created = IF m.type = "Close" THEN [s \in DOMAIN c.created \ {m.span} |-> c.created[s]]
                 ELSE c.created

\* The connection c with the queue q, after its task took m in hand, for the span's
\* row n and with the ids f.
Taken(c, q, m, n, f) ==
  [c EXCEPT !.queue = q, !.record = m, !.row = n, !.todo = {"record", "span"}, !.created = f]

\* A task that takes a record in hand.
LEMMA TakeConn ==
  ASSUME Types, NEW r \in Runs, NEW k \in DOMAIN conns[r], Take(r, k),
         NEW c, c = conns[r][k], NEW m, m = Head(c.queue)
  PROVE  /\ c \in Conn /\ m \in RecordRow /\ c.queue \in Seq(RecordRow) /\ c.queue # <<>>
         /\ \E d \in Conn : /\ Becomes(r, k, d) /\ InHandOf(c, m, d)
                            /\ IF m.type = "Create" THEN RowMade(c, m, d) ELSE RowUsed(c, m, d)
<1>1. c \in Conn /\ k \in DOMAIN conns[r]
  BY ConnIs
<1>2. c.queue \in Seq(RecordRow) /\ c.queue # <<>>
  BY <1>1 DEF Conn, Take
<1>3. m \in RecordRow /\ Tail(c.queue) \in Seq(RecordRow)
  BY <1>2
<1>4. c.created \in SpanIds
  BY <1>1 DEF Conn
<1>5. m.span \in Nat /\ rowIds \in Nat /\ rowIds + 1 \in Nat
  BY <1>3, SMTT(20) DEF RecordRow, Types
<1>6. /\ [s \in DOMAIN c.created \cup {m.span} |->
            IF s = m.span THEN rowIds + 1 ELSE c.created[s]] \in SpanIds
      /\ [s \in DOMAIN c.created \ {m.span} |-> c.created[s]] \in SpanIds
  BY <1>4, <1>5, SpanIdsOf, ZenonT(30)
<1>7. PICK q \in Seq(RecordRow) : q = Tail(c.queue)
  BY <1>3
<1>8. CASE m.type = "Create"
  <2>1. PICK f \in SpanIds : f = [s \in DOMAIN c.created \cup {m.span} |->
                                    IF s = m.span THEN rowIds + 1 ELSE c.created[s]]
    BY <1>6
  <2>2. PICK n \in Nat : n = rowIds + 1
    BY <1>5
  <2>3. PICK d : d = Taken(c, q, m, n, f)
    OBVIOUS
  <2>4. d \in Conn /\ InHandOf(c, m, d) /\ d.row = n /\ d.created = f
    <3>1. f \in SpanIds /\ n \in Nat
      BY <2>1, <2>2
    <3>2. QED
      BY <1>1, <1>3, <1>7, <2>3, <3>1 DEF Taken, InHandOf, Conn
  <2>5. conns' = SetConn(r, k, d) /\ rowIds' = rowIds + 1
    BY <1>7, <1>8, <2>1, <2>2, <2>3 DEF Take, Taken
  <2>6. Becomes(r, k, d)
    BY <1>1, <2>4, <2>5 DEF Becomes
  <2>7. RowMade(c, m, d)
    BY <2>1, <2>2, <2>4, <2>5 DEF RowMade
  <2>8. QED
    BY <1>1, <1>2, <1>3, <1>8, <2>4, <2>6, <2>7
<1>9. CASE m.type # "Create"
  <2>1. PICK f \in SpanIds :
          f = IF m.type = "Close" THEN [s \in DOMAIN c.created \ {m.span} |-> c.created[s]]
              ELSE c.created
    BY <1>4, <1>6
  <2>2. PICK n \in Nat :
          n = IF m.type = "Close" /\ m.span \in DOMAIN c.created THEN c.created[m.span] ELSE 0
    <3>1. m.span \in DOMAIN c.created => c.created[m.span] \in Nat
      <4>1. PICK D : c.created \in [D -> Nat]
        BY <1>4 DEF SpanIds
      <4>2. QED
        BY <4>1
    <3>2. QED
      BY <3>1
  <2>3. PICK d : d = Taken(c, q, m, n, f)
    OBVIOUS
  <2>4. d \in Conn /\ InHandOf(c, m, d) /\ d.row = n /\ d.created = f
    <3>1. f \in SpanIds /\ n \in Nat
      BY <2>1, <2>2
    <3>2. QED
      BY <1>1, <1>3, <1>7, <2>3, <3>1 DEF Taken, InHandOf, Conn
  <2>5. conns' = SetConn(r, k, d) /\ rowIds' = rowIds
    BY <1>7, <1>9, <2>1, <2>2, <2>3 DEF Take, Taken
  <2>6. Becomes(r, k, d)
    BY <1>1, <2>4, <2>5 DEF Becomes
  <2>7. RowUsed(c, m, d)
    BY <2>1, <2>2, <2>4, <2>5 DEF RowUsed
  <2>8. QED
    BY <1>1, <1>2, <1>3, <1>9, <2>4, <2>6, <2>7
<1>10. QED
  BY <1>8, <1>9

\* A connection one of whose statements was run.
Done(r, k, work) == [conns[r][k] EXCEPT !.todo = @ \ {work}]

\* A task that ran a statement.
LEMMA DoneConn ==
  ASSUME Types, NEW r \in Runs, NEW k \in DOMAIN conns[r], NEW work,
         conns' = SetConn(r, k, [conns[r][k] EXCEPT !.todo = @ \ {work}])
  PROVE  Becomes(r, k, Done(r, k, work))
<1>1. conns[r][k] \in Conn
  BY ConnIs
<1>2. QED
  BY <1>1 DEF Conn, Becomes, Done

-----------------------------------------------------------------------------
\* Initially the variables have their types.
LEMMA TypesInit == Init => Types
<1> SUFFICES ASSUME Init PROVE Types
  OBVIOUS
<1>1. <<>> \in Seq(Conn)
  BY EmptySeq
<1>2. QED
  BY <1>1 DEF Init, InitialServer, Types, Applications, GeneratorStart

\* The row of a span with another end or mark.
LEMMA SpanRowOf ==
  ASSUME NEW s \in SpanRow, NEW x
  PROVE  /\ [s EXCEPT !.closed = @ \/ x] \in SpanRow
         /\ [s EXCEPT !.marked = @ \/ x] \in SpanRow
BY DEF SpanRow

\* Each step keeps to the types.
LEMMA TypesStep ==
  ASSUME Types, Order, IdsInv, IndexInv, Next
  PROVE  Types'
<1> USE DEF clientVars, dbVars, initVars, historyVars
<1>1. ASSUME NEW r \in Runs, Connect(r)
      PROVE  Types'
  <2>1. conns' \in [Runs -> Seq(Conn)]
    BY <1>1, ConnectConn, ConnAdded
  <2>2. QED
    BY <1>1, <2>1 DEF Connect, Types
<1>2. ASSUME NEW r \in Runs, Reply(r)
      PROVE  Types'
  <2>1. conns' \in [Runs -> Seq(Conn)]
    BY <1>2, ReplyConn, ConnChanged
  <2>2. ASSUME Latest(r).reconnect
        PROVE  ResumeAfter(r) \in Nat
    <3>1. RowsOf(r) # {}
      BY <1>2, <2>2 DEF Reply
    <3>2. PICK m \in RowsOf(r) : LastRecordIndex(r) = m.id
      BY <3>1, LastRecordIs
    <3>3. LastRecordIndex(r) \in Nat
      BY <3>2 DEF RowsOf, Types, RecordRow
    <3>4. QED
      BY <3>3 DEF ResumeAfter
  <2>3. next' \in [Runs -> Nat]
    BY <1>2, <2>2 DEF Reply, Types
  <2>4. QED
    BY <1>2, <2>1, <2>3 DEF Reply, Types
<1>3. ASSUME NEW r \in Runs, Drop(r)
      PROVE  Types'
  <2>1. conns' \in [Runs -> Seq(Conn)]
    BY <1>3, DropConn, ConnChanged
  <2>2. QED
    BY <1>3, <2>1 DEF Drop, Types
<1>4. ASSUME NEW r \in Runs, LookUp(r)
      PROVE  Types'
  <2>1. cached' \in [Runs -> Nat]
    <3>1. defs[App(r)] \in Nat
      BY DEF App, Applications, Types
    <3>2. CASE cached' = cached
      BY <3>2 DEF Types
    <3>3. CASE \E d \in 1..defs[App(r)] : cached' = [cached EXCEPT ![r] = d]
      BY <3>1, <3>3 DEF Types
    <3>4. QED
      BY <1>4, <3>2, <3>3 DEF LookUp
  <2>2. looking' \subseteq Runs
    BY <1>4 DEF LookUp, Types
  <2>3. QED
    BY <1>4, <2>1, <2>2 DEF LookUp, Types
<1>5. ASSUME NEW r \in Runs, LookUpInserts(r)
      PROVE  Types'
  <2>1. App(r) \in Applications
    BY DEF App, Applications
  <2>2. defs' \in [Applications -> Nat]
    BY <1>5, <2>1 DEF LookUpInserts, Types
  <2>3. cached' \in [Runs -> Nat]
    BY <1>5, <2>1, <2>2 DEF LookUpInserts, Types
  <2>4. QED
    BY <1>5, <2>2, <2>3 DEF LookUpInserts, Types
<1>6. ASSUME NEW r \in Runs, Record(r)
      PROVE  Types'
  <2>1. conns' \in [Runs -> Seq(Conn)]
    BY <1>6, RecordConn, ConnChanged
  <2>2. alive' \in [Runs -> BOOLEAN] /\ link' \in [Runs -> {"down", "waiting", "up"}]
          /\ next' \in [Runs -> Nat]
    <3>1. CASE alive' = [alive EXCEPT ![r] = FALSE] /\ link' = [link EXCEPT ![r] = "down"]
               /\ next' = next
      BY <3>1 DEF Types
    <3>2. CASE next' = [next EXCEPT ![r] = @ + 1] /\ alive' = alive /\ link' = link
      BY <3>2 DEF Types
    <3>3. QED
      BY <1>6, <3>1, <3>2, RecordConn
  <2>3. QED
    BY <1>6, <2>1, <2>2 DEF Record, Types
<1>7. ASSUME NEW r \in Runs, Stop(r)
      PROVE  Types'
  <2>1. conns' \in [Runs -> Seq(Conn)]
    BY <1>7, StopConn, ConnChanged
  <2>2. nextId' \in Nat \ {0}
    BY <1>7 DEF Stop, Types
  <2>3. QED
    BY <1>7, <2>1, <2>2 DEF Stop, Types
<1>8. ASSUME NEW r \in Runs, Break(r)
      PROVE  Types'
  BY <1>8 DEF Break, Types
<1>9. ASSUME NEW r \in Runs, Notice(r)
      PROVE  Types'
  <2>1. conns' \in [Runs -> Seq(Conn)]
    BY <1>9, NoticeConn, ConnChanged
  <2>2. nextId' \in Nat \ {0}
    BY <1>9 DEF Notice, Types
  <2>3. QED
    BY <1>9, <2>1, <2>2 DEF Notice, Types
<1>10. ASSUME NEW r \in Runs, NEW k \in DOMAIN conns[r], HandleAppRun(r, k)
       PROVE  Types'
  <2>1. conns' \in [Runs -> Seq(Conn)]
    BY <1>10, HandleAppRunConn, ConnChanged
  <2>2. conns[r][k].start \in Nat
    BY ConnIs
  <2>3. records' \subseteq RecordRow
    BY <1>10, <2>2 DEF HandleAppRun, Types, Row, RecordRow, RowType
  <2>4. k \in Nat \ {0}
    BY ConnIs
  <2>5. QED
    <3>1. registry' \in [Runs -> [conn : Nat \ {0}, at : {"AppRun", "AppStop", "task"}]]
      BY <1>10, <2>4 DEF HandleAppRun, Goes, Types
    <3>2. appRun' \in [Runs -> {"none", "open", "stopped", "exception"}]
            /\ nextId' \in Nat \ {0}
      <4>1. CASE conns[r][k].reconnect
        BY <4>1, <1>10 DEF HandleAppRun, Types
      <4>2. CASE ~conns[r][k].reconnect
        BY <4>2, <1>10 DEF HandleAppRun, Types
      <4>3. QED
        BY <4>1, <4>2
    <3>3. UNCHANGED <<clientVars, spanRuns, defs, rowIds, cached, looking, initVars>>
      BY <1>10 DEF HandleAppRun
    <3>4. QED
      BY <2>1, <2>3, <3>1, <3>2, <3>3 DEF Types
<1>11. ASSUME NEW r \in Runs, NEW k \in DOMAIN conns[r], HandleAppStop(r, k)
       PROVE  Types'
  <2>1. k \in Nat \ {0}
    BY ConnIs
  <2>2. QED
    BY <1>11, <2>1 DEF HandleAppStop, Goes, Types
<1>12. ASSUME NEW r \in Runs, NEW k \in DOMAIN conns[r], NextConnection(r, k)
       PROVE  Types'
  <2>1. k + 1 \in Nat \ {0}
    BY ConnIs
  <2>2. QED
    BY <1>12, <2>1 DEF NextConnection, Goes, Types
<1>13. ASSUME NEW r \in Runs, NEW k \in DOMAIN conns[r], Take(r, k)
       PROVE  Types'
  <2>1. conns' \in [Runs -> Seq(Conn)] /\ rowIds' \in Nat
    <3>1. \E c : Becomes(r, k, c)
      BY <1>13, TakeConn
    <3>2. rowIds' \in Nat
      <4>1. rowIds' = rowIds + 1 \/ rowIds' = rowIds
        BY <1>13 DEF Take
      <4>2. QED
        BY <4>1 DEF Types
    <3>3. QED
      BY <3>1, <3>2, ConnChanged
  <2>2. QED
    BY <1>13, <2>1 DEF Take, Types
<1>14. ASSUME NEW r \in Runs, NEW k \in DOMAIN conns[r], StoreRecord(r, k)
       PROVE  Types'
  <2>1. conns' \in [Runs -> Seq(Conn)]
    BY <1>14, DoneConn, ConnChanged DEF StoreRecord
  <2>2. conns[r][k].record \in RecordRow
    BY ConnIs
  <2>3. QED
    BY <1>14, <2>1, <2>2 DEF StoreRecord, Types
<1>15. ASSUME NEW r \in Runs, NEW k \in DOMAIN conns[r], RunStatement(r, k)
       PROVE  Types'
  <2>1. conns' \in [Runs -> Seq(Conn)]
    BY <1>15, DoneConn, ConnChanged DEF RunStatement
  <2>2. conns[r][k].record \in RecordRow /\ conns[r][k].row \in Nat
    BY ConnIs
  <2>3. spanRuns' \subseteq SpanRow
    <3>1. conns[r][k].record.type = "Create" =>
            spanRuns' = spanRuns \cup {[row |-> conns[r][k].row, run |-> r,
                                       span |-> conns[r][k].record.span,
                                       rec |-> conns[r][k].record.id,
                                       closed |-> FALSE, marked |-> FALSE]}
      BY <1>15 DEF RunStatement, RecordIdOf
    <3>2. conns[r][k].record.type = "Close" =>
            spanRuns' = {[s EXCEPT !.closed = @ \/ s.row = conns[r][k].row] : s \in spanRuns}
      BY <1>15 DEF RunStatement
    <3>3. conns[r][k].record.type \notin {"Create", "Close"} => spanRuns' = spanRuns
      BY <1>15 DEF RunStatement
    <3>4. spanRuns \subseteq SpanRow
      BY DEF Types
    <3>5. [row |-> conns[r][k].row, run |-> r, span |-> conns[r][k].record.span,
           rec |-> conns[r][k].record.id, closed |-> FALSE, marked |-> FALSE] \in SpanRow
      BY <2>2 DEF SpanRow, RecordRow
    <3>6. \A s \in spanRuns : [s EXCEPT !.closed = @ \/ s.row = conns[r][k].row] \in SpanRow
      BY <3>4, SpanRowOf
    <3>7. QED
      <4>1. CASE conns[r][k].record.type = "Create"
        BY <4>1, <3>1, <3>4, <3>5
      <4>2. CASE conns[r][k].record.type = "Close"
        <5> SUFFICES ASSUME NEW t \in spanRuns' PROVE t \in SpanRow
          OBVIOUS
        <5> QED
          BY <4>2, <3>2, <3>6
      <4>3. CASE conns[r][k].record.type \notin {"Create", "Close"}
        BY <4>3, <3>3, <3>4
      <4>4. QED
        BY <4>1, <4>2, <4>3
  <2>4. QED
    BY <1>15, <2>1, <2>3 DEF RunStatement, Types
<1>16. CASE InitFinds
  BY <1>16 DEF InitFinds, OpenRuns, Types
<1>17. CASE InitLooksAgain
  BY <1>17 DEF InitLooksAgain, FoundAndOpen, Types
<1>18. ASSUME NEW r \in Runs, InitMarksRun(r)
       PROVE  Types'
  BY <1>18 DEF InitMarksRun, Types
<1>19. CASE InitMarksSpans
  <2>1. spanRuns' \subseteq SpanRow
    <3>1. \A s \in spanRuns : [s EXCEPT !.marked = @ \/ (s.run \in marked /\ ~s.closed)] \in SpanRow
      BY SpanRowOf DEF Types
    <3>2. QED
      BY <1>19, <3>1 DEF InitMarksSpans, MarkSpans
  <2>2. QED
    BY <1>19, <2>1 DEF InitMarksSpans, Types
<1>20. CASE Crash
  <2>1. IdAfterLast \in Nat \ {0}
    BY IdAfterLastIs
  <2>2. conns' \in [Runs -> Seq(Conn)]
    BY <1>20, EmptySeq DEF Crash
  <2>3. QED
    BY <1>20, <2>1, <2>2 DEF Crash, Types
<1>21. QED
  BY <1>1, <1>2, <1>3, <1>4, <1>5, <1>6, <1>7, <1>8, <1>9, <1>10, <1>11, <1>12, <1>13, <1>14,
     <1>15, <1>16, <1>17, <1>18, <1>19, <1>20
     DEF Next, Client, Handler, Server, InitTask

-----------------------------------------------------------------------------
\* Initially there is no connection.
LEMMA OrderInit == Init => Order
<1> SUFFICES ASSUME Init PROVE Order
  OBVIOUS
<1>1. \A r \in Runs : conns[r] = <<>> /\ registry[r] = [conn |-> 1, at |-> "AppRun"]
        /\ link[r] = "down"
  BY DEF Init, InitialServer
<1>2. Len(<<>>) = 0 /\ DOMAIN <<>> = {} /\ found = {}
  BY DEF Init, InitialServer
<1>3. QED
  BY <1>1, <1>2 DEF Order, RunOrder

\* A run that nothing happens to.
LEMMA RunOrderSame ==
  ASSUME NEW q \in Runs, RunOrder(q), conns'[q] = conns[q], registry'[q] = registry[q],
         link'[q] = link[q], next'[q] = next[q], alive'[q] = alive[q], appRun'[q] = appRun[q]
  PROVE  RunOrder(q)'
BY DEF RunOrder, ConnOrder, Waits, Latest

\* Of a run one connection of which becomes c, the registry being where it was.
LEMMA RunOrderBecomes ==
  ASSUME Types, NEW r \in Runs, NEW k, NEW c, Becomes(r, k, c), RunOrder(r),
         registry'[r] = registry[r], next'[r] # 0,
         alive'[r] => alive[r], appRun'[r] = appRun[r],
         link'[r] = "up" => IF Len(conns[r]) = k THEN c.phase = "open" ELSE link[r] = "up",
         \A l \in DOMAIN conns[r] : l # k =>
           /\ conns[r][l].phase = "new" => link'[r] = "waiting"
           /\ conns[r][l].phase = "open" => link'[r] # "waiting",
         ConnOrder(r, k)'
  PROVE  RunOrder(r)'
<1>1. /\ conns'[r][k] = c /\ Len(conns'[r]) = Len(conns[r]) /\ DOMAIN conns'[r] = DOMAIN conns[r]
      /\ \A l \in DOMAIN conns[r] : l # k => conns'[r][l] = conns[r][l]
  BY ConnChanged
<1>2. conns[r] \in Seq(Conn) /\ k \in 1..Len(conns[r]) /\ DOMAIN conns[r] = 1..Len(conns[r])
        /\ Len(conns[r]) \in Nat
  BY ConnIs DEF Becomes
<1>3. \A l \in DOMAIN conns[r] : l # k => ConnOrder(r, l)'
  BY <1>1 DEF RunOrder, ConnOrder, Waits
<1>4. link'[r] = "up" => conns'[r] # <<>> /\ conns'[r][Len(conns'[r])].phase = "open"
  BY <1>1, <1>2, ConnChanged DEF RunOrder, Latest
<1>5. QED
  BY <1>1, <1>3, <1>4 DEF RunOrder, Latest

\* A step that changes nothing but the n-th connection of r, its latest.
LEMMA RunOrderOnly ==
  ASSUME Types, Order, NEW r \in Runs, NEW n, n = Len(conns[r]), NEW c, Becomes(r, n, c),
         registry' = registry, next'[r] # 0, appRun' = appRun,
         alive'[r] => alive[r], link'[r] = "up" => c.phase = "open",
         ConnOrder(r, n)',
         \A q \in Runs \ {r} : link'[q] = link[q] /\ next'[q] = next[q] /\ alive'[q] = alive[q]
  PROVE  \A q \in Runs : RunOrder(q)'
<1>1. RunOrder(r) /\ n \in DOMAIN conns[r] /\ n \in Nat
  BY ConnIs DEF Becomes, Order
<1>2. \A l \in DOMAIN conns[r] : l # n => conns[r][l].phase \in {"ended", "dropped"}
  <2>1. \A l \in DOMAIN conns[r] : l \in 1..n
    BY ConnIs
  <2>2. QED
    BY <1>1, <2>1 DEF RunOrder, ConnOrder
<1>3. RunOrder(r)'
  BY <1>1, <1>2, RunOrderBecomes
<1>4. ASSUME NEW q \in Runs \ {r}
      PROVE  RunOrder(q)'
  <2>1. conns'[q] = conns[q]
    BY DEF Becomes, SetConn, Types
  <2>2. QED
    BY <2>1, RunOrderSame DEF Order
<1>5. QED
  BY <1>3, <1>4

\* A task that does some of its work.
LEMMA RunOrderWork ==
  ASSUME Types, Order, NEW r \in Runs, NEW k \in DOMAIN conns[r], NEW c, Becomes(r, k, c),
         conns[r][k].task = "running", conns[r][k].queue # <<>> \/ conns[r][k].todo # {},
         c.phase = conns[r][k].phase, c.task = conns[r][k].task,
         (c.normal <=> conns[r][k].normal), (c.reconnect <=> conns[r][k].reconnect),
         UNCHANGED <<registry, link, next, alive, appRun>>
  PROVE  \A q \in Runs : RunOrder(q)'
<1>1. RunOrder(r) /\ ConnOrder(r, k)
  BY DEF Order, RunOrder
<1>2. conns'[r][k] = c /\ Len(conns'[r]) = Len(conns[r])
  BY ConnChanged
<1>3. ConnOrder(r, k)'
  BY <1>1, <1>2 DEF ConnOrder, Waits
<1>4. link[r] = "up" => (Len(conns[r]) = k => c.phase = "open")
  BY <1>1 DEF RunOrder, Latest
<1>5. next[r] # 0
  BY <1>1 DEF ConnOrder
<1>6. \A l \in DOMAIN conns[r] : /\ conns[r][l].phase = "new" => link[r] = "waiting"
                                 /\ conns[r][l].phase = "open" => link[r] # "waiting"
  BY <1>1 DEF RunOrder, ConnOrder
<1>7. RunOrder(r)'
  <2>1. /\ registry'[r] = registry[r] /\ link'[r] = link[r] /\ next'[r] # 0
        /\ (alive'[r] => alive[r]) /\ appRun'[r] = appRun[r]
    BY <1>5
  <2>2. link'[r] = "up" => IF Len(conns[r]) = k THEN c.phase = "open" ELSE link[r] = "up"
    BY <1>4, <2>1
  <2>3. \A l \in DOMAIN conns[r] : l # k =>
          /\ conns[r][l].phase = "new" => link'[r] = "waiting"
          /\ conns[r][l].phase = "open" => link'[r] # "waiting"
    BY <1>6, <2>1
  <2>4. QED
    BY <1>1, <1>3, <2>1, <2>2, <2>3, RunOrderBecomes
<1>8. ASSUME NEW q \in Runs \ {r}
      PROVE  RunOrder(q)'
  <2>1. conns'[q] = conns[q]
    BY DEF Becomes, SetConn, Types
  <2>2. QED
    BY <2>1, RunOrderSame DEF Order
<1>9. QED
  BY <1>7, <1>8

\* A run that is known stays known.
LEMMA AppRunStays ==
  ASSUME Types, Next
  PROVE  \A r \in Runs : appRun[r] # "none" => appRun'[r] # "none"
<1> USE DEF clientVars, dbVars, initVars, historyVars
<1>1. ASSUME NEW q \in Runs, Client(q) \/ Handler(q)
      PROVE  appRun' = appRun
  BY <1>1 DEF Client, Handler, Connect, Record, Stop, Break, Reply, Drop, LookUp, LookUpInserts,
              Notice
<1>2. ASSUME NEW q \in Runs, NEW k, HandleAppRun(q, k) \/ HandleAppStop(q, k)
      PROVE  \E x \in {"none", "open", "stopped", "exception"} :
               /\ appRun' = [appRun EXCEPT ![q] = x]
               /\ appRun[q] # "none" => x # "none"
  <2>1. appRun[q] \in {"none", "open", "stopped", "exception"}
          /\ appRun = [appRun EXCEPT ![q] = appRun[q]]
    BY DEF Types
  <2>2. CASE HandleAppRun(q, k)
    BY <2>1, <2>2 DEF HandleAppRun
  <2>3. CASE HandleAppStop(q, k)
    BY <2>1, <2>3 DEF HandleAppStop
  <2>4. QED
    BY <1>2, <2>2, <2>3
<1>3. ASSUME NEW q \in Runs, NEW k,
             NextConnection(q, k) \/ Take(q, k) \/ StoreRecord(q, k) \/ RunStatement(q, k)
      PROVE  appRun' = appRun
  BY <1>3 DEF NextConnection, Take, StoreRecord, RunStatement
<1>4. CASE InitTask
  BY <1>4 DEF InitTask, InitFinds, InitLooksAgain, InitMarksRun, InitMarksSpans, Types
<1>5. CASE Crash
  BY <1>5 DEF Crash
<1>6. ASSUME NEW q \in Runs, Server(q)
      PROVE  \A r \in Runs : appRun[r] # "none" => appRun'[r] # "none"
  <2>1. appRun' = appRun \/ \E x : appRun' = [appRun EXCEPT ![q] = x]
                                      /\ (appRun[q] # "none" => x # "none")
    BY <1>2, <1>3, <1>6 DEF Server
  <2>2. QED
    BY <2>1 DEF Types
<1>7. QED
  BY <1>1, <1>4, <1>5, <1>6 DEF Next

\* The client that is replied to has a record to go on with.
LEMMA ReplyNext ==
  ASSUME Types, Order, IdsInv, IndexInv, NEW r \in Runs, Reply(r)
  PROVE  next'[r] # 0
<1>1. CASE Latest(r).reconnect
  <2>1. PICK m \in RowsOf(r) : LastRecordIndex(r) = m.id
    BY <1>1, LastRecordIs DEF Reply
  <2>2. m.id \in Nat
    BY DEF RowsOf, Types, RecordRow
  <2>3. next'[r] = m.id + 1
    BY <1>1, <2>1 DEF Reply, ResumeAfter, Types
  <2>4. QED
    BY <2>2, <2>3
<1>2. CASE ~Latest(r).reconnect
  <2>1. next'[r] = next[r]
    BY <1>2 DEF Reply, Types
  <2>2. ConnOrder(r, Len(conns[r]))
    BY LatestIs DEF Reply, Connected, Order, RunOrder
  <2>3. QED
    BY <2>1, <2>2 DEF ConnOrder
<1>3. QED
  BY <1>1, <1>2

\* Each step keeps the order of a run's connections.
LEMMA OrderStep ==
  ASSUME Types, Order, IdsInv, IndexInv, Next
  PROVE  Order'
<1> USE DEF clientVars, dbVars, initVars, historyVars
<1>1. \A r \in Runs : RunOrder(r)
  BY DEF Order
<1>2. ASSUME NEW r \in Runs, Connect(r)
      PROVE  \A q \in Runs : RunOrder(q)'
  <2>1. PICK c \in Conn : /\ conns' = [conns EXCEPT ![r] = Append(@, c)]
                          /\ c.phase = "new" /\ (c.reconnect <=> next[r] # 0)
                          /\ ~c.normal /\ c.task = "none" /\ c.queue = <<>> /\ c.todo = {}
    BY <1>2, ConnectConn
  <2> PICK n : n = Len(conns[r])
    OBVIOUS
  <2>2. /\ Len(conns'[r]) = n + 1 /\ DOMAIN conns'[r] = DOMAIN conns[r] \cup {n + 1}
        /\ conns'[r][n + 1] = c /\ \A k \in DOMAIN conns[r] : conns'[r][k] = conns[r][k]
        /\ \A q \in Runs \ {r} : conns'[q] = conns[q]
    BY <2>1, ConnAdded
  <2>3. /\ link'[r] = "waiting" /\ next'[r] # 0 /\ registry' = registry /\ alive' = alive
        /\ appRun' = appRun
        /\ \A q \in Runs \ {r} : link'[q] = link[q] /\ next'[q] = next[q]
    BY <1>2 DEF Connect, Types
  <2>4. n \in Nat /\ DOMAIN conns[r] = 1..n
    BY DEF Types
  <2>5. ASSUME NEW k \in DOMAIN conns[r]
        PROVE  conns[r][k].phase \in {"ended", "dropped"} /\ ~conns[r][k].normal
    <3>1. ConnOrder(r, k)
      BY <1>1 DEF RunOrder
    <3>2. alive[r] /\ ~Connected(r) /\ conns[r][k] \in Conn /\ conns[r] # <<>>
      BY <1>2, <2>4, ConnIs DEF Connect
    <3>3. conns[r][n].phase \notin {"new", "open"}
      BY <3>2 DEF Connected, Latest
    <3>4. conns[r][k].phase \in {"ended", "dropped"}
      BY <2>4, <3>1, <3>2, <3>3 DEF ConnOrder, Conn
    <3>5. QED
      BY <3>1, <3>2, <3>4 DEF ConnOrder
  <2>6. ASSUME NEW k \in DOMAIN conns[r]
        PROVE  ConnOrder(r, k)'
    BY <1>1, <2>2, <2>3, <2>5 DEF RunOrder, ConnOrder, Waits
  <2>7. ConnOrder(r, n + 1)'
    <3>1. n # 0 => next[r] # 0
      BY <1>1, <2>4 DEF RunOrder, ConnOrder
    <3>2. Waits(r, n + 1)'
      BY <1>1, <2>3, <2>4, RegistryIs DEF RunOrder, Waits
    <3>3. QED
      BY <2>1, <2>2, <2>3, <2>4, <3>1, <3>2 DEF ConnOrder
  <2>8. RunOrder(r)'
    BY <1>1, <2>2, <2>3, <2>4, <2>6, <2>7, RegistryIs DEF RunOrder
  <2>9. QED
    BY <1>1, <2>2, <2>3, <2>8, RunOrderSame
<1>3. ASSUME NEW r \in Runs, Reply(r)
      PROVE  \A q \in Runs : RunOrder(q)'
  <2> PICK n, c : n = Len(conns[r]) /\ c = [conns[r][n] EXCEPT !.phase = "open"]
    OBVIOUS
  <2>1. Becomes(r, n, c)
    BY <1>3, ReplyConn
  <2>2. /\ link'[r] = "up" /\ registry' = registry /\ alive' = alive /\ appRun' = appRun
        /\ \A q \in Runs \ {r} : link'[q] = link[q] /\ next'[q] = next[q]
        /\ conns[r][n].phase \in {"new", "open"}
    BY <1>3 DEF Reply, Types, Connected, Latest
  <2>3. next'[r] # 0
    BY <1>3, ReplyNext
  <2>4. conns'[r][n] = c /\ ConnOrder(r, n) /\ conns[r][n] \in Conn /\ n \in Nat
    <3>1. n \in DOMAIN conns[r] /\ conns[r][n] \in Conn
      BY <2>1 DEF Becomes
    <3>2. conns'[r][n] = c
      BY <2>1, ConnChanged
    <3>3. n \in Nat
      BY <3>1, ConnIs
    <3>4. QED
      BY <1>1, <3>1, <3>2, <3>3 DEF RunOrder
  <2>5. ConnOrder(r, n)'
    BY <2>1, <2>2, <2>3, <2>4, ConnChanged DEF ConnOrder, Waits, Conn
  <2>6. c.phase = "open"
    BY <2>4 DEF Conn
  <2>7. QED
    BY <2>1, <2>2, <2>3, <2>5, <2>6, RunOrderOnly
<1>4. ASSUME NEW r \in Runs, Drop(r)
      PROVE  \A q \in Runs : RunOrder(q)'
  <2> PICK n, c : n = Len(conns[r]) /\ c = [conns[r][n] EXCEPT !.phase = "dropped"]
    OBVIOUS
  <2>1. Becomes(r, n, c) /\ n \in DOMAIN conns[r]
    BY <1>4, DropConn DEF Becomes
  <2>2. /\ link'[r] = "down" /\ registry' = registry /\ ~alive'[r] /\ appRun' = appRun
        /\ \A q \in Runs \ {r} : link'[q] = link[q] /\ alive'[q] = alive[q]
        /\ next' = next /\ link[r] = "waiting"
    BY <1>4 DEF Drop, Types
  <2>3. conns'[r][n] = c /\ ConnOrder(r, n) /\ conns[r][n] \in Conn /\ n \in Nat
    BY <1>1, <2>1, ConnChanged, ConnIs DEF RunOrder
  <2>4. conns[r][n].phase \in {"new", "open"}
    BY <1>4 DEF Drop, Connected, Latest
  <2>5. /\ c.phase = "dropped" /\ c.queue = conns[r][n].queue /\ c.todo = conns[r][n].todo
        /\ c.task = conns[r][n].task /\ (c.normal <=> conns[r][n].normal)
        /\ (c.reconnect <=> conns[r][n].reconnect)
    BY <2>3 DEF Conn
  <2>6. conns[r][n].phase = "new" /\ Len(conns'[r]) = Len(conns[r])
    BY <2>1, <2>2, <2>3, <2>4, ConnChanged DEF ConnOrder
  <2>7. ConnOrder(r, n)'
    BY <2>5, <2>6, <2>2, <2>3 DEF ConnOrder, Waits
  <2>8. next'[r] # 0 /\ c.phase = "dropped"
    BY <2>5, <2>2, <2>3 DEF ConnOrder
  <2>9. QED
    BY <2>1, <2>2, <2>3, <2>7, <2>8, RunOrderOnly
<1>5. ASSUME NEW r \in Runs, LookUp(r) \/ LookUpInserts(r)
      PROVE  \A q \in Runs : RunOrder(q)'
  <2>1. UNCHANGED <<conns, registry, link, next, alive, appRun>>
    BY <1>5 DEF LookUp, LookUpInserts
  <2>2. QED
    BY <1>1, <2>1, RunOrderSame
<1>6. ASSUME NEW r \in Runs, NEW normal \in BOOLEAN, NEW n, n = Len(conns[r]), NEW c,
             c = Ended(conns[r][n], normal), Becomes(r, n, c), conns[r][n].phase \in {"new", "open"},
             link' = [link EXCEPT ![r] = "down"], next' = next, registry' = registry,
             appRun' = appRun, alive' = [alive EXCEPT ![r] = FALSE] \/ (alive' = alive /\ ~normal)
      PROVE  \A q \in Runs : RunOrder(q)'
  <2>1. n \in DOMAIN conns[r] /\ conns[r][n] \in Conn
    BY <1>6 DEF Becomes
  <2>2. conns'[r][n] = c /\ ConnOrder(r, n) /\ n \in Nat /\ Len(conns'[r]) = Len(conns[r])
    BY <1>1, <1>6, <2>1, ConnChanged, ConnIs DEF RunOrder
  <2>3. /\ link'[r] = "down" /\ (alive'[r] => alive[r] /\ ~normal)
        /\ \A q \in Runs \ {r} : link'[q] = link[q] /\ alive'[q] = alive[q]
    BY <1>6 DEF Types
  <2>4. /\ c.phase = "ended" /\ c.queue = conns[r][n].queue /\ c.todo = conns[r][n].todo
        /\ c.task = conns[r][n].task /\ (c.normal <=> normal)
        /\ (c.reconnect <=> conns[r][n].reconnect)
    BY <1>6, <2>1, EndedIs
  <2>5. ConnOrder(r, n)'
    BY <1>6, <2>2, <2>3, <2>4 DEF ConnOrder, Waits
  <2>6. next'[r] # 0
    BY <1>6, <2>2 DEF ConnOrder
  <2>7. QED
    BY <1>6, <2>3, <2>4, <2>5, <2>6, RunOrderOnly
<1>7. ASSUME NEW r \in Runs, Stop(r)
      PROVE  \A q \in Runs : RunOrder(q)'
  <2> PICK n, c : n = Len(conns[r]) /\ c = Ended(conns[r][n], TRUE)
    OBVIOUS
  <2>1. Becomes(r, n, c)
    BY <1>7, StopConn
  <2>2. /\ conns[r][n].phase \in {"new", "open"} /\ link' = [link EXCEPT ![r] = "down"]
        /\ alive' = [alive EXCEPT ![r] = FALSE] /\ next' = next /\ registry' = registry
        /\ appRun' = appRun
    BY <1>7 DEF Stop, Connected, Latest
  <2>3. QED
    BY <1>6, <2>1, <2>2
<1>8. ASSUME NEW r \in Runs, Notice(r)
      PROVE  \A q \in Runs : RunOrder(q)'
  <2> PICK n, c : n = Len(conns[r]) /\ c = Ended(conns[r][n], FALSE)
    OBVIOUS
  <2>1. Becomes(r, n, c)
    BY <1>8, NoticeConn
  <2>2. /\ conns[r][n].phase \in {"new", "open"} /\ link' = [link EXCEPT ![r] = "down"]
        /\ alive' = alive /\ next' = next /\ registry' = registry /\ appRun' = appRun
    BY <1>8 DEF Notice, Connected, Latest, Types
  <2>3. QED
    BY <1>6, <2>1, <2>2
<1>9. ASSUME NEW r \in Runs, Record(r)
      PROVE  \A q \in Runs : RunOrder(q)'
  <2> PICK n : n = Len(conns[r])
    OBVIOUS
  <2>1. conns[r][n].phase \in {"new", "open"} /\ link[r] = "up" /\ UNCHANGED <<registry, appRun>>
    BY <1>9 DEF Record, Connected, Latest
  <2>2. CASE /\ Becomes(r, n, Ended(conns[r][n], FALSE))
             /\ alive' = [alive EXCEPT ![r] = FALSE] /\ link' = [link EXCEPT ![r] = "down"]
             /\ next' = next
    BY <1>6, <2>1, <2>2
  <2>3. CASE /\ Becomes(r, n, Passing(r)) /\ next' = [next EXCEPT ![r] = @ + 1]
             /\ alive' = alive /\ link' = link
    <3> PICK c : c = Passing(r)
      OBVIOUS
    <3>1. n \in DOMAIN conns[r] /\ conns[r][n] \in Conn
      BY <2>3 DEF Becomes
    <3>2. conns'[r][n] = c /\ ConnOrder(r, n) /\ n \in Nat /\ Len(conns'[r]) = Len(conns[r])
      BY <1>1, <2>3, <3>1, ConnChanged, ConnIs DEF RunOrder
    <3>3. next'[r] # 0 /\ \A q \in Runs \ {r} : next'[q] = next[q]
      BY <2>3 DEF Types
    <3>4. conns[r][n].phase = "open"
      BY <2>1, <3>2 DEF ConnOrder
    <3>5. /\ c.phase = "open" /\ c.todo = conns[r][n].todo /\ c.task = conns[r][n].task
          /\ (c.normal <=> conns[r][n].normal) /\ (c.reconnect <=> conns[r][n].reconnect)
      BY <3>1, <3>4 DEF Conn, Passing
    <3>6. ConnOrder(r, n)'
      BY <2>1, <2>3, <3>2, <3>3, <3>4, <3>5 DEF ConnOrder, Waits
    <3>7. QED
      BY <2>1, <2>3, <3>3, <3>5, <3>6, RunOrderOnly
  <2>4. QED
    BY <1>9, <2>2, <2>3, RecordConn
<1>10. ASSUME NEW r \in Runs, Break(r)
       PROVE  \A q \in Runs : RunOrder(q)'
  <2>1. /\ link'[r] = "down" /\ link[r] = "up" /\ (alive'[r] => alive[r])
        /\ UNCHANGED <<conns, registry, next, appRun>>
        /\ \A q \in Runs \ {r} : link'[q] = link[q] /\ alive'[q] = alive[q]
    BY <1>10 DEF Break, Types
  <2>2. \A k \in DOMAIN conns[r] : ConnOrder(r, k)'
    BY <1>1, <2>1 DEF RunOrder, ConnOrder, Waits
  <2>3. RunOrder(r)'
    BY <1>1, <2>1, <2>2 DEF RunOrder
  <2>4. QED
    BY <1>1, <2>1, <2>3, RunOrderSame
<1>11. ASSUME NEW r \in Runs, NEW k \in DOMAIN conns[r], HandleAppRun(r, k)
       PROVE  \A q \in Runs : RunOrder(q)'
  <2> PICK c : c = Handled(r, k)
    OBVIOUS
  <2>1. /\ k \in 1..Len(conns[r]) /\ Len(conns[r]) \in Nat /\ conns[r][k] \in Conn
        /\ DOMAIN conns[r] = 1..Len(conns[r])
    BY ConnIs
  <2>2. /\ conns'[r][k] = c /\ Len(conns'[r]) = Len(conns[r]) /\ DOMAIN conns'[r] = DOMAIN conns[r]
        /\ \A l \in DOMAIN conns[r] : l # k => conns'[r][l] = conns[r][l]
        /\ \A q \in Runs \ {r} : conns'[q] = conns[q]
    <3>1. Becomes(r, k, c)
      BY <1>11, HandleAppRunConn
    <3>2. QED
      BY <3>1, ConnChanged DEF Becomes, SetConn, Types
  <2>3. /\ registry[r].conn = k /\ registry[r].at = "AppRun"
        /\ registry'[r].conn = k /\ registry'[r].at = "AppStop"
        /\ \A q \in Runs \ {r} : registry'[q] = registry[q]
        /\ UNCHANGED <<alive, link, next>>
    BY <1>11 DEF HandleAppRun, At, Goes, Types
  <2>4. /\ \A q \in Runs \ {r} : appRun'[q] = appRun[q]
        /\ appRun[r] # "none" \/ ~conns[r][k].reconnect => appRun'[r] # "none"
    <3>1. CASE conns[r][k].reconnect
      BY <1>11, <3>1 DEF HandleAppRun, Types
    <3>2. CASE ~conns[r][k].reconnect
      BY <1>11, <3>2 DEF HandleAppRun, Types
    <3>3. QED
      BY <3>1, <3>2
  <2>5. ConnOrder(r, k) /\ conns[r][k].todo = {}
    <3>1. ConnOrder(r, k)
      BY <1>1 DEF RunOrder
    <3>2. QED
      BY <2>1, <2>3, <3>1 DEF ConnOrder, Waits
  <2>6. /\ c.phase = conns[r][k].phase /\ c.todo = conns[r][k].todo
        /\ (c.normal <=> conns[r][k].normal) /\ (c.reconnect <=> conns[r][k].reconnect)
        /\ c.task \in {"running", "rejected"}
        /\ c.task = "running" => appRun[r] # "none" \/ ~conns[r][k].reconnect
        /\ conns[r][k].queue = <<>> => c.queue = <<>>
    BY <2>1 DEF Handled, Known, Conn
  <2>7. ConnOrder(r, k)'
    BY <2>1, <2>2, <2>3, <2>4, <2>5, <2>6 DEF ConnOrder, Waits
  <2>8. ASSUME NEW l \in DOMAIN conns[r], l # k
        PROVE  ConnOrder(r, l)'
    <3>1. ConnOrder(r, l) /\ l \in Nat
      BY <1>1, <2>1 DEF RunOrder
    <3>2. Waits(r, l)' <=> Waits(r, l)
      BY <2>1, <2>3, <2>8, <3>1 DEF Waits
    <3>3. QED
      BY <2>2, <2>3, <2>4, <2>8, <3>1, <3>2 DEF ConnOrder
  <2>9. link[r] = "up" => conns'[r] # <<>> /\ conns'[r][Len(conns'[r])].phase = "open"
    BY <1>1, <2>1, <2>2, <2>6 DEF RunOrder, Latest
  <2>10. RunOrder(r)'
    BY <1>1, <2>1, <2>2, <2>3, <2>7, <2>8, <2>9 DEF RunOrder, Latest
  <2>11. QED
    BY <1>1, <2>2, <2>3, <2>4, <2>10, RunOrderSame
<1>12. ASSUME NEW r \in Runs, NEW k \in DOMAIN conns[r],
              HandleAppStop(r, k) \/ NextConnection(r, k)
       PROVE  \A q \in Runs : RunOrder(q)'
  <2>1. k \in 1..Len(conns[r]) /\ Len(conns[r]) \in Nat /\ DOMAIN conns[r] = 1..Len(conns[r])
    BY ConnIs
  <2>2. /\ registry[r].conn = k /\ registry[r].at \in {"AppStop", "task"}
        /\ \/ registry'[r].conn = k /\ registry'[r].at = "task"
           \/ registry'[r].conn = k + 1 /\ registry'[r].at = "AppRun"
        /\ \A q \in Runs \ {r} : registry'[q] = registry[q]
        /\ UNCHANGED <<alive, link, next, conns>>
    <3>1. CASE HandleAppStop(r, k)
      BY <3>1 DEF HandleAppStop, At, Goes, Types
    <3>2. CASE NextConnection(r, k)
      BY <3>2 DEF NextConnection, At, Goes, Types
    <3>3. QED
      BY <1>12, <3>1, <3>2
  <2>3. /\ \A q \in Runs \ {r} : appRun'[q] = appRun[q]
        /\ appRun[r] # "none" => appRun'[r] # "none"
    <3>1. \A q \in Runs \ {r} : appRun'[q] = appRun[q]
      BY <1>12 DEF HandleAppStop, NextConnection, Types
    <3>2. QED
      BY <3>1, AppRunStays
  <2>4. ASSUME NEW l \in DOMAIN conns[r]
        PROVE  ConnOrder(r, l)'
    <3>1. ConnOrder(r, l) /\ l \in Nat
      BY <1>1, <2>1 DEF RunOrder
    <3>2. Waits(r, l)' <=> Waits(r, l)
      BY <2>1, <2>2, <3>1 DEF Waits
    <3>3. QED
      BY <2>2, <2>3, <3>1, <3>2 DEF ConnOrder
  <2>5. RunOrder(r)'
    BY <1>1, <2>1, <2>2, <2>4 DEF RunOrder, Latest
  <2>6. QED
    BY <1>1, <2>2, <2>3, <2>5, RunOrderSame
<1>13. ASSUME NEW r \in Runs, NEW k \in DOMAIN conns[r], Take(r, k)
       PROVE  \A q \in Runs : RunOrder(q)'
  <2>1. \E c : /\ Becomes(r, k, c) /\ c.phase = conns[r][k].phase /\ c.task = conns[r][k].task
               /\ (c.normal <=> conns[r][k].normal) /\ (c.reconnect <=> conns[r][k].reconnect)
    BY <1>13, TakeConn DEF InHandOf
  <2>2. /\ conns[r][k].task = "running" /\ conns[r][k].queue # <<>>
        /\ UNCHANGED <<registry, link, next, alive, appRun>>
    BY <1>13 DEF Take
  <2>3. QED
    BY <2>1, <2>2, RunOrderWork
<1>14. ASSUME NEW r \in Runs, NEW k \in DOMAIN conns[r], StoreRecord(r, k) \/ RunStatement(r, k)
       PROVE  \A q \in Runs : RunOrder(q)'
  <2>1. PICK work : /\ Becomes(r, k, Done(r, k, work)) /\ conns[r][k].todo # {}
                    /\ UNCHANGED <<registry, link, next, alive, appRun>>
    BY <1>14, DoneConn DEF StoreRecord, RunStatement
  <2> PICK c : c = Done(r, k, work)
    OBVIOUS
  <2>2. /\ c.phase = conns[r][k].phase /\ c.task = conns[r][k].task
        /\ (c.normal <=> conns[r][k].normal) /\ (c.reconnect <=> conns[r][k].reconnect)
    BY <2>1 DEF Done, Becomes, Conn
  <2>3. conns[r][k].task = "running"
    <3>1. ConnOrder(r, k)
      BY <1>1 DEF RunOrder
    <3>2. QED
      BY <2>1, <3>1 DEF ConnOrder
  <2>4. QED
    BY <2>1, <2>2, <2>3, RunOrderWork
<1>15. ASSUME InitTask
       PROVE  \A q \in Runs : RunOrder(q)'
  <2>1. UNCHANGED <<conns, registry, link, next, alive>>
    BY <1>15 DEF InitTask, InitFinds, InitLooksAgain, InitMarksRun, InitMarksSpans
  <2>2. ASSUME NEW q \in Runs
        PROVE  RunOrder(q)'
    <3>1. appRun[q] # "none" => appRun'[q] # "none"
      BY AppRunStays
    <3>2. QED
      BY <1>1, <2>1, <3>1 DEF RunOrder, ConnOrder, Waits, Latest
  <2>3. QED
    BY <2>2
<1>16. ASSUME Crash
       PROVE  \A q \in Runs : RunOrder(q)'
  <2>1. \A q \in Runs : /\ conns'[q] = <<>> /\ registry'[q].conn = 1 /\ registry'[q].at = "AppRun"
                        /\ link'[q] = "down"
    BY <1>16 DEF Crash
  <2>2. Len(<<>>) = 0 /\ DOMAIN <<>> = {}
    OBVIOUS
  <2>3. QED
    BY <2>1, <2>2 DEF RunOrder
<1>17. \A q \in Runs : RunOrder(q)'
  BY <1>2, <1>3, <1>4, <1>5, <1>7, <1>8, <1>9, <1>10, <1>11, <1>12, <1>13, <1>14, <1>15, <1>16
     DEF Next, Client, Handler, Server
<1>18. found' = found \/ found' = {} \/ (found' = OpenRuns /\ appRun' = appRun)
  <2>1. \A r \in Runs : Client(r) \/ Handler(r) => found' = found
    BY ZenonT(30)
       DEF Client, Handler, Connect, Record, Stop, Break, Reply, Drop, LookUp, LookUpInserts,
           Notice
  <2>2. ASSUME NEW r \in Runs, Server(r)
        PROVE  found' = found
    <3>1. PICK k \in DOMAIN conns[r] :
            \/ HandleAppRun(r, k) \/ HandleAppStop(r, k) \/ NextConnection(r, k)
            \/ Take(r, k) \/ StoreRecord(r, k) \/ RunStatement(r, k)
      BY <2>2 DEF Server
    <3>2. UNCHANGED initVars
      BY <3>1 DEF HandleAppRun, HandleAppStop, NextConnection, Take, StoreRecord, RunStatement
    <3>3. QED
      BY <3>2
  <2>3. InitTask => found' = found \/ (found' = OpenRuns /\ appRun' = appRun)
    BY DEF InitTask, InitFinds, InitLooksAgain, InitMarksRun, InitMarksSpans
  <2>4. Crash => found' = {}
    BY DEF Crash
  <2>5. QED
    BY <2>1, <2>2, <2>3, <2>4 DEF Next
<1>19. \A r \in found' : appRun'[r] # "none"
  BY <1>18, AppRunStays DEF Order, OpenRuns, Types
<1>20. QED
  BY <1>17, <1>19 DEF Order
-----------------------------------------------------------------------------
\* What a connection has ...
LEMMA RowsInIs ==
  ASSUME NEW c, NEW m
  PROVE  m \in RowsIn(c) <=> \/ \E i \in DOMAIN c.queue : m = c.queue[i]
                             \/ "record" \in c.todo /\ m = c.record
BY DEF RowsIn

\* and by which ids,
LEMMA IdsInIs ==
  ASSUME NEW c, NEW waits \in BOOLEAN, NEW i
  PROVE  i \in IdsIn(c, waits) <=> (\E m \in RowsIn(c) : i = m.id) \/ (waits /\ i = c.start)
BY DEF IdsIn

\* ... when neither its queue nor what its task has in hand changes,
LEMMA SameIn ==
  ASSUME NEW c, NEW d, d.queue = c.queue, d.record = c.record, d.start = c.start,
         "record" \in d.todo <=> "record" \in c.todo
  PROVE  RowsIn(d) = RowsIn(c) /\ (InOrder(c) => InOrder(d)) /\ (IndexOrder(c) => IndexOrder(d))
         /\ \A waits \in BOOLEAN : IdsIn(d, waits) = IdsIn(c, waits)
<1>1. RowsIn(d) = RowsIn(c)
  BY DEF RowsIn
<1>2. QED
  BY <1>1 DEF IdsIn, InOrder, IndexOrder

\* when one more record is passed on,
LEMMA AppendIn ==
  ASSUME NEW c \in Conn, NEW d, NEW m \in RecordRow, d.queue = Append(c.queue, m),
         d.record = c.record, d.start = c.start, d.todo = c.todo,
         c.start < m.id, \A n \in RowsIn(c) : n.id < m.id
  PROVE  /\ RowsIn(d) = RowsIn(c) \cup {m}
         /\ InOrder(c) => InOrder(d)
         /\ IndexOrder(c) /\ (\A n \in RowsIn(c) : n.idx < m.idx) => IndexOrder(d)
<1>1. c.queue \in Seq(RecordRow) /\ Len(c.queue) \in Nat
  BY DEF Conn
<1>2. /\ DOMAIN d.queue = DOMAIN c.queue \cup {Len(c.queue) + 1}
      /\ \A i \in DOMAIN c.queue : d.queue[i] = c.queue[i]
      /\ d.queue[Len(c.queue) + 1] = m
  BY <1>1
<1>3. RowsIn(d) = RowsIn(c) \cup {m}
  BY <1>2 DEF RowsIn
<1>4. ASSUME InOrder(c)
      PROVE  InOrder(d)
  <2>1. \A i \in DOMAIN c.queue : i \in 1..Len(c.queue) /\ c.queue[i].id < m.id
    BY <1>1 DEF RowsIn
  <2>2. "record" \in c.todo => c.record.id < m.id
    BY DEF RowsIn
  <2>3. QED
    BY <1>1, <1>2, <1>4, <2>1, <2>2 DEF InOrder
<1>5. ASSUME IndexOrder(c), \A n \in RowsIn(c) : n.idx < m.idx
      PROVE  IndexOrder(d)
  <2>1. \A i \in DOMAIN c.queue : i \in 1..Len(c.queue) /\ c.queue[i].idx < m.idx
    BY <1>1, <1>5 DEF RowsIn
  <2>2. "record" \in c.todo => c.record.idx < m.idx
    BY <1>5 DEF RowsIn
  <2>3. QED
    BY <1>1, <1>2, <1>5, <2>1, <2>2 DEF IndexOrder
<1>6. QED
  BY <1>3, <1>4, <1>5

\* when the task takes a record in hand,
LEMMA TakeIn ==
  ASSUME NEW c \in Conn, NEW m, c.queue # <<>>, m = Head(c.queue), c.todo = {},
         NEW d, InHandOf(c, m, d)
  PROVE  /\ RowsIn(d) = RowsIn(c)
         /\ InOrder(c) => InOrder(d)
         /\ IndexOrder(c) => IndexOrder(d)
<1>1. c.queue \in Seq(RecordRow) /\ Len(c.queue) \in Nat /\ Len(c.queue) # 0
  BY EmptySeq DEF Conn
<1>2. /\ DOMAIN c.queue = 1..Len(c.queue) /\ m = c.queue[1]
      /\ DOMAIN d.queue = 1..(Len(c.queue) - 1)
      /\ \A i \in 1..(Len(c.queue) - 1) : d.queue[i] = c.queue[i + 1]
      /\ d.record = m /\ d.start = c.start /\ "record" \in d.todo
  BY <1>1 DEF InHandOf
<1>3. \A x : x \in RowsIn(c) => x \in RowsIn(d)
  <2>1. SUFFICES ASSUME NEW x, x \in RowsIn(c)
                 PROVE  x \in RowsIn(d)
    OBVIOUS
  <2>2. PICK i \in 1..Len(c.queue) : x = c.queue[i]
    BY <1>2, <2>1, RowsInIs
  <2>3. CASE i = 1
    BY <1>2, <2>2, <2>3, RowsInIs
  <2>4. CASE i # 1
    <3>1. i - 1 \in 1..(Len(c.queue) - 1) /\ d.queue[i - 1] = x
      BY <1>1, <1>2, <2>2, <2>4
    <3>2. QED
      BY <1>2, <3>1, RowsInIs
  <2>5. QED
    BY <2>3, <2>4
<1>4. \A x : x \in RowsIn(d) => x \in RowsIn(c)
  <2>1. SUFFICES ASSUME NEW x, x \in RowsIn(d)
                 PROVE  x \in RowsIn(c)
    OBVIOUS
  <2>2. \E i \in DOMAIN c.queue : x = c.queue[i]
    <3>1. CASE \E i \in DOMAIN d.queue : x = d.queue[i]
      BY <1>1, <1>2, <3>1
    <3>2. CASE x = d.record
      BY <1>1, <1>2, <3>2
    <3>3. QED
      BY <2>1, <3>1, <3>2, RowsInIs
  <2>3. QED
    BY <2>2, RowsInIs
<1>5. ASSUME InOrder(c)
      PROVE  InOrder(d)
  <2>1. \A i, j \in 1..Len(c.queue) : i < j => c.queue[i].id < c.queue[j].id
    BY <1>2, <1>5 DEF InOrder
  <2>2. \A i \in 1..Len(c.queue) : c.start < c.queue[i].id
    BY <1>2, <1>5 DEF InOrder
  <2>3. ASSUME NEW i \in DOMAIN d.queue
        PROVE  /\ d.start < d.queue[i].id /\ d.record.id < d.queue[i].id
               /\ \A j \in DOMAIN d.queue : i < j => d.queue[i].id < d.queue[j].id
    <3>1. /\ i \in Nat /\ i + 1 \in 1..Len(c.queue) /\ 1 \in 1..Len(c.queue) /\ 1 < i + 1
          /\ d.queue[i] = c.queue[i + 1]
      BY <1>1, <1>2
    <3>2. d.start < d.queue[i].id /\ d.record.id < d.queue[i].id
      BY <1>2, <2>1, <2>2, <3>1
    <3>3. ASSUME NEW j \in DOMAIN d.queue, i < j
          PROVE  d.queue[i].id < d.queue[j].id
      <4>1. j + 1 \in 1..Len(c.queue) /\ d.queue[j] = c.queue[j + 1] /\ i + 1 < j + 1
        BY <1>1, <1>2, <3>1, <3>3, SMTT(20)
      <4>2. QED
        BY <2>1, <3>1, <4>1
    <3>4. QED
      BY <3>2, <3>3
  <2>4. QED
    BY <2>3 DEF InOrder
<1>6. ASSUME IndexOrder(c)
      PROVE  IndexOrder(d)
  <2>1. \A i, j \in 1..Len(c.queue) : i < j => c.queue[i].idx < c.queue[j].idx
    BY <1>2, <1>6 DEF IndexOrder
  <2>2. ASSUME NEW i \in DOMAIN d.queue
        PROVE  /\ d.record.idx < d.queue[i].idx
               /\ \A j \in DOMAIN d.queue : i < j => d.queue[i].idx < d.queue[j].idx
    <3>1. /\ i \in Nat /\ i + 1 \in 1..Len(c.queue) /\ 1 \in 1..Len(c.queue) /\ 1 < i + 1
          /\ d.queue[i] = c.queue[i + 1]
      BY <1>1, <1>2
    <3>2. d.record.idx < d.queue[i].idx
      BY <1>2, <2>1, <3>1
    <3>3. ASSUME NEW j \in DOMAIN d.queue, i < j
          PROVE  d.queue[i].idx < d.queue[j].idx
      <4>1. j + 1 \in 1..Len(c.queue) /\ d.queue[j] = c.queue[j + 1] /\ i + 1 < j + 1
        BY <1>1, <1>2, <3>1, <3>3, SMTT(20)
      <4>2. QED
        BY <2>1, <3>1, <4>1
    <3>4. QED
      BY <3>2, <3>3
  <2>3. QED
    BY <2>2 DEF IndexOrder
<1>7. QED
  BY <1>3, <1>4, <1>5, <1>6

\* and when it has stored one.
LEMMA StoreIn ==
  ASSUME NEW c \in Conn, NEW d, d = [c EXCEPT !.todo = @ \ {"record"}], "record" \in c.todo
  PROVE  /\ RowsIn(d) = {c.queue[i] : i \in DOMAIN c.queue}
         /\ RowsIn(c) = RowsIn(d) \cup {c.record}
         /\ InOrder(c) => InOrder(d)
         /\ IndexOrder(c) => IndexOrder(d)
<1>1. d.queue = c.queue /\ d.record = c.record /\ d.start = c.start /\ "record" \notin d.todo
  BY DEF Conn
<1>2. QED
  BY <1>1 DEF RowsIn, InOrder, IndexOrder

\* A connection holds records when there are some in it.
LEMMA HoldsIs ==
  ASSUME NEW c \in Conn
  PROVE  Holds(c) <=> RowsIn(c) # {}
<1>1. c.queue \in Seq(RecordRow)
  BY DEF Conn
<1>2. /\ DOMAIN c.queue = 1..Len(c.queue) /\ Len(c.queue) \in Nat
      /\ c.queue # <<>> <=> Len(c.queue) # 0
  BY <1>1, EmptySeq
<1>3. DOMAIN c.queue # {} <=> Len(c.queue) # 0
  <2>1. \A n \in Nat : n # 0 => 1 \in 1..n
    OBVIOUS
  <2>2. 1..0 = {}
    OBVIOUS
  <2>3. QED
    BY <1>2, <2>1, <2>2
<1>4. QED
  BY <1>2, <1>3 DEF Holds, RowsIn
-----------------------------------------------------------------------------
\* A step of the k-th connection of r, which has the ids of old, keeps the ids
\* apart: it adds to them only new ones, and stores records of these only.
LEMMA IdsMove ==
  ASSUME Types, IdsInv, NEW r \in Runs, NEW k, NEW old,
         nextId' \in Nat, nextId' >= nextId,
         \A q \in Runs : \A l \in DOMAIN conns'[q] : <<q, l>> # <<r, k>> =>
           l \in DOMAIN conns[q] /\ conns'[q][l] = conns[q][l] /\ (Waits(q, l)' <=> Waits(q, l)),
         \A i \in old : /\ i \in 1..(nextId - 1) /\ \A m \in records : m.id # i
                        /\ \A q \in Runs : \A l \in DOMAIN conns[q] :
                             <<q, l>> # <<r, k>> => i \notin HeldIds(q, l),
         k \in DOMAIN conns'[r] =>
           /\ conns'[r][k].start \in 1..(nextId' - 1)
           /\ InOrder(conns'[r][k])
           /\ \A i \in HeldIds(r, k)' : i \in old \/ i \in nextId..(nextId' - 1),
         records \subseteq records',
         \A m \in records' \ records :
           /\ m.id \in old \/ m.id \in nextId..(nextId' - 1)
           /\ m.id \notin HeldIds(r, k)'
           /\ \A n \in records' \ records : m = n
  PROVE  IdsInv'
<1>1. nextId \in Nat /\ \A i : i \in 1..(nextId - 1) \/ i \in nextId..(nextId' - 1) =>
                                i \in 1..(nextId' - 1)
  <2>1. nextId \in Nat /\ nextId # 0
    BY DEF Types
  <2>2. QED
    BY <2>1
<1>2. ASSUME NEW q \in Runs, NEW l \in DOMAIN conns'[q], <<q, l>> # <<r, k>>
      PROVE  l \in DOMAIN conns[q] /\ conns'[q][l] = conns[q][l] /\ HeldIds(q, l)' = HeldIds(q, l)
  <2>1. l \in DOMAIN conns[q] /\ conns'[q][l] = conns[q][l] /\ (Waits(q, l)' <=> Waits(q, l))
    BY <1>2
  <2>2. QED
    BY <2>1 DEF HeldIds, IdsIn
<1>3. ASSUME NEW q \in Runs, NEW l \in DOMAIN conns[q], NEW i \in HeldIds(q, l)
      PROVE  i \in 1..(nextId - 1) /\ \A m \in records : m.id # i
  BY DEF IdsInv
<1>4. \A m \in records : m.id \in 1..(nextId - 1)
  BY DEF IdsInv
<1>5. ASSUME NEW m \in records'
      PROVE  m.id \in 1..(nextId' - 1)
  <2>1. CASE m \in records
    BY <1>1, <1>4, <2>1
  <2>2. CASE m \notin records
    <3>1. m.id \in old \/ m.id \in nextId..(nextId' - 1)
      BY <2>2
    <3>2. QED
      BY <1>1, <3>1
  <2>3. QED
    BY <2>1, <2>2
<1>6. \A m, n \in records' : m.id = n.id => m = n
  <2>1. SUFFICES ASSUME NEW m \in records', NEW n \in records', m.id = n.id
                 PROVE  m = n
    OBVIOUS
  <2>2. CASE m \in records /\ n \in records
    BY <2>1, <2>2 DEF IdsInv
  <2>3. CASE m \notin records /\ n \notin records
    BY <2>3
  <2>4. ASSUME NEW x \in records, NEW y \in records' \ records
        PROVE  x.id # y.id
    BY <1>1, <1>4
  <2>5. QED
    BY <2>1, <2>2, <2>3, <2>4
<1>7. ASSUME NEW q \in Runs, NEW l \in DOMAIN conns'[q]
      PROVE  /\ conns'[q][l].start \in 1..(nextId' - 1) /\ InOrder(conns'[q][l])
             /\ \A i \in HeldIds(q, l)' : i \in 1..(nextId' - 1) /\ \A m \in records' : m.id # i
  <2>1. CASE <<q, l>> = <<r, k>>
    <3>1. ASSUME NEW i \in HeldIds(r, k)'
          PROVE  i \in 1..(nextId' - 1) /\ \A m \in records' : m.id # i
      <4>1. i \in old \/ i \in nextId..(nextId' - 1)
        BY <2>1, <3>1
      <4>2. i \in 1..(nextId' - 1) /\ \A m \in records : m.id # i
        <5>1. CASE i \in old
          BY <1>1, <5>1
        <5>2. CASE i \in nextId..(nextId' - 1)
          <6>1. i \notin 1..(nextId - 1)
            BY <1>1, <5>2
          <6>2. \A m \in records : m.id # i
            BY <1>4, <6>1
          <6>3. QED
            BY <1>1, <5>2, <6>2
        <5>3. QED
          BY <4>1, <5>1, <5>2
      <4>3. \A m \in records' \ records : m.id # i
        BY <3>1
      <4>4. QED
        BY <4>2, <4>3
    <3>2. QED
      BY <2>1, <3>1
  <2>2. CASE <<q, l>> # <<r, k>>
    <3>1. conns'[q][l].start \in 1..(nextId - 1) /\ InOrder(conns'[q][l])
      BY <1>2, <2>2 DEF IdsInv
    <3>2. ASSUME NEW i \in HeldIds(q, l)'
          PROVE  i \in 1..(nextId' - 1) /\ \A m \in records' : m.id # i
      <4>1. i \in HeldIds(q, l) /\ l \in DOMAIN conns[q]
        BY <1>2, <2>2
      <4>2. i \in 1..(nextId - 1) /\ \A m \in records : m.id # i
        BY <1>3, <4>1
      <4>3. \A m \in records' \ records : m.id # i
        BY <1>1, <2>2, <4>1, <4>2
      <4>4. QED
        BY <1>1, <4>2, <4>3
    <3>3. QED
      BY <1>1, <3>1, <3>2
  <2>3. QED
    BY <2>1, <2>2
<1>8. ASSUME NEW q \in Runs, NEW l \in DOMAIN conns'[q], <<q, l>> # <<r, k>>,
             k \in DOMAIN conns'[r]
      PROVE  \A i \in HeldIds(r, k)' : i \notin HeldIds(q, l)'
  <2>1. \A i \in HeldIds(q, l) : i \in 1..(nextId - 1)
    BY <1>2, <1>3, <1>8
  <2>2. \A i \in HeldIds(r, k)' : i \in old \/ i \in nextId..(nextId' - 1)
    BY <1>8
  <2>3. \A i \in old : i \notin HeldIds(q, l)
    BY <1>2, <1>8
  <2>4. QED
    BY <1>1, <1>2, <1>8, <2>1, <2>2, <2>3
<1>9. ASSUME NEW p \in Runs, NEW q \in Runs, NEW j \in DOMAIN conns'[p], NEW l \in DOMAIN conns'[q],
             <<q, l>> # <<p, j>>
      PROVE  HeldIds(p, j)' \cap HeldIds(q, l)' = {}
  <2>1. CASE <<p, j>> = <<r, k>>
    BY <1>8, <1>9, <2>1
  <2>2. CASE <<q, l>> = <<r, k>>
    BY <1>8, <1>9, <2>2
  <2>3. CASE <<p, j>> # <<r, k>> /\ <<q, l>> # <<r, k>>
    <3>1. HeldIds(p, j)' = HeldIds(p, j) /\ HeldIds(q, l)' = HeldIds(q, l)
          /\ j \in DOMAIN conns[p] /\ l \in DOMAIN conns[q]
      BY <1>2, <2>3
    <3>2. QED
      BY <1>9, <3>1 DEF IdsInv
  <2>4. QED
    BY <2>1, <2>2, <2>3
<1>10. QED
  BY <1>5, <1>6, <1>7, <1>9 DEF IdsInv

\* A connection that becomes another.
LEMMA IdsBecomes ==
  ASSUME Types, IdsInv, NEW r \in Runs, NEW k, NEW c, Becomes(r, k, c),
         nextId' \in Nat, nextId' >= nextId,
         \A q \in Runs : \A l \in DOMAIN conns[q] :
           <<q, l>> # <<r, k>> => (Waits(q, l)' <=> Waits(q, l)),
         c.start = conns[r][k].start,
         InOrder(c),
         \A i \in IdsIn(c, Waits(r, k)') : i \in HeldIds(r, k) \/ i \in nextId..(nextId' - 1),
         records \subseteq records',
         \A m \in records' \ records :
           /\ m.id \in HeldIds(r, k) \/ m.id \in nextId..(nextId' - 1)
           /\ m.id \notin IdsIn(c, Waits(r, k)')
           /\ \A n \in records' \ records : m = n
  PROVE  IdsInv'
<1>1. /\ conns'[r][k] = c /\ k \in DOMAIN conns[r]
      /\ \A q \in Runs : /\ DOMAIN conns'[q] = DOMAIN conns[q]
                         /\ \A l \in DOMAIN conns[q] :
                              <<q, l>> # <<r, k>> => conns'[q][l] = conns[q][l]
  BY ConnChanged DEF Becomes
<1>2. PICK old : old = HeldIds(r, k)
  OBVIOUS
<1>3. \A i \in old : /\ i \in 1..(nextId - 1) /\ \A m \in records : m.id # i
                     /\ \A q \in Runs : \A l \in DOMAIN conns[q] :
                          <<q, l>> # <<r, k>> => i \notin HeldIds(q, l)
  <2>1. ASSUME NEW i \in HeldIds(r, k)
        PROVE  i \in 1..(nextId - 1) /\ \A m \in records : m.id # i
    BY <1>1 DEF IdsInv
  <2>2. ASSUME NEW i \in HeldIds(r, k), NEW q \in Runs, NEW l \in DOMAIN conns[q],
               <<q, l>> # <<r, k>>
        PROVE  i \notin HeldIds(q, l)
    <3>1. HeldIds(r, k) \cap HeldIds(q, l) = {}
      BY <1>1, <2>2 DEF IdsInv
    <3>2. QED
      BY <3>1
  <2>3. QED
    BY <1>2, <2>1, <2>2
<1>4. HeldIds(r, k)' = IdsIn(c, Waits(r, k)')
  BY <1>1 DEF HeldIds
<1>5. conns'[r][k].start \in 1..(nextId' - 1) /\ InOrder(conns'[r][k])
  <2>1. conns[r][k].start \in 1..(nextId - 1)
    BY <1>1 DEF IdsInv
  <2>2. QED
    BY <1>1, <2>1 DEF Types
<1>6. /\ \A i \in HeldIds(r, k)' : i \in old \/ i \in nextId..(nextId' - 1)
      /\ \A m \in records' \ records :
           /\ m.id \in old \/ m.id \in nextId..(nextId' - 1)
           /\ m.id \notin HeldIds(r, k)'
           /\ \A n \in records' \ records : m = n
  BY <1>2, <1>4
<1>7. \A q \in Runs : \A l \in DOMAIN conns'[q] : <<q, l>> # <<r, k>> =>
        l \in DOMAIN conns[q] /\ conns'[q][l] = conns[q][l] /\ (Waits(q, l)' <=> Waits(q, l))
  BY <1>1
<1>8. QED
  BY <1>3, <1>5, <1>6, <1>7, IdsMove
-----------------------------------------------------------------------------
\* Initially no id is in use.
LEMMA IdsInit == Init => IdsInv
<1> SUFFICES ASSUME Init PROVE IdsInv
  OBVIOUS
<1>1. records = {} /\ \A r \in Runs : DOMAIN conns[r] = {}
  BY DEF Init, InitialServer
<1>2. QED
  BY <1>1 DEF IdsInv

\* A connection that keeps what it has, whether or not an id is handed out.
LEMMA IdsSame ==
  ASSUME Types, IdsInv, NEW r \in Runs, NEW k, NEW c, Becomes(r, k, c),
         c.queue = conns[r][k].queue, c.record = conns[r][k].record,
         c.start = conns[r][k].start, "record" \in c.todo <=> "record" \in conns[r][k].todo,
         nextId' \in Nat, nextId' >= nextId, UNCHANGED <<records, registry>>
  PROVE  IdsInv'
<1>1. \A q \in Runs : \A l : Waits(q, l)' <=> Waits(q, l)
  BY DEF Waits
<1>2. Waits(r, k) \in BOOLEAN
  BY DEF Waits
<1>3. IdsIn(c, Waits(r, k)) = HeldIds(r, k) /\ (InOrder(conns[r][k]) => InOrder(c))
  BY <1>2, SameIn DEF HeldIds
<1>4. IdsIn(c, Waits(r, k)') = HeldIds(r, k)
  BY <1>1, <1>3 DEF IdsIn
<1>5. InOrder(c)
  BY <1>3 DEF IdsInv, Becomes
<1>6. QED
  BY <1>1, <1>4, <1>5, IdsBecomes

\* Of a step that hands an id out.
LEMMA NextIdIs ==
  ASSUME Types
  PROVE  /\ nextId \in Nat /\ nextId + 1 \in Nat /\ nextId >= nextId /\ nextId + 1 >= nextId
         /\ nextId \in nextId..((nextId + 1) - 1) /\ nextId \in 1..((nextId + 1) - 1)
         /\ \A i \in nextId..((nextId + 1) - 1) : i = nextId
<1>1. nextId \in Nat /\ nextId # 0
  BY DEF Types
<1>2. QED
  BY <1>1

\* Each step keeps the ids apart.
LEMMA IdsStep ==
  ASSUME Types, Order, IdsInv, Next
  PROVE  IdsInv'
<1> USE DEF clientVars, dbVars, initVars, historyVars
<1>1. ASSUME NEW r \in Runs, Connect(r)
      PROVE  IdsInv'
  <2>1. PICK c \in Conn : /\ conns' = [conns EXCEPT ![r] = Append(@, c)]
                          /\ c.start = nextId /\ c.queue = <<>> /\ c.todo = {}
    BY <1>1, ConnectConn
  <2>2. PICK n : n = Len(conns[r])
    OBVIOUS
  <2>3. /\ DOMAIN conns'[r] = DOMAIN conns[r] \cup {n + 1}
        /\ conns'[r][n + 1] = c /\ \A k \in DOMAIN conns[r] : conns'[r][k] = conns[r][k]
        /\ \A q \in Runs \ {r} : conns'[q] = conns[q]
    BY <2>1, <2>2, ConnAdded
  <2>4. nextId' = nextId + 1 /\ UNCHANGED <<records, registry>>
    BY <1>1 DEF Connect
  <2>5. \A q \in Runs : \A l \in DOMAIN conns'[q] : <<q, l>> # <<r, n + 1>> =>
          l \in DOMAIN conns[q] /\ conns'[q][l] = conns[q][l] /\ (Waits(q, l)' <=> Waits(q, l))
    BY <2>3, <2>4 DEF Waits
  <2>6. RowsIn(c) = {} /\ InOrder(c)
    BY <2>1 DEF RowsIn, InOrder
  <2>7. \A i \in HeldIds(r, n + 1)' : i = nextId
    BY <2>1, <2>3, <2>6 DEF HeldIds, IdsIn
  <2>8. \A i \in HeldIds(r, n + 1)' : i \in nextId..(nextId' - 1)
    BY <2>4, <2>7, NextIdIs
  <2>9. nextId' \in Nat /\ nextId' >= nextId /\ conns'[r][n + 1].start \in 1..(nextId' - 1)
    BY <2>1, <2>3, <2>4, NextIdIs
  <2>10. PICK k, old : k = n + 1 /\ old = {}
    OBVIOUS
  <2>11. QED
    BY <2>3, <2>4, <2>5, <2>6, <2>8, <2>9, <2>10, IdsMove
<1>2. ASSUME NEW r \in Runs, Reply(r) \/ Drop(r)
      PROVE  IdsInv'
  <2>1. PICK n, phase : n = Len(conns[r]) /\ Becomes(r, n, [conns[r][n] EXCEPT !.phase = phase])
    BY <1>2, ReplyConn, DropConn
  <2>2. PICK c : c = [conns[r][n] EXCEPT !.phase = phase]
    OBVIOUS
  <2>3. /\ c.queue = conns[r][n].queue /\ c.record = conns[r][n].record
        /\ c.start = conns[r][n].start /\ c.todo = conns[r][n].todo
    BY <2>1, <2>2 DEF Becomes, Conn
  <2>4. nextId' = nextId /\ UNCHANGED <<records, registry>>
    BY <1>2 DEF Reply, Drop
  <2>5. QED
    BY <2>1, <2>2, <2>3, <2>4, NextIdIs, IdsSame
<1>3. ASSUME NEW r \in Runs, NEW n, NEW normal \in BOOLEAN,
             Becomes(r, n, Ended(conns[r][n], normal)),
             nextId' = nextId + 1, UNCHANGED <<records, registry>>
      PROVE  IdsInv'
  <2>1. PICK c : c = Ended(conns[r][n], normal)
    OBVIOUS
  <2>2. /\ c.queue = conns[r][n].queue /\ c.record = conns[r][n].record
        /\ c.start = conns[r][n].start /\ c.todo = conns[r][n].todo
    BY <1>3, <2>1, EndedIs DEF Becomes
  <2>3. QED
    BY <1>3, <2>1, <2>2, NextIdIs, IdsSame
<1>4. ASSUME NEW r \in Runs, Stop(r) \/ Notice(r)
      PROVE  IdsInv'
  <2>1. nextId' = nextId + 1 /\ UNCHANGED <<records, registry>>
    BY <1>4 DEF Stop, Notice
  <2>2. CASE Stop(r)
    BY <1>3, <2>1, <2>2, StopConn
  <2>3. CASE Notice(r)
    BY <1>3, <2>1, <2>3, NoticeConn
  <2>4. QED
    BY <1>4, <2>2, <2>3
<1>5. ASSUME NEW r \in Runs, Record(r)
      PROVE  IdsInv'
  <2>1. PICK n, m : n = Len(conns[r]) /\ m = NextRow(r)
    OBVIOUS
  <2>2. nextId' = nextId + 1 /\ UNCHANGED <<records, registry>>
    BY <1>5 DEF Record
  <2>3. CASE Becomes(r, n, Ended(conns[r][n], FALSE))
    BY <1>3, <2>2, <2>3
  <2>4. CASE Becomes(r, n, Passing(r))
    <3>1. PICK c : c = Passing(r)
      OBVIOUS
    <3>2. conns[r][n] \in Conn /\ n \in DOMAIN conns[r] /\ m \in RecordRow /\ m.id = nextId
      BY <1>5, <2>1, <2>4, RecordConn DEF Becomes, NextRow, Row
    <3>3. /\ c.queue = Append(conns[r][n].queue, m) /\ c.record = conns[r][n].record
          /\ c.start = conns[r][n].start /\ c.todo = conns[r][n].todo
      BY <2>1, <3>1, <3>2 DEF Passing, Conn
    <3>4. /\ conns[r][n].start < m.id /\ \A x \in RowsIn(conns[r][n]) : x.id < m.id
          /\ InOrder(conns[r][n])
      <4>1. conns[r][n].start \in 1..(nextId - 1) /\ InOrder(conns[r][n])
            /\ \A i \in HeldIds(r, n) : i \in 1..(nextId - 1)
        BY <3>2 DEF IdsInv
      <4>2. \A x \in RowsIn(conns[r][n]) : x.id \in HeldIds(r, n)
        BY DEF HeldIds, IdsIn
      <4>3. QED
        BY <3>2, <4>1, <4>2, NextIdIs
    <3>5. RowsIn(c) = RowsIn(conns[r][n]) \cup {m} /\ InOrder(c)
      BY <3>2, <3>3, <3>4, AppendIn
    <3>6. \A q \in Runs : \A l : Waits(q, l)' <=> Waits(q, l)
      BY <2>2 DEF Waits
    <3>7. \A i \in IdsIn(c, Waits(r, n)') : i \in HeldIds(r, n) \/ i = nextId
      BY <3>2, <3>3, <3>5, <3>6 DEF HeldIds, IdsIn
    <3>8. QED
      BY <2>2, <2>4, <3>1, <3>3, <3>5, <3>6, <3>7, NextIdIs, IdsBecomes
  <2>5. QED
    BY <1>5, <2>1, <2>3, <2>4, RecordConn
<1>6. ASSUME UNCHANGED <<conns, records, registry, nextId>>
      PROVE  IdsInv'
  BY <1>6 DEF IdsInv, HeldIds, Waits
<1>7. ASSUME NEW r \in Runs, LookUp(r) \/ LookUpInserts(r) \/ Break(r)
      PROVE  IdsInv'
  BY <1>6, <1>7 DEF LookUp, LookUpInserts, Break
<1>8. ASSUME NEW r \in Runs, NEW k \in DOMAIN conns[r], HandleAppRun(r, k)
      PROVE  IdsInv'
  <2>1. PICK c : c = Handled(r, k)
    OBVIOUS
  <2>2. Becomes(r, k, c) /\ conns[r][k] \in Conn
    BY <1>8, <2>1, HandleAppRunConn DEF Becomes
  <2>3. registry[r].conn = k /\ registry[r].at = "AppRun"
        /\ registry' = [registry EXCEPT ![r] = [conn |-> k, at |-> "AppStop"]]
    BY <1>8 DEF HandleAppRun, At, Goes
  <2>4. /\ Waits(r, k) /\ ~Waits(r, k)'
        /\ \A q \in Runs : \A l \in DOMAIN conns[q] :
             <<q, l>> # <<r, k>> => (Waits(q, l)' <=> Waits(q, l))
    <3>1. registry'[r].conn = k /\ registry'[r].at = "AppStop"
          /\ \A q \in Runs \ {r} : registry'[q] = registry[q]
      BY <2>3 DEF Types
    <3>2. \A l \in DOMAIN conns[r] : l \in Nat
      BY ConnIs
    <3>3. Waits(r, k) /\ ~Waits(r, k)'
      BY <2>3, <3>1, <3>2 DEF Waits
    <3>4. ASSUME NEW q \in Runs, NEW l \in DOMAIN conns[q], <<q, l>> # <<r, k>>
          PROVE  Waits(q, l)' <=> Waits(q, l)
      <4>1. CASE q = r
        BY <2>3, <3>1, <3>2, <3>4, <4>1 DEF Waits
      <4>2. CASE q # r
        BY <3>1, <4>2 DEF Waits
      <4>3. QED
        BY <4>1, <4>2
    <3>5. QED
      BY <3>3, <3>4
  <2>5. conns[r][k].todo = {}
    BY <2>2, <2>4 DEF Becomes, Order, RunOrder, ConnOrder
  <2>6. /\ c.todo = {} /\ c.start = conns[r][k].start
        /\ c.queue = conns[r][k].queue \/ c.queue = <<>>
    BY <2>1, <2>2, <2>5 DEF Handled, Conn
  <2>7. InOrder(conns[r][k]) /\ \A i \in HeldIds(r, k) : i \in 1..(nextId - 1)
    BY <2>2 DEF IdsInv, Becomes
  <2>8. InOrder(c) /\ RowsIn(c) \subseteq RowsIn(conns[r][k])
        /\ \A m \in RowsIn(c) : conns[r][k].start < m.id
    BY <2>5, <2>6, <2>7 DEF InOrder, RowsIn
  <2>9. \A i \in IdsIn(c, Waits(r, k)') : i \in HeldIds(r, k) /\ \E m \in RowsIn(c) : i = m.id
    BY <2>4, <2>8 DEF HeldIds, IdsIn
  <2>10. conns[r][k].start \in HeldIds(r, k) /\ conns[r][k].start \in Nat
    BY <2>4, ConnIs DEF HeldIds, IdsIn
  <2>11. conns[r][k].start \notin IdsIn(c, Waits(r, k)') /\ nextId \notin IdsIn(c, Waits(r, k)')
    <3>1. \A m \in RowsIn(c) : m.id \in IdsIn(c, Waits(r, k)')
      BY DEF IdsIn
    <3>2. \A i \in IdsIn(c, Waits(r, k)') : i \in 1..(nextId - 1)
      BY <2>7, <2>9
    <3>3. nextId \notin 1..(nextId - 1)
      BY NextIdIs
    <3>4. ASSUME conns[r][k].start \in IdsIn(c, Waits(r, k)')
          PROVE  FALSE
      <4>1. PICK m \in RowsIn(c) : conns[r][k].start = m.id
        BY <2>9, <3>4
      <4>2. QED
        BY <2>8, <2>10, <4>1
    <3>5. QED
      BY <3>2, <3>3, <3>4
  <2>12. \E x : /\ records' = records \cup {x} /\ nextId' \in Nat /\ nextId' >= nextId
                /\ x.id = conns[r][k].start \/ (x.id = nextId /\ nextId' = nextId + 1)
    <3>1. CASE conns[r][k].reconnect
      <4>1. records' = records \cup {Row(nextId, r, -1, "Reconnect", 0)} /\ nextId' = nextId + 1
        BY <1>8, <3>1 DEF HandleAppRun
      <4>2. Row(nextId, r, -1, "Reconnect", 0).id = nextId
        BY DEF Row
      <4>3. QED
        BY <4>1, <4>2, NextIdIs
    <3>2. CASE ~conns[r][k].reconnect
      <4>1. records' = records \cup {Row(conns[r][k].start, r, 0, "AppStart", 0)} /\ nextId' = nextId
        BY <1>8, <3>2 DEF HandleAppRun
      <4>2. Row(conns[r][k].start, r, 0, "AppStart", 0).id = conns[r][k].start
        BY DEF Row
      <4>3. QED
        BY <4>1, <4>2, NextIdIs
    <3>3. QED
      BY <3>1, <3>2
  <2>13. /\ records \subseteq records'
         /\ \A m \in records' \ records :
              /\ m.id \in HeldIds(r, k) \/ m.id \in nextId..(nextId' - 1)
              /\ m.id \notin IdsIn(c, Waits(r, k)')
              /\ \A n \in records' \ records : m = n
    BY <2>10, <2>11, <2>12, NextIdIs
  <2>14. QED
    BY <2>2, <2>4, <2>6, <2>8, <2>9, <2>12, <2>13, IdsBecomes
<1>9. ASSUME NEW r \in Runs, NEW k \in DOMAIN conns[r],
             HandleAppStop(r, k) \/ NextConnection(r, k)
      PROVE  IdsInv'
  <2>1. UNCHANGED <<conns, records, nextId>>
    BY <1>9 DEF HandleAppStop, NextConnection
  <2>2. \A q \in Runs : \A l \in DOMAIN conns[q] : Waits(q, l)' <=> Waits(q, l)
    <3>1. \A q \in Runs \ {r} : registry'[q] = registry[q]
      BY <1>9 DEF HandleAppStop, NextConnection, Goes, Types
    <3>2. k \in Nat /\ \A l \in DOMAIN conns[r] : l \in Nat
      BY ConnIs
    <3>3. CASE HandleAppStop(r, k)
      <4>1. /\ registry[r].conn = k /\ registry[r].at = "AppStop"
            /\ registry'[r].conn = k /\ registry'[r].at = "task"
        BY <3>3 DEF HandleAppStop, At, Goes, Types
      <4>2. QED
        BY <3>1, <4>1 DEF Waits
    <3>4. CASE NextConnection(r, k)
      <4>1. /\ registry[r].conn = k /\ registry[r].at # "AppRun"
            /\ registry'[r].conn = k + 1 /\ registry'[r].at = "AppRun"
        BY <3>4 DEF NextConnection, At, Goes, Types
      <4>2. \A l \in DOMAIN conns[r] : Waits(r, l)' <=> Waits(r, l)
        BY <3>2, <4>1 DEF Waits
      <4>3. QED
        BY <3>1, <4>2 DEF Waits
    <3>5. QED
      BY <1>9, <3>3, <3>4
  <2>3. \A q \in Runs : \A l \in DOMAIN conns[q] : HeldIds(q, l)' = HeldIds(q, l)
    BY <2>1, <2>2 DEF HeldIds, IdsIn
  <2>4. QED
    BY <2>1, <2>3 DEF IdsInv
<1>10. ASSUME NEW r \in Runs, NEW k \in DOMAIN conns[r], Take(r, k)
       PROVE  IdsInv'
  <2>1. PICK c, m : c = conns[r][k] /\ m = Head(c.queue)
    OBVIOUS
  <2>2. c \in Conn /\ c.queue # <<>> /\ c.todo = {} /\ UNCHANGED <<records, registry, nextId>>
    BY <1>10, <2>1, ConnIs DEF Take
  <2>3. PICK d \in Conn : Becomes(r, k, d) /\ InHandOf(c, m, d)
    BY <1>10, <2>1, TakeConn
  <2>4. RowsIn(d) = RowsIn(c) /\ InOrder(d) /\ d.start = c.start
    <3>1. InOrder(c)
      BY <2>1 DEF IdsInv
    <3>2. QED
      BY <2>1, <2>2, <2>3, <3>1, TakeIn DEF InHandOf
  <2>5. \A q \in Runs : \A l : Waits(q, l)' <=> Waits(q, l)
    BY <2>2 DEF Waits
  <2>6. \A i \in IdsIn(d, Waits(r, k)') : i \in HeldIds(r, k)
    BY <2>1, <2>4, <2>5 DEF HeldIds, IdsIn
  <2>7. QED
    BY <2>1, <2>2, <2>3, <2>4, <2>5, <2>6, NextIdIs, IdsBecomes
<1>11. ASSUME NEW r \in Runs, NEW k \in DOMAIN conns[r], StoreRecord(r, k)
       PROVE  IdsInv'
  <2>1. PICK c, d : c = conns[r][k] /\ d = Done(r, k, "record")
    OBVIOUS
  <2>2. /\ c \in Conn /\ "record" \in c.todo /\ Becomes(r, k, d)
        /\ records' = records \cup {c.record} /\ UNCHANGED <<registry, nextId>>
    BY <1>11, <2>1, ConnIs, DoneConn DEF StoreRecord
  <2>3. InOrder(c) /\ ~Waits(r, k)
    <3>1. ConnOrder(r, k)
      BY DEF Order, RunOrder
    <3>2. QED
      BY <2>1, <2>2, <3>1 DEF IdsInv, ConnOrder
  <2>4. /\ RowsIn(d) = {c.queue[i] : i \in DOMAIN c.queue}
        /\ RowsIn(c) = RowsIn(d) \cup {c.record} /\ InOrder(d)
    BY <2>1, <2>2, <2>3, StoreIn DEF Done
  <2>5. \A q \in Runs : \A l : Waits(q, l)' <=> Waits(q, l)
    BY <2>2 DEF Waits
  <2>6. /\ \A i \in IdsIn(d, Waits(r, k)') : i \in HeldIds(r, k)
        /\ c.record.id \in HeldIds(r, k)
    BY <2>1, <2>3, <2>4, <2>5 DEF HeldIds, IdsIn
  <2>7. c.record.id \notin IdsIn(d, Waits(r, k)')
    <3>1. ASSUME NEW i \in DOMAIN c.queue
          PROVE  c.record.id # c.queue[i].id
      <4>1. c.record.id < c.queue[i].id /\ c.queue[i] \in RecordRow /\ c.record \in RecordRow
        BY <2>2, <2>3 DEF InOrder, Conn
      <4>2. QED
        BY <4>1 DEF RecordRow
    <3>2. QED
      BY <2>3, <2>4, <2>5, <3>1 DEF IdsIn
  <2>8. d.start = c.start
    BY <2>1, <2>2 DEF Done, Conn
  <2>9. QED
    BY <2>1, <2>2, <2>4, <2>5, <2>6, <2>7, <2>8, NextIdIs, IdsBecomes
<1>12. ASSUME NEW r \in Runs, NEW k \in DOMAIN conns[r], RunStatement(r, k)
       PROVE  IdsInv'
  <2>1. PICK c, d : c = conns[r][k] /\ d = Done(r, k, "span")
    OBVIOUS
  <2>2. c \in Conn /\ Becomes(r, k, d) /\ UNCHANGED <<records, registry, nextId>>
    BY <1>12, <2>1, ConnIs, DoneConn DEF RunStatement
  <2>3. /\ d.queue = c.queue /\ d.record = c.record /\ d.start = c.start
        /\ ("record" \in d.todo <=> "record" \in c.todo)
    BY <2>1, <2>2 DEF Done, Conn
  <2>4. QED
    BY <2>1, <2>2, <2>3, NextIdIs, IdsSame
<1>13. ASSUME InitTask
       PROVE  IdsInv'
  BY <1>6, <1>13 DEF InitTask, InitFinds, InitLooksAgain, InitMarksRun, InitMarksSpans
<1>14. ASSUME Crash
       PROVE  IdsInv'
  <2>1. records' = records /\ nextId' = IdAfterLast /\ \A r \in Runs : conns'[r] = <<>>
    BY <1>14 DEF Crash
  <2>2. \A r \in Runs : DOMAIN conns'[r] = {}
    BY <2>1
  <2>3. QED
    BY <2>1, <2>2, IdAfterLastIs DEF IdsInv
<1>15. QED
  BY <1>1, <1>2, <1>4, <1>5, <1>7, <1>8, <1>9, <1>10, <1>11, <1>12, <1>13, <1>14
     DEF Next, Client, Handler, Server
-----------------------------------------------------------------------------
\* What a step makes of the connections.
LEMMA ConnStep ==
  ASSUME Types, Order, IdsInv, IndexInv, Next, NEW r \in Runs, NEW k \in DOMAIN conns'[r]
  PROVE  \/ /\ k \in DOMAIN conns[r] /\ (Waits(r, k)' => Waits(r, k))
            /\ conns'[r][k].reconnect <=> conns[r][k].reconnect
         \/ conns'[r][k].reconnect <=> next[r] # 0
<1> USE DEF clientVars, dbVars, initVars, historyVars
<1>1. ASSUME NEW q \in Runs, Connect(q)
      PROVE  \/ /\ k \in DOMAIN conns[r] /\ (Waits(r, k)' => Waits(r, k))
                /\ conns'[r][k].reconnect <=> conns[r][k].reconnect
             \/ conns'[r][k].reconnect <=> next[r] # 0
  <2>1. PICK c \in Conn : /\ conns' = [conns EXCEPT ![q] = Append(@, c)]
                          /\ (c.reconnect <=> next[q] # 0)
    BY <1>1, ConnectConn
  <2>2. PICK n : n = Len(conns[q])
    OBVIOUS
  <2>3. /\ DOMAIN conns'[q] = DOMAIN conns[q] \cup {n + 1}
        /\ conns'[q][n + 1] = c /\ \A l \in DOMAIN conns[q] : conns'[q][l] = conns[q][l]
        /\ \A p \in Runs \ {q} : conns'[p] = conns[p]
    BY <2>1, <2>2, ConnAdded
  <2>4. Waits(r, k)' <=> Waits(r, k)
    BY <1>1 DEF Connect, Waits
  <2>5. QED
    BY <2>1, <2>3, <2>4
<1>2. ASSUME NEW q \in Runs, NEW l, NEW c, Becomes(q, l, c), c.reconnect <=> conns[q][l].reconnect,
             Waits(r, k)' => Waits(r, k)
      PROVE  /\ k \in DOMAIN conns[r] /\ (Waits(r, k)' => Waits(r, k))
             /\ conns'[r][k].reconnect <=> conns[r][k].reconnect
  <2>1. /\ conns'[q][l] = c
        /\ \A p \in Runs : /\ DOMAIN conns'[p] = DOMAIN conns[p]
                           /\ \A j \in DOMAIN conns[p] :
                                <<p, j>> # <<q, l>> => conns'[p][j] = conns[p][j]
    BY <1>2, ConnChanged
  <2>2. CASE <<r, k>> = <<q, l>>
    BY <1>2, <2>1, <2>2
  <2>3. CASE <<r, k>> # <<q, l>>
    BY <1>2, <2>1, <2>3
  <2>4. QED
    BY <2>2, <2>3
<1>3. ASSUME registry' = registry
      PROVE  Waits(r, k)' => Waits(r, k)
  BY <1>3 DEF Waits
<1>4. ASSUME NEW q \in Runs, Reply(q) \/ Drop(q)
      PROVE  k \in DOMAIN conns[r] /\ (Waits(r, k)' => Waits(r, k))
             /\ (conns'[r][k].reconnect <=> conns[r][k].reconnect)
  <2>1. PICK n, phase : Becomes(q, n, [conns[q][n] EXCEPT !.phase = phase])
    BY <1>4, ReplyConn, DropConn
  <2>2. PICK c : c = [conns[q][n] EXCEPT !.phase = phase]
    OBVIOUS
  <2>3. c.reconnect <=> conns[q][n].reconnect
    BY <2>1, <2>2 DEF Becomes, Conn
  <2>4. Waits(r, k)' => Waits(r, k)
    BY <1>3, <1>4 DEF Reply, Drop
  <2>5. QED
    BY <1>2, <2>1, <2>2, <2>3, <2>4
<1>5. ASSUME NEW q \in Runs, NEW n, NEW normal \in BOOLEAN,
             Becomes(q, n, Ended(conns[q][n], normal)), registry' = registry
      PROVE  k \in DOMAIN conns[r] /\ (Waits(r, k)' => Waits(r, k))
             /\ (conns'[r][k].reconnect <=> conns[r][k].reconnect)
  <2>1. PICK c : c = Ended(conns[q][n], normal)
    OBVIOUS
  <2>2. c.reconnect <=> conns[q][n].reconnect
    BY <1>5, <2>1, EndedIs DEF Becomes
  <2>3. QED
    BY <1>2, <1>3, <1>5, <2>1, <2>2
<1>6. ASSUME NEW q \in Runs, Record(q) \/ Stop(q) \/ Notice(q)
      PROVE  k \in DOMAIN conns[r] /\ (Waits(r, k)' => Waits(r, k))
             /\ (conns'[r][k].reconnect <=> conns[r][k].reconnect)
  <2>1. registry' = registry
    BY <1>6 DEF Record, Stop, Notice
  <2>2. PICK n : n = Len(conns[q])
    OBVIOUS
  <2>3. ASSUME Becomes(q, n, Passing(q))
        PROVE  k \in DOMAIN conns[r] /\ (Waits(r, k)' => Waits(r, k))
               /\ (conns'[r][k].reconnect <=> conns[r][k].reconnect)
    <3>1. PICK c : c = Passing(q)
      OBVIOUS
    <3>2. c.reconnect <=> conns[q][n].reconnect
      BY <2>2, <2>3, <3>1 DEF Passing, Becomes, Conn
    <3>3. QED
      BY <1>2, <1>3, <2>1, <2>3, <3>1, <3>2
  <2>4. QED
    BY <1>5, <1>6, <2>1, <2>2, <2>3, RecordConn, StopConn, NoticeConn
<1>7. ASSUME UNCHANGED <<conns, registry>>
      PROVE  k \in DOMAIN conns[r] /\ (Waits(r, k)' => Waits(r, k))
             /\ (conns'[r][k].reconnect <=> conns[r][k].reconnect)
  BY <1>3, <1>7
<1>8. ASSUME NEW q \in Runs, LookUp(q) \/ LookUpInserts(q) \/ Break(q)
      PROVE  k \in DOMAIN conns[r] /\ (Waits(r, k)' => Waits(r, k))
             /\ (conns'[r][k].reconnect <=> conns[r][k].reconnect)
  BY <1>7, <1>8 DEF LookUp, LookUpInserts, Break
<1>9. ASSUME InitTask
      PROVE  k \in DOMAIN conns[r] /\ (Waits(r, k)' => Waits(r, k))
             /\ (conns'[r][k].reconnect <=> conns[r][k].reconnect)
  BY <1>7, <1>9 DEF InitTask, InitFinds, InitLooksAgain, InitMarksRun, InitMarksSpans
<1>10. ASSUME Crash
       PROVE  FALSE
  <2>1. conns'[r] = <<>> /\ DOMAIN <<>> = {}
    BY <1>10 DEF Crash
  <2>2. QED
    BY <2>1
<1>11. ASSUME NEW q \in Runs, NEW l \in DOMAIN conns[q],
              Take(q, l) \/ StoreRecord(q, l) \/ RunStatement(q, l)
       PROVE  k \in DOMAIN conns[r] /\ (Waits(r, k)' => Waits(r, k))
              /\ (conns'[r][k].reconnect <=> conns[r][k].reconnect)
  <2>1. registry' = registry
    BY <1>11 DEF Take, StoreRecord, RunStatement
  <2>2. \E c : Becomes(q, l, c) /\ (c.reconnect <=> conns[q][l].reconnect)
    <3>1. CASE Take(q, l)
      BY <3>1, TakeConn DEF InHandOf
    <3>2. CASE StoreRecord(q, l) \/ RunStatement(q, l)
      <4>1. PICK work : Becomes(q, l, Done(q, l, work))
        BY <3>2, DoneConn DEF StoreRecord, RunStatement
      <4>2. PICK c : c = Done(q, l, work)
        OBVIOUS
      <4>3. c.reconnect <=> conns[q][l].reconnect
        BY <4>1, <4>2 DEF Done, Becomes, Conn
      <4>4. QED
        BY <4>1, <4>2, <4>3
    <3>3. QED
      BY <1>11, <3>1, <3>2
  <2>3. QED
    BY <1>2, <1>3, <2>1, <2>2
<1>12. ASSUME NEW q \in Runs, NEW l \in DOMAIN conns[q], HandleAppRun(q, l)
       PROVE  k \in DOMAIN conns[r] /\ (Waits(r, k)' => Waits(r, k))
              /\ (conns'[r][k].reconnect <=> conns[r][k].reconnect)
  <2>1. PICK c : c = Handled(q, l)
    OBVIOUS
  <2>2. Becomes(q, l, c) /\ (c.reconnect <=> conns[q][l].reconnect)
    <3>1. Becomes(q, l, c)
      BY <1>12, <2>1, HandleAppRunConn
    <3>2. QED
      BY <2>1, <3>1 DEF Handled, Conn, Becomes
  <2>3. Waits(r, k)' => Waits(r, k)
    <3>1. registry'[q].conn = registry[q].conn /\ registry'[q].at = "AppStop"
          /\ \A p \in Runs \ {q} : registry'[p] = registry[p]
      BY <1>12 DEF HandleAppRun, At, Goes, Types
    <3>2. QED
      BY <3>1 DEF Waits
  <2>4. QED
    BY <1>2, <2>2, <2>3
<1>13. ASSUME NEW q \in Runs, NEW l \in DOMAIN conns[q],
              HandleAppStop(q, l) \/ NextConnection(q, l)
       PROVE  k \in DOMAIN conns[r] /\ (Waits(r, k)' => Waits(r, k))
              /\ (conns'[r][k].reconnect <=> conns[r][k].reconnect)
  <2>1. conns' = conns
    BY <1>13 DEF HandleAppStop, NextConnection
  <2>2. k \in Nat /\ l \in Nat
    BY <2>1, ConnIs
  <2>3. CASE HandleAppStop(q, l)
    <3>1. registry'[q].conn = registry[q].conn /\ registry'[q].at = "task"
          /\ \A p \in Runs \ {q} : registry'[p] = registry[p]
      BY <2>3 DEF HandleAppStop, At, Goes, Types
    <3>2. QED
      BY <2>1, <3>1 DEF Waits
  <2>4. CASE NextConnection(q, l)
    <3>1. CASE q # r
      BY <2>1, <2>4, <3>1 DEF NextConnection, Goes, Types, Waits
    <3>2. CASE q = r
      <4>1. registry[r].conn = l /\ registry'[r].conn = l + 1
        BY <2>4, <3>2 DEF NextConnection, At, Goes, Types
      <4>2. QED
        BY <2>1, <2>2, <4>1 DEF Waits
    <3>3. QED
      BY <3>1, <3>2
  <2>5. QED
    BY <1>13, <2>3, <2>4
<1>14. QED
  BY <1>1, <1>4, <1>6, <1>8, <1>9, <1>10, <1>11, <1>12, <1>13
     DEF Next, Client, Handler, Server

\* A client that has begun never begins again.
LEMMA NextStays ==
  ASSUME Types, Order, IdsInv, IndexInv, Next, NEW r \in Runs
  PROVE  next[r] # 0 => next'[r] # 0
<1> USE DEF clientVars, dbVars, initVars, historyVars
<1>1. ASSUME NEW q \in Runs, Reply(q)
      PROVE  next[r] # 0 => next'[r] # 0
  <2>1. CASE q = r
    BY <1>1, <2>1, ReplyNext
  <2>2. CASE q # r
    BY <1>1, <2>2 DEF Reply, Types
  <2>3. QED
    BY <2>1, <2>2
<1>2. ASSUME NEW q \in Runs, Record(q)
      PROVE  next[r] # 0 => next'[r] # 0
  <2>1. next' = next \/ next' = [next EXCEPT ![q] = @ + 1]
    BY <1>2, RecordConn
  <2>2. QED
    BY <2>1 DEF Types
<1>3. ASSUME NEW q \in Runs, Connect(q)
      PROVE  next[r] # 0 => next'[r] # 0
  BY <1>3 DEF Connect, Types
<1>4. ASSUME NEW q \in Runs,
             Stop(q) \/ Break(q) \/ Drop(q) \/ LookUp(q) \/ LookUpInserts(q) \/ Notice(q)
      PROVE  next' = next
  BY <1>4 DEF Stop, Break, Drop, LookUp, LookUpInserts, Notice
<1>5. ASSUME NEW q \in Runs, NEW k \in DOMAIN conns[q],
             \/ HandleAppRun(q, k) \/ HandleAppStop(q, k) \/ NextConnection(q, k)
             \/ Take(q, k) \/ StoreRecord(q, k) \/ RunStatement(q, k)
      PROVE  next' = next
  <2>1. UNCHANGED clientVars
    BY <1>5 DEF HandleAppRun, HandleAppStop, NextConnection, Take, StoreRecord, RunStatement
  <2>2. QED
    BY <2>1
<1>6. ASSUME InitTask \/ Crash
      PROVE  next' = next
  BY <1>6 DEF InitTask, InitFinds, InitLooksAgain, InitMarksRun, InitMarksSpans, Crash
<1>7. QED
  BY <1>1, <1>2, <1>3, <1>4, <1>5, <1>6 DEF Next, Client, Handler, Server

\* The row of a run is made by the AppRun of its first connection.
LEMMA KnownBy ==
  ASSUME Types, Order, Next, NEW r \in Runs, appRun[r] = "none", appRun'[r] # "none"
  PROVE  \E k \in DOMAIN conns[r] : HandleAppRun(r, k) /\ ~conns[r][k].reconnect
<1> USE DEF clientVars, dbVars, initVars, historyVars
<1>1. ASSUME NEW q \in Runs, Client(q) \/ Handler(q)
      PROVE  FALSE
  <2>1. appRun' = appRun
    BY <1>1 DEF Client, Handler, Connect, Record, Stop, Break, Reply, Drop, LookUp, LookUpInserts,
                Notice
  <2>2. QED
    BY <2>1
<1>2. ASSUME NEW q \in Runs, NEW k \in DOMAIN conns[q], HandleAppRun(q, k)
      PROVE  q = r /\ ~conns[q][k].reconnect
  BY <1>2 DEF HandleAppRun, Types
<1>3. ASSUME NEW q \in Runs, NEW k, HandleAppStop(q, k)
      PROVE  FALSE
  BY <1>3 DEF HandleAppStop, Types
<1>4. ASSUME NEW q \in Runs, NEW k,
             NextConnection(q, k) \/ Take(q, k) \/ StoreRecord(q, k) \/ RunStatement(q, k)
      PROVE  FALSE
  <2>1. appRun' = appRun
    BY <1>4 DEF NextConnection, Take, StoreRecord, RunStatement
  <2>2. QED
    BY <2>1
<1>5. ASSUME InitTask
      PROVE  FALSE
  <2>1. r \notin toMark
    BY DEF Order, Types
  <2>2. appRun'[r] = appRun[r]
    BY <1>5, <2>1 DEF InitTask, InitFinds, InitLooksAgain, InitMarksRun, InitMarksSpans, Types
  <2>3. QED
    BY <2>2
<1>6. ASSUME Crash
      PROVE  FALSE
  BY <1>6 DEF Crash
<1>7. QED
  BY <1>1, <1>2, <1>3, <1>4, <1>5, <1>6 DEF Next, Server

\* A run without a row, and with no AppRun to make one, never gets one.
LEMMA UnknownStays ==
  ASSUME Types, Order, IdsInv, IndexInv, Next, NEW r \in Runs, Unknown(r)
  PROVE  Unknown(r)'
<1>1. next'[r] # 0
  BY NextStays DEF Unknown
<1>2. appRun'[r] = "none"
  <2>1. ASSUME NEW k \in DOMAIN conns[r], HandleAppRun(r, k), ~conns[r][k].reconnect
        PROVE  FALSE
    <3>1. Waits(r, k)
      BY <2>1 DEF HandleAppRun, At, Waits
    <3>2. QED
      BY <2>1, <3>1 DEF Unknown
  <2>2. QED
    BY <2>1, KnownBy DEF Unknown
<1>3. ASSUME NEW k \in DOMAIN conns'[r], Waits(r, k)'
      PROVE  conns'[r][k].reconnect
  BY <1>3, ConnStep DEF Unknown
<1>4. QED
  BY <1>1, <1>2, <1>3 DEF Unknown

\* The database forgets no record.
LEMMA RecordsStay ==
  ASSUME Next
  PROVE  records \subseteq records'
<1> USE DEF clientVars, dbVars, initVars, historyVars
<1>1. ASSUME NEW q \in Runs, Client(q) \/ Handler(q)
      PROVE  records' = records
  BY <1>1 DEF Client, Handler, Connect, Record, Stop, Break, Reply, Drop, LookUp, LookUpInserts,
              Notice
<1>2. ASSUME NEW q \in Runs, NEW k \in DOMAIN conns[q], HandleAppRun(q, k) \/ StoreRecord(q, k)
      PROVE  records \subseteq records'
  BY <1>2 DEF HandleAppRun, StoreRecord
<1>3. ASSUME NEW q \in Runs, NEW k \in DOMAIN conns[q],
             HandleAppStop(q, k) \/ NextConnection(q, k) \/ Take(q, k) \/ RunStatement(q, k)
      PROVE  records' = records
  BY <1>3 DEF HandleAppStop, NextConnection, Take, RunStatement
<1>4. ASSUME InitTask \/ Crash
      PROVE  records' = records
  BY <1>4 DEF InitTask, InitFinds, InitLooksAgain, InitMarksRun, InitMarksSpans, Crash
<1>5. QED
  BY <1>1, <1>2, <1>3, <1>4 DEF Next, Server
-----------------------------------------------------------------------------
\* A step of the k-th connection of r, which becomes c.
LEMMA IndexBecomes ==
  ASSUME Types, Order, IdsInv, IndexInv, Next, NEW r \in Runs, NEW k, NEW c, Becomes(r, k, c),
         c.start = conns[r][k].start, c.reconnect <=> conns[r][k].reconnect,
         c.phase = "new" => conns[r][k].phase = "new",
         nextId' \in Nat, nextId' >= nextId,
         \A q \in Runs : \A l \in DOMAIN conns[q] : Waits(q, l)' => Waits(q, l),
         \A q \in Runs \ {r} : next'[q] = next[q] /\ link'[q] = link[q] /\ appRun'[q] = appRun[q],
         next'[r] = next[r] \/ \A l \in DOMAIN conns'[r] : conns'[r][l].phase # "new",
         next'[r] # 0,
         link'[r] = "up" => next'[r] < nextId' \/ Unknown(r)',
         appRun'[r] # "none" => appRun[r] # "none" \/ \E m \in RowsOf(r)' : m.idx = 0,
         \A m \in records' \ records :
           /\ m.id > m.idx /\ m.idx >= -1 /\ m.run = r
           /\ \A l \in DOMAIN conns[r] : Waits(r, l)' => conns[r][l].reconnect
           /\ m.idx >= 0 => m.id \in HeldIds(r, k) /\ (c.phase = "new" => ~c.reconnect),
         \A m \in RowsIn(c) :
           \/ m \in HeldRows(r, k)
           \/ /\ m.id >= nextId /\ k = Len(conns[r])
              /\ m.id > m.idx \/ Unknown(r)'
              /\ m.idx >= 1 /\ m.run = r
  PROVE  IndexInv'
<1> DEFINE n == Len(conns[r])
<1>1. /\ conns'[r][k] = c /\ k \in DOMAIN conns[r]
      /\ \A q \in Runs : /\ DOMAIN conns'[q] = DOMAIN conns[q]
                         /\ \A l \in DOMAIN conns[q] :
                              <<q, l>> # <<r, k>> => conns'[q][l] = conns[q][l]
  BY ConnChanged DEF Becomes
<1>2. /\ nextId \in Nat /\ Len(conns[r]) \in Nat
      /\ \A l \in DOMAIN conns[r] : l \in Nat /\ l <= Len(conns[r])
  BY <1>1, ConnIs DEF Types
<1>3. ASSUME NEW q \in Runs \ {r}
      PROVE  RowsOf(q)' = RowsOf(q)
  BY RecordsStay DEF RowsOf
<1>4. RowsOf(r) \subseteq RowsOf(r)'
  BY RecordsStay DEF RowsOf
<1>5. ASSUME NEW q \in Runs, NEW l \in DOMAIN conns[q]
      PROVE  IndexConn(q, l) /\ ConnOrder(q, l)
  BY DEF IndexInv, IndexRun, Order, RunOrder
<1>6. ASSUME NEW q \in Runs, NEW l \in DOMAIN conns[q], <<q, l>> # <<r, k>>
      PROVE  /\ HeldRows(q, l)' = HeldRows(q, l)
             /\ HeldIds(q, l)' \subseteq HeldIds(q, l)
  <2>1. conns'[q][l] = conns[q][l]
    BY <1>1, <1>6
  <2>2. QED
    BY <2>1 DEF HeldRows, HeldIds, IdsIn
<1>7. /\ HeldRows(r, k)' = RowsIn(c)
      /\ \A i \in HeldIds(r, k)' : i \in HeldIds(r, k) \/ (i >= nextId /\ k = Len(conns[r]))
  <2>1. HeldRows(r, k)' = RowsIn(c)
    BY <1>1 DEF HeldRows
  <2>2. ASSUME NEW i \in HeldIds(r, k)'
        PROVE  i \in HeldIds(r, k) \/ (i >= nextId /\ k = Len(conns[r]))
    <3>1. CASE Waits(r, k)' /\ i = c.start
      BY <1>1, <3>1 DEF HeldIds, IdsIn
    <3>2. CASE \E m \in RowsIn(c) : i = m.id
      BY <3>2 DEF HeldIds, HeldRows, IdsIn
    <3>3. QED
      BY <1>1, <2>2, <3>1, <3>2 DEF HeldIds, IdsIn
  <2>3. QED
    BY <2>1, <2>2
<1>8. \A q \in Runs : Unknown(q) => Unknown(q)'
  BY UnknownStays
<1>9. ASSUME NEW q \in Runs, NEW l \in DOMAIN conns'[q]
      PROVE  /\ conns'[q][l].start = conns[q][l].start
             /\ conns'[q][l].reconnect <=> conns[q][l].reconnect
             /\ conns'[q][l].phase = "new" => conns[q][l].phase = "new"
             /\ l \in DOMAIN conns[q]
  BY <1>1
<1>10. ASSUME NEW q \in Runs, NEW l \in DOMAIN conns'[q]
       PROVE  \A m \in HeldRows(q, l)' :
                (m.id > m.idx \/ Unknown(q)') /\ m.idx >= 1 /\ m.run = q
  <2>1. l \in DOMAIN conns[q]
    BY <1>9
  <2>2. \A m \in HeldRows(q, l) : (m.id > m.idx \/ Unknown(q)') /\ m.idx >= 1 /\ m.run = q
    BY <1>5, <1>8, <2>1 DEF IndexConn
  <2>3. CASE <<q, l>> # <<r, k>>
    BY <1>6, <2>1, <2>2, <2>3
  <2>4. CASE <<q, l>> = <<r, k>>
    BY <1>7, <2>2, <2>4
  <2>5. QED
    BY <2>3, <2>4
<1>11. ASSUME NEW q \in Runs, NEW l \in DOMAIN conns'[q], NEW j \in DOMAIN conns'[q], j < l,
              NEW i \in HeldIds(q, j)'
       PROVE  i < conns'[q][l].start
  <2>1. l \in DOMAIN conns[q] /\ j \in DOMAIN conns[q] /\ conns'[q][l].start = conns[q][l].start
    BY <1>9
  <2>2. \A x \in HeldIds(q, j) : x < conns[q][l].start
    BY <1>5, <1>11, <2>1 DEF IndexConn
  <2>3. CASE <<q, j>> # <<r, k>>
    BY <1>6, <2>1, <2>2, <2>3
  <2>4. CASE <<q, j>> = <<r, k>>
    <3>1. k # Len(conns[r])
      BY <1>2, <1>11, <2>1, <2>4
    <3>2. QED
      BY <1>7, <2>1, <2>2, <2>4, <3>1
  <2>5. QED
    BY <2>3, <2>4
<1>12. ASSUME NEW q \in Runs, NEW l \in DOMAIN conns'[q], conns'[q][l].phase = "new"
       PROVE  /\ ~conns'[q][l].reconnect => next'[q] = 1
              /\ conns'[q][l].reconnect =>
                   \A m \in RowsOf(q)' : m.idx >= 0 => m.id < conns'[q][l].start
  <2>1. /\ l \in DOMAIN conns[q] /\ conns'[q][l].start = conns[q][l].start
        /\ conns'[q][l].reconnect <=> conns[q][l].reconnect
        /\ conns[q][l].phase = "new"
    BY <1>9, <1>12
  <2>2. IndexConn(q, l) /\ ConnOrder(q, l)
    BY <1>5, <2>1
  <2>3. next'[q] = next[q]
    BY <1>12
  <2>4. ASSUME conns[q][l].reconnect, NEW m \in RowsOf(q)', m.idx >= 0
        PROVE  m.id < conns[q][l].start
    <3>1. CASE m \in RowsOf(q)
      BY <2>1, <2>2, <2>4, <3>1 DEF IndexConn
    <3>2. CASE m \notin RowsOf(q)
      <4>1. m \in records' \ records /\ m.run = q
        BY <3>2 DEF RowsOf
      <4>2. q = r /\ m.id \in HeldIds(r, k) /\ (c.phase = "new" => ~c.reconnect)
        BY <2>4, <4>1
      <4>3. l = Len(conns[r])
        BY <1>2, <2>1, <2>2, <4>2 DEF ConnOrder
      <4>4. k # l
        BY <1>1, <1>12, <2>1, <2>4, <4>2
      <4>5. k < l
        BY <1>1, <1>2, <4>3, <4>4
      <4>6. QED
        BY <1>1, <2>1, <2>2, <4>2, <4>5 DEF IndexConn
    <3>3. QED
      BY <3>1, <3>2
  <2>5. QED
    BY <2>1, <2>2, <2>3, <2>4 DEF IndexConn
<1>13. ASSUME NEW q \in Runs, NEW l \in DOMAIN conns'[q], Waits(q, l)', ~conns'[q][l].reconnect
       PROVE  RowsOf(q)' = {}
  <2>1. l \in DOMAIN conns[q] /\ ~conns[q][l].reconnect /\ Waits(q, l)
    BY <1>9, <1>13
  <2>2. RowsOf(q) = {}
    BY <1>5, <2>1 DEF IndexConn
  <2>3. CASE q = r
    <3>1. records' \ records = {}
      BY <1>13, <2>1, <2>3
    <3>2. QED
      BY <2>2, <3>1 DEF RowsOf
  <2>4. QED
    BY <1>3, <2>2, <2>3
<1>14. ASSUME NEW q \in Runs, NEW l \in DOMAIN conns'[q]
       PROVE  IndexConn(q, l)'
  BY <1>10, <1>11, <1>12, <1>13 DEF IndexConn
<1>15. \A m \in records' : m.id > m.idx /\ m.idx >= -1 /\ m.run \in Runs
  BY DEF IndexInv
<1>16. ASSUME NEW q \in Runs
       PROVE  IndexRun(q)'
  <2>1. IndexRun(q)
    BY DEF IndexInv
  <2>2. link'[q] = "up" => next'[q] < nextId' \/ Unknown(q)'
    <3>1. CASE q = r
      BY <3>1
    <3>2. CASE q # r
      <4>1. next[q] \in Nat /\ next'[q] = next[q] /\ link'[q] = link[q]
        BY <3>2 DEF Types
      <4>2. QED
        BY <1>2, <1>8, <2>1, <4>1 DEF IndexRun
    <3>3. QED
      BY <3>1, <3>2
  <2>3. next'[q] = 0 => RowsOf(q)' = {} /\ appRun'[q] = "none"
    BY <1>3, <2>1 DEF IndexRun
  <2>4. appRun'[q] # "none" => \E m \in RowsOf(q)' : m.idx = 0
    BY <1>3, <1>4, <2>1 DEF IndexRun
  <2>5. QED
    BY <1>14, <2>2, <2>3, <2>4 DEF IndexRun
<1>17. QED
  BY <1>15, <1>16 DEF IndexInv
-----------------------------------------------------------------------------
\* Initially nothing is stored.
LEMMA IndexInit == Init => IndexInv
<1> SUFFICES ASSUME Init PROVE IndexInv
  OBVIOUS
<1>1. /\ records = {}
      /\ \A r \in Runs : DOMAIN conns[r] = {} /\ link[r] = "down" /\ appRun[r] = "none"
  BY DEF Init, InitialServer
<1>2. QED
  BY <1>1 DEF IndexInv, IndexRun, RowsOf

\* A step that leaves the records and the connections.
LEMMA IndexStill ==
  ASSUME Types, Order, IdsInv, IndexInv, Next, UNCHANGED <<records, conns, next, nextId>>,
         \A q \in Runs : \A l \in DOMAIN conns[q] : Waits(q, l)' => Waits(q, l),
         \A q \in Runs : /\ link'[q] = "up" => link[q] = "up"
                         /\ appRun'[q] # "none" => appRun[q] # "none"
  PROVE  IndexInv'
<1>1. \A q \in Runs : Unknown(q) => Unknown(q)'
  BY UnknownStays
<1>2. \A q \in Runs : RowsOf(q)' = RowsOf(q) /\ \A l \in DOMAIN conns[q] :
        HeldRows(q, l)' = HeldRows(q, l) /\ HeldIds(q, l)' \subseteq HeldIds(q, l)
  BY DEF RowsOf, HeldRows, HeldIds, IdsIn
<1>3. ASSUME NEW q \in Runs, NEW l \in DOMAIN conns[q]
      PROVE  IndexConn(q, l)'
  <2>1. IndexConn(q, l)
    BY DEF IndexInv, IndexRun
  <2>2. QED
    BY <1>1, <1>2, <2>1 DEF IndexConn
<1>4. ASSUME NEW q \in Runs
      PROVE  IndexRun(q)'
  <2>1. IndexRun(q)
    BY DEF IndexInv
  <2>2. QED
    BY <1>1, <1>2, <1>3, <2>1 DEF IndexRun
<1>5. QED
  BY <1>4 DEF IndexInv

\* Where a client goes on that is replied to.
LEMMA ReplyIndex ==
  ASSUME Types, Order, IdsInv, IndexInv, NEW r \in Runs, Reply(r)
  PROVE  next'[r] < nextId \/ Unknown(r)
<1> DEFINE n == Len(conns[r])
<1>1. /\ n \in DOMAIN conns[r] /\ Latest(r) = conns[r][n] /\ conns[r][n] \in Conn
      /\ ConnOrder(r, n) /\ IndexConn(r, n) /\ conns[r][n].start \in 1..(nextId - 1)
  BY LatestIs DEF Reply, Connected, Order, RunOrder, IndexInv, IndexRun, IdsInv
<1>2. conns[r][n].phase = "new"
  BY <1>1 DEF Reply, Connected, ConnOrder
<1>3. CASE conns[r][n].reconnect
  <2>1. RowsOf(r) # {}
    BY <1>1, <1>3 DEF Reply
  <2>2. PICK m \in RowsOf(r) : LastRecordIndex(r) = m.id /\ \A x \in RowsOf(r) : x.idx <= m.idx
    BY <2>1, LastRecordIs
  <2>3. next'[r] = m.id + 1
    BY <1>1, <1>3, <2>2 DEF Reply, ResumeAfter, Types
  <2>4. m \in records /\ m.idx \in Int /\ m.id \in Nat
    BY DEF RowsOf, Types, RecordRow
  <2>5. CASE m.idx >= 0
    <3>1. m.id < conns[r][n].start
      BY <1>1, <1>2, <1>3, <2>5 DEF IndexConn
    <3>2. QED
      BY <1>1, <2>3, <2>4, <3>1, NextIdIs
  <2>6. CASE ~(m.idx >= 0)
    <3>1. \A x \in RowsOf(r) : x.idx # 0
      BY <2>2, <2>4, <2>6
    <3>2. appRun[r] = "none"
      BY <3>1 DEF IndexInv, IndexRun
    <3>3. \A k \in DOMAIN conns[r] : Waits(r, k) => conns[r][k].reconnect
      BY <2>1 DEF IndexInv, IndexRun, IndexConn
    <3>4. next[r] # 0
      BY <1>1 DEF ConnOrder
    <3>5. QED
      BY <3>2, <3>3, <3>4 DEF Unknown
  <2>7. QED
    BY <2>5, <2>6
<1>4. CASE ~conns[r][n].reconnect
  <2>1. next'[r] = next[r]
    BY <1>1, <1>4 DEF Reply, Types
  <2>2. next[r] = 1
    BY <1>1, <1>2, <1>4 DEF IndexConn
  <2>3. 1 < nextId
    <3>1. PICK s : s = conns[r][n].start
      OBVIOUS
    <3>2. s \in 1..(nextId - 1) /\ nextId \in Nat
      BY <1>1, <3>1, NextIdIs
    <3>3. QED
      BY <3>2
  <2>4. QED
    BY <2>1, <2>2, <2>3
<1>5. QED
  BY <1>3, <1>4

\* Each step keeps the ids above the indices.
LEMMA IndexStep ==
  ASSUME Types, Order, IdsInv, IndexInv, Next, Order'
  PROVE  IndexInv'
<1> USE DEF clientVars, dbVars, initVars, historyVars
<1>1. /\ \A r \in Runs : IndexRun(r) /\ RunOrder(r)
      /\ \A r \in Runs : Unknown(r) => Unknown(r)'
      /\ \A m \in records : m.id > m.idx /\ m.idx >= -1 /\ m.run \in Runs
  BY UnknownStays DEF IndexInv, Order
<1>2. ASSUME NEW r \in Runs, Connect(r)
      PROVE  IndexInv'
  <2>1. PICK c \in Conn : /\ conns' = [conns EXCEPT ![r] = Append(@, c)]
                          /\ c.phase = "new" /\ c.start = nextId /\ (c.reconnect <=> next[r] # 0)
                          /\ c.queue = <<>> /\ c.todo = {}
    BY <1>2, ConnectConn
  <2>2. PICK n : n = Len(conns[r])
    OBVIOUS
  <2>3. /\ DOMAIN conns'[r] = DOMAIN conns[r] \cup {n + 1}
        /\ conns'[r][n + 1] = c /\ \A k \in DOMAIN conns[r] : conns'[r][k] = conns[r][k]
        /\ \A q \in Runs \ {r} : conns'[q] = conns[q]
    BY <2>1, <2>2, ConnAdded
  <2>4. /\ n \in Nat /\ \A k \in DOMAIN conns[r] : k \in Nat /\ k <= n
        /\ ~Connected(r)
    BY <1>2, <2>2, ConnIs DEF Connect, Types
  <2>5. /\ nextId' = nextId + 1 /\ nextId \in Nat /\ UNCHANGED <<records, registry, appRun>>
        /\ next'[r] = (IF next[r] = 0 THEN 1 ELSE next[r]) /\ next[r] \in Nat
        /\ link'[r] = "waiting"
        /\ \A q \in Runs \ {r} : next'[q] = next[q] /\ link'[q] = link[q] /\ next[q] \in Nat
    BY <1>2, NextIdIs DEF Connect, Types
  <2>6. \A q \in Runs : /\ RowsOf(q)' = RowsOf(q)
                        /\ \A l \in DOMAIN conns[q] : /\ HeldRows(q, l)' = HeldRows(q, l)
                                                      /\ HeldIds(q, l)' = HeldIds(q, l)
                                                      /\ Waits(q, l)' <=> Waits(q, l)
    BY <2>3, <2>5 DEF RowsOf, HeldRows, HeldIds, Waits, IdsIn
  <2>7. ASSUME NEW q \in Runs, NEW l \in DOMAIN conns[q]
        PROVE  IndexConn(q, l)'
    <3>1. IndexConn(q, l)
      BY <1>1 DEF IndexRun
    <3>2. conns[q][l].phase = "new" => next'[q] = next[q]
      <4>1. CASE q # r
        BY <2>5, <4>1
      <4>2. CASE q = r
        <5>1. next[r] # 0
          BY <1>1, <4>2 DEF RunOrder, ConnOrder
        <5>2. QED
          BY <2>5, <4>2, <5>1
      <4>3. QED
        BY <4>1, <4>2
    <3>3. conns'[q][l] = conns[q][l] /\ \A j \in DOMAIN conns'[q] : j < l => j \in DOMAIN conns[q]
      BY <2>3, <2>4
    <3>4. QED
      BY <1>1, <2>6, <3>1, <3>2, <3>3 DEF IndexConn
  <2>8. IndexConn(r, n + 1)'
    <3>1. HeldRows(r, n + 1)' = {}
      BY <2>1, <2>3 DEF HeldRows, RowsIn
    <3>2. \A l \in DOMAIN conns[r] : \A i \in HeldIds(r, l) : i \in 1..(nextId - 1)
      BY DEF IdsInv
    <3>3. \A l \in DOMAIN conns[r] : \A i \in HeldIds(r, l)' : i < nextId
      BY <2>5, <2>6, <3>2
    <3>4. \A l \in DOMAIN conns'[r] : l < n + 1 => l \in DOMAIN conns[r]
      BY <2>3, <2>4
    <3>5. \A m \in RowsOf(r)' : m.id < nextId
      <4>1. \A m \in RowsOf(r) : m.id \in 1..(nextId - 1)
        BY DEF RowsOf, IdsInv
      <4>2. QED
        BY <2>5, <2>6, <4>1
    <3>6. ~c.reconnect => RowsOf(r)' = {} /\ next'[r] = 1
      BY <1>1, <2>1, <2>5, <2>6 DEF IndexRun
    <3>7. QED
      BY <2>1, <2>3, <3>1, <3>3, <3>4, <3>5, <3>6 DEF IndexConn
  <2>9. ASSUME NEW q \in Runs
        PROVE  IndexRun(q)'
    <3>1. \A l \in DOMAIN conns'[q] : IndexConn(q, l)'
      BY <2>3, <2>7, <2>8
    <3>2. link'[q] = "up" => next'[q] < nextId' \/ Unknown(q)'
      <4>1. CASE q = r
        BY <2>5, <4>1
      <4>2. CASE q # r
        BY <1>1, <2>5, <4>2 DEF IndexRun
      <4>3. QED
        BY <4>1, <4>2
    <3>3. next'[q] = 0 => RowsOf(q)' = {} /\ appRun'[q] = "none"
      BY <1>1, <2>5, <2>6 DEF IndexRun
    <3>4. appRun'[q] # "none" => \E m \in RowsOf(q)' : m.idx = 0
      BY <1>1, <2>5, <2>6 DEF IndexRun
    <3>5. QED
      BY <3>1, <3>2, <3>3, <3>4 DEF IndexRun
  <2>10. QED
    BY <1>1, <2>5, <2>9 DEF IndexInv
<1>3. ASSUME registry' = registry
      PROVE  \A q \in Runs : \A l : Waits(q, l)' <=> Waits(q, l)
  BY <1>3 DEF Waits
<1>4. ASSUME NEW r \in Runs, NEW k, NEW c, Becomes(r, k, c),
             c.start = conns[r][k].start, c.reconnect <=> conns[r][k].reconnect,
             c.phase = "new" => conns[r][k].phase = "new",
             RowsIn(c) = HeldRows(r, k), UNCHANGED <<registry, records, appRun>>,
             nextId' \in Nat, nextId' >= nextId,
             \A q \in Runs \ {r} : next'[q] = next[q] /\ link'[q] = link[q],
             next'[r] = next[r] \/ \A l \in DOMAIN conns'[r] : conns'[r][l].phase # "new",
             next'[r] # 0, link'[r] = "up" => next'[r] < nextId' \/ Unknown(r)'
      PROVE  IndexInv'
  BY <1>3, <1>4, IndexBecomes
<1>5. ASSUME NEW r \in Runs, Reply(r)
      PROVE  IndexInv'
  <2>1. PICK n, c : n = Len(conns[r]) /\ c = [conns[r][n] EXCEPT !.phase = "open"]
    OBVIOUS
  <2>2. Becomes(r, n, c)
    BY <1>5, <2>1, ReplyConn
  <2>3. /\ c.queue = conns[r][n].queue /\ c.record = conns[r][n].record /\ c.phase = "open"
        /\ c.start = conns[r][n].start /\ c.todo = conns[r][n].todo
        /\ (c.reconnect <=> conns[r][n].reconnect)
    BY <2>1, <2>2 DEF Becomes, Conn
  <2>4. RowsIn(c) = HeldRows(r, n)
    BY <2>3 DEF RowsIn, HeldRows
  <2>5. /\ UNCHANGED <<registry, records, appRun, nextId>> /\ link'[r] = "up"
        /\ \A q \in Runs \ {r} : next'[q] = next[q] /\ link'[q] = link[q]
    BY <1>5 DEF Reply, Types
  <2>6. \A l \in DOMAIN conns'[r] : conns'[r][l].phase # "new"
    BY <2>5 DEF Order, RunOrder, ConnOrder
  <2>7. next'[r] < nextId' \/ Unknown(r)'
    BY <1>1, <1>5, <2>5, ReplyIndex
  <2>8. next'[r] # 0
    BY <1>5, ReplyNext
  <2>9. QED
    BY <1>4, <2>2, <2>3, <2>4, <2>5, <2>6, <2>7, <2>8, NextIdIs
<1>6. ASSUME NEW r \in Runs, NEW k, NEW c, Becomes(r, k, c), c.phase \in {"ended", "dropped"},
             c.start = conns[r][k].start, c.reconnect <=> conns[r][k].reconnect,
             c.queue = conns[r][k].queue, c.record = conns[r][k].record,
             c.todo = conns[r][k].todo, UNCHANGED <<registry, records, appRun, next>>,
             nextId' = nextId \/ nextId' = nextId + 1, link' = [link EXCEPT ![r] = "down"]
      PROVE  IndexInv'
  <2>1. RowsIn(c) = HeldRows(r, k)
    BY <1>6 DEF RowsIn, HeldRows
  <2>2. next'[r] # 0
    <3>1. ConnOrder(r, k)
      BY <1>1, <1>6 DEF RunOrder, Becomes
    <3>2. QED
      BY <1>6, <3>1 DEF ConnOrder
  <2>3. link'[r] = "down" /\ \A q \in Runs \ {r} : next'[q] = next[q] /\ link'[q] = link[q]
    BY <1>6 DEF Types
  <2>4. nextId' \in Nat /\ nextId' >= nextId
    BY <1>6, NextIdIs
  <2>5. QED
    BY <1>4, <1>6, <2>1, <2>2, <2>3, <2>4
<1>7. ASSUME NEW r \in Runs, NEW n, NEW normal \in BOOLEAN,
             Becomes(r, n, Ended(conns[r][n], normal)), UNCHANGED <<registry, records, appRun, next>>,
             nextId' = nextId + 1, link' = [link EXCEPT ![r] = "down"]
      PROVE  IndexInv'
  <2>1. PICK c : c = Ended(conns[r][n], normal)
    OBVIOUS
  <2>2. /\ c.queue = conns[r][n].queue /\ c.record = conns[r][n].record /\ c.phase = "ended"
        /\ c.start = conns[r][n].start /\ c.todo = conns[r][n].todo
        /\ (c.reconnect <=> conns[r][n].reconnect)
    BY <1>7, <2>1, EndedIs DEF Becomes
  <2>3. QED
    BY <1>6, <1>7, <2>1, <2>2
<1>8. ASSUME NEW r \in Runs, Drop(r)
      PROVE  IndexInv'
  <2>1. PICK n, c : n = Len(conns[r]) /\ c = [conns[r][n] EXCEPT !.phase = "dropped"]
    OBVIOUS
  <2>2. Becomes(r, n, c)
    BY <1>8, <2>1, DropConn
  <2>3. /\ c.queue = conns[r][n].queue /\ c.record = conns[r][n].record /\ c.phase = "dropped"
        /\ c.start = conns[r][n].start /\ c.todo = conns[r][n].todo
        /\ (c.reconnect <=> conns[r][n].reconnect)
    BY <2>1, <2>2 DEF Becomes, Conn
  <2>4. /\ UNCHANGED <<registry, records, appRun, next, nextId>>
        /\ link' = [link EXCEPT ![r] = "down"]
    BY <1>8 DEF Drop
  <2>5. QED
    BY <1>6, <2>2, <2>3, <2>4
<1>9. ASSUME NEW r \in Runs, Stop(r) \/ Notice(r)
      PROVE  IndexInv'
  <2>1. /\ UNCHANGED <<registry, records, appRun, next>> /\ nextId' = nextId + 1
        /\ link' = [link EXCEPT ![r] = "down"]
    BY <1>9 DEF Stop, Notice, Types
  <2>2. QED
    BY <1>7, <1>9, <2>1, StopConn, NoticeConn
<1>10. ASSUME NEW r \in Runs, Record(r)
       PROVE  IndexInv'
  <2>1. PICK n, m : n = Len(conns[r]) /\ m = NextRow(r)
    OBVIOUS
  <2>2. nextId' = nextId + 1 /\ UNCHANGED <<records, registry, appRun>> /\ link[r] = "up"
    BY <1>10 DEF Record
  <2>3. CASE /\ Becomes(r, n, Ended(conns[r][n], FALSE)) /\ link' = [link EXCEPT ![r] = "down"]
             /\ next' = next
    BY <1>7, <2>2, <2>3
  <2>4. CASE /\ Becomes(r, n, Passing(r)) /\ next' = [next EXCEPT ![r] = @ + 1] /\ link' = link
    <3>1. PICK c : c = Passing(r)
      OBVIOUS
    <3>2. conns[r][n] \in Conn /\ n \in DOMAIN conns[r] /\ m \in RecordRow
      BY <1>10, <2>1, <2>4, RecordConn DEF Becomes
    <3>3. /\ c.queue = Append(conns[r][n].queue, m) /\ c.record = conns[r][n].record
          /\ c.start = conns[r][n].start /\ c.todo = conns[r][n].todo
          /\ (c.reconnect <=> conns[r][n].reconnect) /\ c.phase = conns[r][n].phase
      BY <2>1, <3>1, <3>2 DEF Passing, Conn
    <3>4. ConnOrder(r, n) /\ next[r] \in Nat /\ next[r] # 0
          /\ (next[r] < nextId \/ Unknown(r)')
      BY <1>1, <2>2, <3>2 DEF RunOrder, ConnOrder, IndexRun, Types
    <3>5. /\ m.id = nextId /\ m.idx = next[r] /\ m.run = r
      BY <2>1 DEF NextRow, Row
    <3>6. /\ m.id >= nextId /\ (m.id > m.idx \/ Unknown(r)') /\ m.idx >= 1
      BY <3>4, <3>5, NextIdIs
    <3>7. RowsIn(c) = HeldRows(r, n) \cup {m}
      <4>1. conns[r][n].queue \in Seq(RecordRow)
        BY <3>2 DEF Conn
      <4>2. {c.queue[i] : i \in DOMAIN c.queue} =
              {conns[r][n].queue[i] : i \in DOMAIN conns[r][n].queue} \cup {m}
        <5>1. PICK q \in Seq(RecordRow) : q = conns[r][n].queue
          BY <4>1
        <5>2. PICK e : e = Append(q, m)
          OBVIOUS
        <5>3. /\ DOMAIN e = DOMAIN q \cup {Len(q) + 1} /\ e[Len(q) + 1] = m
              /\ \A i \in DOMAIN q : e[i] = q[i]
          BY <3>2, <5>2
        <5>4. {e[i] : i \in DOMAIN e} = {q[i] : i \in DOMAIN q} \cup {m}
          BY <5>3
        <5>5. c.queue = e
          BY <3>3, <5>1, <5>2
        <5>6. QED
          BY <5>1, <5>4, <5>5
      <4>3. QED
        BY <3>3, <4>2 DEF RowsIn, HeldRows
    <3>8. next'[r] = next[r] + 1 /\ \A q \in Runs \ {r} : next'[q] = next[q]
      BY <2>4 DEF Types
    <3>9. conns[r][n].phase # "new"
      BY <2>2, <3>4 DEF ConnOrder
    <3>10. \A l \in DOMAIN conns'[r] : conns'[r][l].phase # "new"
      <4>1. link'[r] = "up"
        BY <2>2, <2>4
      <4>2. QED
        BY <4>1 DEF Order, RunOrder, ConnOrder
    <3>11. link'[r] = "up" => next'[r] < nextId' \/ Unknown(r)'
      BY <2>2, <3>4, <3>8, NextIdIs
    <3>12. next'[r] # 0 /\ nextId' \in Nat /\ nextId' >= nextId
      BY <2>2, <3>4, <3>8, NextIdIs
    <3>13. QED
      BY <1>3, <2>1, <2>2, <2>4, <3>1, <3>3, <3>5, <3>6, <3>7, <3>8, <3>9, <3>10, <3>11, <3>12,
         IndexBecomes
  <2>5. QED
    BY <1>10, <2>1, <2>3, <2>4, RecordConn
<1>11. ASSUME NEW r \in Runs, LookUp(r) \/ LookUpInserts(r) \/ Break(r)
       PROVE  IndexInv'
  <2>1. UNCHANGED <<records, conns, next, nextId, registry, appRun>>
    BY <1>11 DEF LookUp, LookUpInserts, Break
  <2>2. \A q \in Runs : link'[q] = "up" => link[q] = "up"
    BY <1>11 DEF LookUp, LookUpInserts, Break, Types
  <2>3. QED
    BY <1>3, <2>1, <2>2, IndexStill
<1>12. ASSUME NEW r \in Runs, NEW k \in DOMAIN conns[r],
              HandleAppStop(r, k) \/ NextConnection(r, k)
       PROVE  IndexInv'
  <2>1. UNCHANGED <<records, conns, next, nextId, link>>
    BY <1>12 DEF HandleAppStop, NextConnection
  <2>2. ASSUME NEW q \in Runs
        PROVE  appRun'[q] # "none" => appRun[q] # "none"
    BY <1>12 DEF HandleAppStop, NextConnection, Types
  <2>3. ASSUME NEW q \in Runs, NEW l \in DOMAIN conns[q]
        PROVE  Waits(q, l)' => Waits(q, l)
    <3>1. registry'[r].conn \in {registry[r].conn, registry[r].conn + 1}
          /\ registry[r].conn \in Nat
          /\ (registry'[r].conn = registry[r].conn => registry'[r].at = "task")
      <4>1. k \in Nat /\ registry[r].conn = k
        BY <1>12, ConnIs DEF HandleAppStop, NextConnection, At
      <4>2. CASE HandleAppStop(r, k)
        BY <4>1, <4>2 DEF HandleAppStop, Goes, Types
      <4>3. CASE NextConnection(r, k)
        BY <4>1, <4>3 DEF NextConnection, Goes, Types
      <4>4. QED
        BY <1>12, <4>2, <4>3
    <3>2. \A p \in Runs \ {r} : registry'[p] = registry[p]
      BY <1>12 DEF HandleAppStop, NextConnection, Goes, Types
    <3>3. l \in Nat
      BY ConnIs
    <3>4. QED
      BY <3>1, <3>2, <3>3 DEF Waits
  <2>4. QED
    BY <2>1, <2>2, <2>3, IndexStill
<1>13. ASSUME NEW r \in Runs, NEW k \in DOMAIN conns[r], NEW c, Becomes(r, k, c),
              c.start = conns[r][k].start, c.reconnect <=> conns[r][k].reconnect,
              c.phase = conns[r][k].phase, RowsIn(c) = HeldRows(r, k),
              UNCHANGED <<registry, records, appRun, next, link, nextId>>
       PROVE  IndexInv'
  <2>1. next'[r] # 0
    BY <1>1, <1>13 DEF RunOrder, ConnOrder
  <2>2. link'[r] = "up" => next'[r] < nextId' \/ Unknown(r)'
    BY <1>1, <1>13 DEF IndexRun
  <2>3. QED
    BY <1>4, <1>13, <2>1, <2>2, NextIdIs
<1>14. ASSUME NEW r \in Runs, NEW k \in DOMAIN conns[r], Take(r, k)
       PROVE  IndexInv'
  <2>1. PICK c, m : c = conns[r][k] /\ m = Head(c.queue)
    OBVIOUS
  <2>2. /\ c \in Conn /\ c.queue # <<>> /\ c.todo = {}
        /\ UNCHANGED <<registry, records, appRun, next, link, nextId>>
    BY <1>14, <2>1, ConnIs DEF Take
  <2>3. PICK d \in Conn : Becomes(r, k, d) /\ InHandOf(c, m, d)
    BY <1>14, <2>1, TakeConn
  <2>4. RowsIn(d) = HeldRows(r, k)
    BY <2>1, <2>2, <2>3, TakeIn DEF HeldRows
  <2>5. d.start = c.start /\ (d.reconnect <=> c.reconnect) /\ d.phase = c.phase
    BY <2>3 DEF InHandOf
  <2>6. QED
    BY <1>13, <2>1, <2>2, <2>3, <2>4, <2>5
<1>15. ASSUME NEW r \in Runs, NEW k \in DOMAIN conns[r], RunStatement(r, k)
       PROVE  IndexInv'
  <2>1. PICK c, d : c = conns[r][k] /\ d = Done(r, k, "span")
    OBVIOUS
  <2>2. /\ c \in Conn /\ Becomes(r, k, d)
        /\ UNCHANGED <<registry, records, appRun, next, link, nextId>>
    BY <1>15, <2>1, ConnIs, DoneConn DEF RunStatement
  <2>3. /\ d.queue = c.queue /\ d.record = c.record /\ d.start = c.start
        /\ ("record" \in d.todo <=> "record" \in c.todo)
        /\ (d.reconnect <=> c.reconnect) /\ d.phase = c.phase
    BY <2>1, <2>2 DEF Done, Conn
  <2>4. RowsIn(d) = HeldRows(r, k)
    BY <2>1, <2>3 DEF RowsIn, HeldRows
  <2>5. QED
    BY <1>13, <2>1, <2>2, <2>3, <2>4
<1>16. ASSUME NEW r \in Runs, NEW k \in DOMAIN conns[r], StoreRecord(r, k)
       PROVE  IndexInv'
  <2>1. PICK c, d : c = conns[r][k] /\ d = Done(r, k, "record")
    OBVIOUS
  <2>2. /\ c \in Conn /\ "record" \in c.todo /\ Becomes(r, k, d)
        /\ records' = records \cup {c.record}
        /\ UNCHANGED <<registry, appRun, next, link, nextId>>
    BY <1>16, <2>1, ConnIs, DoneConn DEF StoreRecord
  <2>3. /\ d.start = c.start /\ (d.reconnect <=> c.reconnect) /\ d.phase = c.phase
    BY <2>1, <2>2 DEF Done, Conn
  <2>4. RowsIn(d) \subseteq HeldRows(r, k) /\ c.record \in HeldRows(r, k)
    BY <2>1, <2>2, StoreIn DEF Done, HeldRows
  <2>5. ConnOrder(r, k) /\ IndexConn(r, k)
    BY <1>1 DEF RunOrder, IndexRun
  <2>6. /\ appRun[r] # "none" /\ ~Waits(r, k) /\ c.phase # "new" /\ next[r] # 0
    BY <2>1, <2>2, <2>5 DEF ConnOrder, Conn
  <2>7. c.record.id > c.record.idx /\ c.record.idx >= 1 /\ c.record.run = r
        /\ c.record.id \in HeldIds(r, k) /\ c.record.idx \in Int
    BY <2>2, <2>4, <2>5, <2>6 DEF IndexConn, Unknown, HeldIds, HeldRows, IdsIn, Conn, RecordRow
  <2>8. \A l \in DOMAIN conns[r] : Waits(r, l)' => conns[r][l].reconnect
    <3>1. ASSUME NEW l \in DOMAIN conns[r], Waits(r, l), ~conns[r][l].reconnect
          PROVE  FALSE
      <4>1. l = 1
        BY <1>1, <3>1 DEF RunOrder, ConnOrder
      <4>2. k \in Nat /\ k # 0
        BY ConnIs
      <4>3. QED
        BY <2>6, <3>1, <4>1, <4>2, RegistryIs DEF Waits
    <3>2. QED
      BY <1>3, <2>2, <3>1
  <2>9. \A m \in records' \ records : m = c.record
    BY <2>2
  <2>10. \A m \in records' \ records :
           /\ m.id > m.idx /\ m.idx >= -1 /\ m.run = r
           /\ \A l \in DOMAIN conns[r] : Waits(r, l)' => conns[r][l].reconnect
           /\ m.idx >= 0 => m.id \in HeldIds(r, k) /\ (d.phase = "new" => ~d.reconnect)
    BY <2>3, <2>6, <2>7, <2>8, <2>9
  <2>11. link'[r] = "up" => next'[r] < nextId' \/ Unknown(r)'
    BY <1>1, <2>2 DEF IndexRun
  <2>12. QED
    BY <1>3, <2>1, <2>2, <2>3, <2>4, <2>6, <2>10, <2>11, NextIdIs, IndexBecomes
<1>17. ASSUME NEW r \in Runs, NEW k \in DOMAIN conns[r], HandleAppRun(r, k)
       PROVE  IndexInv'
  <2>1. PICK c : c = Handled(r, k)
    OBVIOUS
  <2>2. Becomes(r, k, c) /\ conns[r][k] \in Conn
    BY <1>17, <2>1, HandleAppRunConn DEF Becomes
  <2>3. /\ registry[r].conn = k /\ registry[r].at = "AppRun"
        /\ registry'[r].conn = k /\ registry'[r].at = "AppStop"
        /\ \A q \in Runs \ {r} : registry'[q] = registry[q]
        /\ UNCHANGED <<next, link>>
    BY <1>17 DEF HandleAppRun, At, Goes, Types
  <2>4. Waits(r, k) /\ \A q \in Runs : \A l : Waits(q, l)' => Waits(q, l)
    BY <2>3 DEF Waits
  <2>5. ConnOrder(r, k) /\ conns[r][k].todo = {} /\ next[r] # 0
    BY <1>1, <2>2, <2>4 DEF RunOrder, ConnOrder
  <2>6. /\ c.start = conns[r][k].start /\ (c.reconnect <=> conns[r][k].reconnect)
        /\ c.phase = conns[r][k].phase /\ c.todo = {}
        /\ c.queue = conns[r][k].queue \/ c.queue = <<>>
    BY <2>1, <2>2, <2>5 DEF Handled, Conn
  <2>7. RowsIn(c) \subseteq HeldRows(r, k)
    BY <2>5, <2>6 DEF RowsIn, HeldRows
  <2>8. \A l \in DOMAIN conns[r] : Waits(r, l)' => conns[r][l].reconnect
    <3>1. ASSUME NEW l \in DOMAIN conns[r], Waits(r, l)', ~conns[r][l].reconnect
          PROVE  FALSE
      <4>1. l = 1
        BY <1>1, <3>1 DEF RunOrder, ConnOrder
      <4>2. k \in Nat /\ k # 0
        BY ConnIs
      <4>3. QED
        BY <2>3, <3>1, <4>1, <4>2 DEF Waits
    <3>2. QED
      BY <3>1
  <2>9. \E x : /\ records' = records \cup {x}
               /\ x.id > x.idx /\ x.idx >= -1 /\ x.run = r
               /\ x.idx >= 0 => x.id \in HeldIds(r, k) /\ ~conns[r][k].reconnect
               /\ nextId' \in Nat /\ nextId' >= nextId
               /\ appRun' = appRun \/ (appRun' = [appRun EXCEPT ![r] = "open"] /\ x.idx = 0)
    <3>1. CASE conns[r][k].reconnect
      <4>1. PICK x : x = Row(nextId, r, -1, "Reconnect", 0)
        OBVIOUS
      <4>2. records' = records \cup {x} /\ nextId' = nextId + 1 /\ appRun' = appRun
        BY <1>17, <3>1, <4>1 DEF HandleAppRun
      <4>3. x.id = nextId /\ x.idx = -1 /\ x.run = r
        BY <4>1 DEF Row
      <4>4. QED
        BY <4>2, <4>3, NextIdIs
    <3>2. CASE ~conns[r][k].reconnect
      <4>1. PICK x : x = Row(conns[r][k].start, r, 0, "AppStart", 0)
        OBVIOUS
      <4>2. records' = records \cup {x} /\ nextId' = nextId
              /\ appRun' = [appRun EXCEPT ![r] = "open"]
        BY <1>17, <3>2, <4>1 DEF HandleAppRun
      <4>3. x.id = conns[r][k].start /\ x.idx = 0 /\ x.run = r
        BY <4>1 DEF Row
      <4>4. conns[r][k].start \in HeldIds(r, k)
        BY <2>4 DEF HeldIds, IdsIn
      <4>5. x.id \in Nat /\ x.id >= 1
        <5>1. conns[r][k].start \in 1..(nextId - 1) /\ nextId \in Nat
          BY <2>2, NextIdIs DEF IdsInv, Becomes
        <5>2. QED
          BY <4>3, <5>1
      <4>6. QED
        BY <3>2, <4>2, <4>3, <4>4, <4>5, NextIdIs
    <3>3. QED
      BY <3>1, <3>2
  <2>10. /\ \A m \in records' \ records :
              /\ m.id > m.idx /\ m.idx >= -1 /\ m.run = r
              /\ \A l \in DOMAIN conns[r] : Waits(r, l)' => conns[r][l].reconnect
              /\ m.idx >= 0 => m.id \in HeldIds(r, k) /\ (c.phase = "new" => ~c.reconnect)
         /\ nextId' \in Nat /\ nextId' >= nextId
    BY <2>6, <2>8, <2>9
  <2>11. /\ \A q \in Runs \ {r} : appRun'[q] = appRun[q]
         /\ appRun'[r] # "none" => appRun[r] # "none" \/ \E m \in RowsOf(r)' : m.idx = 0
    <3>1. PICK x : /\ records' = records \cup {x} /\ x.run = r
                   /\ appRun' = appRun \/ (appRun' = [appRun EXCEPT ![r] = "open"] /\ x.idx = 0)
      BY <2>9
    <3>2. x \in RowsOf(r)'
      BY <3>1 DEF RowsOf
    <3>3. QED
      BY <3>1, <3>2 DEF Types
  <2>12. link'[r] = "up" => next'[r] < nextId' \/ Unknown(r)'
    <3>1. link[r] = "up" => next[r] < nextId \/ Unknown(r)'
      BY <1>1 DEF IndexRun
    <3>2. next[r] \in Nat /\ nextId \in Nat /\ nextId' \in Nat /\ nextId' >= nextId
      BY <2>10 DEF Types
    <3>3. QED
      BY <2>3, <3>1, <3>2
  <2>13. QED
    BY <2>2, <2>3, <2>4, <2>5, <2>6, <2>7, <2>10, <2>11, <2>12, IndexBecomes
<1>18. ASSUME InitTask
       PROVE  IndexInv'
  <2>1. UNCHANGED <<records, conns, next, nextId, registry, link>>
    BY <1>18 DEF InitTask, InitFinds, InitLooksAgain, InitMarksRun, InitMarksSpans
  <2>2. ASSUME NEW q \in Runs, appRun[q] = "none"
        PROVE  appRun'[q] = "none"
    <3>1. q \notin toMark
      BY <2>2 DEF Order, Types
    <3>2. QED
      BY <1>18, <2>2, <3>1
         DEF InitTask, InitFinds, InitLooksAgain, InitMarksRun, InitMarksSpans, Types
  <2>3. QED
    BY <1>3, <2>1, <2>2, IndexStill
<1>19. ASSUME Crash
       PROVE  IndexInv'
  <2>1. /\ UNCHANGED <<records, appRun, next>>
        /\ \A q \in Runs : conns'[q] = <<>> /\ link'[q] = "down"
    BY <1>19 DEF Crash
  <2>2. \A q \in Runs : DOMAIN conns'[q] = {} /\ RowsOf(q)' = RowsOf(q)
    BY <2>1 DEF RowsOf
  <2>3. \A q \in Runs : IndexRun(q)'
    BY <1>1, <2>1, <2>2 DEF IndexRun
  <2>4. QED
    BY <1>1, <2>1, <2>3 DEF IndexInv
<1>20. QED
  BY <1>2, <1>5, <1>8, <1>9, <1>10, <1>11, <1>12, <1>14, <1>15, <1>16, <1>17, <1>18, <1>19
     DEF Next, Client, Handler, Server
-----------------------------------------------------------------------------
\* Initially no record was sent.
LEMMA OnceInit == Init => OnceInv
<1> SUFFICES ASSUME Init PROVE OnceInv
  OBVIOUS
<1>1. records = {} /\ \A r \in Runs : DOMAIN conns[r] = {}
  BY DEF Init, InitialServer
<1>2. QED
  BY <1>1 DEF OnceInv, OnceRun, RowsOf

\* Only one connection of a run that is not behind holds records.
LEMMA OneHolds ==
  ASSUME Types, Order, OnceInv, NEW r \in Runs \ behind,
         NEW k \in DOMAIN conns[r], NEW l \in DOMAIN conns[r], k # l, HeldRows(r, k) # {}
  PROVE  HeldRows(r, l) = {}
<1>1. ASSUME NEW j \in DOMAIN conns[r]
      PROVE  /\ Holds(conns[r][j]) <=> HeldRows(r, j) # {}
             /\ Holds(conns[r][j]) => conns[r][j].phase \notin {"new", "dropped"}
             /\ OnceConn(r, j) /\ j \in Nat
  <2>1. conns[r][j] \in Conn /\ j \in Nat /\ ConnOrder(r, j) /\ OnceConn(r, j)
    BY ConnIs DEF Order, RunOrder, OnceInv, OnceRun
  <2>2. QED
    BY <2>1, HoldsIs DEF HeldRows, ConnOrder, Holds
<1>2. k \in Nat /\ l \in Nat /\ (k < l \/ l < k)
  BY <1>1
<1>3. QED
  BY <1>1, <1>2 DEF OnceConn

\* A run that a step does not touch.
LEMMA OnceOther ==
  ASSUME NEW r \in Runs, OnceRun(r), RowsOf(r)' = RowsOf(r), conns'[r] = conns[r],
         next'[r] = next[r]
  PROVE  OnceRun(r)'
<1>1. \A l \in DOMAIN conns'[r] : HeldRows(r, l)' = HeldRows(r, l)
  BY DEF HeldRows
<1>2. \A l \in DOMAIN conns'[r] : OnceConn(r, l)'
  BY <1>1 DEF OnceRun, OnceConn
<1>3. QED
  BY <1>2 DEF OnceRun

\* A step of the k-th connection of r, which becomes c.
LEMMA OnceBecomes ==
  ASSUME Types, Order, IdsInv, IndexInv, OnceInv, Next,
         NEW r \in Runs, NEW k, NEW c, Becomes(r, k, c),
         behind' = behind, \A q \in Runs \ {r} : next'[q] = next[q],
         next'[r] \in Nat, next'[r] >= next[r],
         r \notin behind => IndexOrder(c),
         c.phase \notin {"new", "dropped"} => conns[r][k].phase \notin {"new", "dropped"},
         RowsIn(c) # {} => HeldRows(r, k) # {} \/ k = Len(conns[r]),
         \A h \in RowsIn(c) : h \in HeldRows(r, k) \/ (next[r] <= h.idx /\ h.idx < next'[r]),
         \A m \in records' \ records :
           /\ m.run = r
           /\ m.idx <= 0 \/ m \in HeldRows(r, k)
           /\ \A n \in records' \ records : m = n
           /\ r \notin behind => \A h \in RowsIn(c) : h.idx # m.idx
  PROVE  OnceInv'
<1>1. /\ conns'[r][k] = c /\ k \in DOMAIN conns[r] /\ c \in Conn
      /\ \A q \in Runs : /\ DOMAIN conns'[q] = DOMAIN conns[q]
                         /\ \A l \in DOMAIN conns[q] :
                              <<q, l>> # <<r, k>> => conns'[q][l] = conns[q][l]
      /\ \A q \in Runs \ {r} : conns'[q] = conns[q]
  <2>1. \A q \in Runs \ {r} : conns'[q] = conns[q]
    BY DEF Becomes, SetConn, Types
  <2>2. QED
    BY <2>1, ConnChanged DEF Becomes
<1>2. records \subseteq records'
  BY RecordsStay
<1>3. ASSUME NEW q \in Runs \ behind, q # r
      PROVE  OnceRun(q)'
  <2>1. RowsOf(q)' = RowsOf(q)
    BY <1>2, <1>3 DEF RowsOf
  <2>2. QED
    BY <1>1, <1>3, <2>1, OnceOther DEF OnceInv
<1>4. ASSUME r \notin behind
      PROVE  OnceRun(r)'
  <2>1. /\ \A m, n \in RowsOf(r) : m.idx > 0 /\ m.idx = n.idx => m = n
        /\ \A m \in RowsOf(r) : m.idx < next[r] /\ m.idx \in Int
        /\ \A l \in DOMAIN conns[r] : OnceConn(r, l) /\ ConnOrder(r, l) /\ IndexConn(r, l)
    BY <1>4 DEF OnceInv, OnceRun, Order, RunOrder, IndexInv, IndexRun, RowsOf, Types, RecordRow
  <2>2. next[r] \in Nat /\ next'[r] \in Nat /\ next[r] <= next'[r] /\ next[r] # 0
    BY <1>1, <2>1 DEF Types, ConnOrder
  <2>3. ASSUME NEW l \in DOMAIN conns[r], NEW h \in HeldRows(r, l)
        PROVE  /\ h.idx < next[r] /\ h.idx >= 1 /\ h.idx \in Int
               /\ \A m \in RowsOf(r) : m.idx # h.idx
    <3>1. h \in RecordRow
      <4>1. conns[r][l].queue \in Seq(RecordRow) /\ conns[r][l].record \in RecordRow
        BY ConnIs
      <4>2. QED
        BY <4>1 DEF HeldRows, RowsIn
    <3>2. QED
      BY <2>1, <2>3, <3>1 DEF OnceConn, IndexConn, RecordRow
  <2>4. ASSUME NEW m \in RowsOf(r)'
        PROVE  m \in RowsOf(r) \/ m \in records' \ records
    BY DEF RowsOf
  <2>5. ASSUME NEW m \in records' \ records
        PROVE  m.idx < next'[r] /\ m.idx \in Int /\ (m.idx > 0 => m \in HeldRows(r, k))
    <3>1. m.idx \in Int
      <4>1. records' \subseteq RecordRow
        BY TypesStep DEF Types
      <4>2. QED
        BY <4>1 DEF RecordRow
    <3>2. CASE m.idx <= 0
      BY <2>2, <3>1, <3>2
    <3>3. CASE m \in HeldRows(r, k)
      <4>1. m.idx < next[r]
        BY <1>1, <2>3, <3>3
      <4>2. QED
        BY <2>2, <3>1, <3>3, <4>1
    <3>4. QED
      BY <3>2, <3>3
  <2>6. ASSUME NEW m \in RowsOf(r)', NEW n \in RowsOf(r)', m.idx > 0, m.idx = n.idx
        PROVE  m = n
    <3>1. CASE m \in RowsOf(r) /\ n \in RowsOf(r)
      BY <2>1, <2>6, <3>1
    <3>2. ASSUME NEW x \in RowsOf(r), NEW y \in records' \ records, y.idx > 0
          PROVE  x.idx # y.idx
      BY <1>1, <2>3, <2>5, <3>2
    <3>3. QED
      BY <2>4, <2>6, <3>1, <3>2
  <2>7. \A m \in RowsOf(r)' : m.idx < next'[r]
    BY <2>1, <2>2, <2>4, <2>5
  <2>8. HeldRows(r, k)' = RowsIn(c)
        /\ \A l \in DOMAIN conns[r] : l # k => HeldRows(r, l)' = HeldRows(r, l)
    BY <1>1 DEF HeldRows
  <2>9. ASSUME NEW l \in DOMAIN conns'[r], NEW h \in HeldRows(r, l)'
        PROVE  h.idx < next'[r] /\ \A m \in RowsOf(r)' : m.idx # h.idx
    <3>1. l \in DOMAIN conns[r]
      BY <1>1
    <3>2. CASE l # k
      <4>1. h \in HeldRows(r, l)
        BY <2>8, <2>9, <3>1, <3>2
      <4>2. h.idx < next[r] /\ h.idx >= 1 /\ h.idx \in Int /\ \A m \in RowsOf(r) : m.idx # h.idx
        BY <2>3, <3>1, <4>1
      <4>3. HeldRows(r, k) = {}
        BY <1>1, <1>4, <3>1, <3>2, <4>1, OneHolds
      <4>4. \A m \in records' \ records : m.idx # h.idx
        BY <2>5, <4>2, <4>3
      <4>5. QED
        BY <2>2, <2>4, <4>2, <4>4
    <3>3. CASE l = k
      <4>1. \A m \in records' \ records : h.idx # m.idx
        BY <1>4, <2>8, <2>9, <3>3
      <4>2. CASE h \in HeldRows(r, k)
        BY <1>1, <2>2, <2>3, <2>4, <4>1, <4>2
      <4>3. CASE next[r] <= h.idx /\ h.idx < next'[r]
        <5>1. h.idx \in Int
          <6>1. c.queue \in Seq(RecordRow) /\ c.record \in RecordRow
            BY <1>1 DEF Conn
          <6>2. RowsIn(c) \subseteq RecordRow
            BY <6>1 DEF RowsIn
          <6>3. h \in RecordRow
            BY <2>8, <2>9, <3>3, <6>2
          <6>4. QED
            BY <6>3 DEF RecordRow
        <5>2. \A m \in RowsOf(r) : m.idx # h.idx
          BY <2>1, <2>2, <4>3, <5>1
        <5>3. QED
          BY <2>4, <4>1, <4>3, <5>2
      <4>4. QED
        BY <2>8, <2>9, <3>3, <4>2, <4>3
    <3>4. QED
      BY <3>2, <3>3
  <2>10. ASSUME NEW l \in DOMAIN conns'[r]
         PROVE  IndexOrder(conns'[r][l])
    BY <1>1, <1>4, <2>1 DEF OnceConn
  <2>11. ASSUME NEW l \in DOMAIN conns'[r], conns'[r][l].phase \notin {"new", "dropped"},
                NEW j \in DOMAIN conns'[r], j < l
         PROVE  ~Holds(conns'[r][j])
    <3>1. /\ l \in DOMAIN conns[r] /\ conns[r][l].phase \notin {"new", "dropped"}
          /\ j \in DOMAIN conns[r] /\ ~Holds(conns[r][j])
      BY <1>1, <2>1, <2>11 DEF OnceConn
    <3>2. CASE j # k
      BY <1>1, <3>1, <3>2
    <3>3. CASE j = k
      <4>1. k # Len(conns[r])
        BY <2>11, <3>1, <3>3, ConnIs
      <4>2. HeldRows(r, k) = {}
        BY <3>1, <3>3, ConnIs, HoldsIs DEF HeldRows
      <4>3. RowsIn(c) = {}
        BY <4>1, <4>2
      <4>4. QED
        BY <1>1, <3>3, <4>3, HoldsIs
    <3>4. QED
      BY <3>2, <3>3
  <2>12. \A l \in DOMAIN conns'[r] : OnceConn(r, l)'
    BY <2>9, <2>10, <2>11 DEF OnceConn
  <2>13. QED
    BY <2>6, <2>7, <2>12 DEF OnceRun
<1>5. QED
  BY <1>3, <1>4 DEF OnceInv

\* The number that a run is replied to with is greater than all its indices.
LEMMA ReplyOnce ==
  ASSUME Types, Order, IdsInv, IndexInv, OnceInv, NEW r \in Runs, Reply(r), r \notin behind'
  PROVE  OnceRun(r)'
<1>1. PICK n : n = Len(conns[r])
  OBVIOUS
<1>2. /\ n \in DOMAIN conns[r] /\ Latest(r) = conns[r][n] /\ conns[r][n] \in Conn
      /\ ConnOrder(r, n) /\ IndexConn(r, n)
  BY <1>1, LatestIs DEF Reply, Connected, Order, RunOrder, IndexInv, IndexRun
<1>3. PICK c : c = [conns[r][n] EXCEPT !.phase = "open"]
  OBVIOUS
<1>4. Becomes(r, n, c)
  BY <1>1, <1>3, ReplyConn
<1>5. conns'[r][n] = c /\ DOMAIN conns'[r] = DOMAIN conns[r]
      /\ \A l \in DOMAIN conns[r] : l # n => conns'[r][l] = conns[r][l]
  BY <1>4, ConnChanged
<1>6. /\ c.queue = conns[r][n].queue /\ c.record = conns[r][n].record
      /\ c.start = conns[r][n].start /\ c.todo = conns[r][n].todo
  BY <1>2, <1>3 DEF Conn
<1>7. r \notin behind /\ \A l \in 1..(n - 1) : ~Holds(conns[r][l])
  BY <1>1 DEF Reply
<1>8. conns[r][n].phase = "new"
  BY <1>2 DEF Reply, Connected, ConnOrder
<1>9. ASSUME NEW l \in DOMAIN conns'[r]
      PROVE  HeldRows(r, l)' = {} /\ ~Holds(conns'[r][l]) /\ IndexOrder(conns'[r][l])
  <2>1. l \in DOMAIN conns[r] /\ conns[r][l] \in Conn /\ l \in 1..n
    BY <1>1, <1>5, ConnIs
  <2>2. IndexOrder(conns[r][l])
    BY <1>7, <2>1 DEF OnceInv, OnceRun, OnceConn
  <2>3. CASE l = n
    <3>1. c.queue = <<>> /\ c.todo = {}
      BY <1>2, <1>6, <1>8 DEF ConnOrder
    <3>2. RowsIn(c) = {} /\ ~Holds(c) /\ IndexOrder(c)
      BY <3>1 DEF RowsIn, Holds, IndexOrder
    <3>3. QED
      BY <1>5, <2>3, <3>2 DEF HeldRows
  <2>4. CASE l # n
    <3>1. l \in 1..(n - 1)
      BY <1>1, <2>1, <2>4, ConnIs
    <3>2. ~Holds(conns[r][l]) /\ conns'[r][l] = conns[r][l]
      BY <1>5, <1>7, <2>1, <2>4, <3>1
    <3>3. QED
      BY <2>1, <2>2, <3>2, HoldsIs DEF HeldRows
  <2>5. QED
    BY <2>3, <2>4
<1>10. RowsOf(r)' = RowsOf(r) /\ \A m \in RowsOf(r) : m \in records /\ m.idx \in Int /\ m.id \in Nat
  BY DEF RowsOf, Reply, dbVars, Types, RecordRow
<1>11. \A m \in RowsOf(r) : m.idx < next'[r]
  <2>1. CASE conns[r][n].reconnect
    <3>1. RowsOf(r) # {}
      BY <1>2, <2>1 DEF Reply
    <3>2. PICK m \in RowsOf(r) : LastRecordIndex(r) = m.id /\ \A x \in RowsOf(r) : x.idx <= m.idx
      BY <3>1, LastRecordIs
    <3>3. next'[r] = m.id + 1 /\ m.id > m.idx
      BY <1>2, <1>10, <2>1, <3>2 DEF Reply, ResumeAfter, Types, IndexInv
    <3>4. QED
      BY <1>10, <3>2, <3>3
  <2>2. CASE ~conns[r][n].reconnect
    <3>1. next'[r] = next[r]
      BY <1>2, <2>2 DEF Reply, Types
    <3>2. QED
      BY <1>7, <3>1 DEF OnceInv, OnceRun
  <2>3. QED
    BY <2>1, <2>2
<1>12. \A l \in DOMAIN conns'[r] : OnceConn(r, l)'
  BY <1>9 DEF OnceConn
<1>13. \A m, x \in RowsOf(r) : m.idx > 0 /\ m.idx = x.idx => m = x
  BY <1>7 DEF OnceInv, OnceRun
<1>14. QED
  BY <1>10, <1>11, <1>12, <1>13 DEF OnceRun

\* Every step stores a record of a run that is not behind only once.
LEMMA OnceStep ==
  ASSUME Types, Order, IdsInv, IndexInv, OnceInv, Next
  PROVE  OnceInv'
<1> USE DEF clientVars, dbVars, initVars, historyVars
<1>1. /\ \A r \in Runs : next[r] \in Nat
      /\ \A r \in Runs \ behind : OnceRun(r)
  BY DEF OnceInv, Types
<1>2. ASSUME NEW r \in Runs, Connect(r)
      PROVE  OnceInv'
  <2>1. PICK c \in Conn : /\ conns' = [conns EXCEPT ![r] = Append(@, c)]
                          /\ c.phase = "new" /\ c.queue = <<>> /\ c.todo = {}
    BY <1>2, ConnectConn
  <2>2. PICK n : n = Len(conns[r])
    OBVIOUS
  <2>3. /\ DOMAIN conns'[r] = DOMAIN conns[r] \cup {n + 1}
        /\ conns'[r][n + 1] = c /\ \A k \in DOMAIN conns[r] : conns'[r][k] = conns[r][k]
        /\ \A q \in Runs \ {r} : conns'[q] = conns[q]
    BY <2>1, <2>2, ConnAdded
  <2>4. n \in Nat /\ \A k \in DOMAIN conns[r] : k \in Nat /\ k <= n
    BY <2>2, ConnIs DEF Types
  <2>5. /\ UNCHANGED <<records, behind>>
        /\ next'[r] = (IF next[r] = 0 THEN 1 ELSE next[r])
        /\ \A q \in Runs \ {r} : next'[q] = next[q]
        /\ \A q \in Runs : RowsOf(q)' = RowsOf(q)
    BY <1>2 DEF Connect, Types, RowsOf
  <2>6. ASSUME r \notin behind
        PROVE  OnceRun(r)'
    <3>1. next[r] = 0 => RowsOf(r) = {} /\ DOMAIN conns[r] = {}
      BY DEF IndexInv, IndexRun, Order, RunOrder, ConnOrder
    <3>2. \A m \in RowsOf(r) : m.idx < next'[r]
      BY <1>1, <2>5, <2>6, <3>1 DEF OnceRun
    <3>3. RowsIn(c) = {} /\ IndexOrder(c)
      BY <2>1 DEF RowsIn, IndexOrder
    <3>4. ASSUME NEW l \in DOMAIN conns'[r]
          PROVE  OnceConn(r, l)'
      <4>1. CASE l = n + 1
        BY <2>1, <2>3, <3>3, <4>1 DEF OnceConn, HeldRows
      <4>2. CASE l \in DOMAIN conns[r]
        <5>1. OnceConn(r, l) /\ conns'[r][l] = conns[r][l] /\ next'[r] = next[r]
          BY <1>1, <2>3, <2>5, <2>6, <3>1, <4>2 DEF OnceRun
        <5>2. \A j \in DOMAIN conns'[r] : j < l => j \in DOMAIN conns[r]
          BY <2>3, <2>4, <4>2
        <5>3. QED
          BY <2>3, <2>5, <4>2, <5>1, <5>2 DEF OnceConn, HeldRows
      <4>3. QED
        BY <2>3, <4>1, <4>2
    <3>5. QED
      BY <1>1, <2>5, <2>6, <3>2, <3>4 DEF OnceRun
  <2>7. QED
    BY <1>1, <2>3, <2>5, <2>6, OnceOther DEF OnceInv
<1>3. ASSUME NEW r \in Runs, Reply(r)
      PROVE  OnceInv'
  <2>1. behind \subseteq behind'
    BY <1>3 DEF Reply
  <2>2. ASSUME NEW q \in Runs \ behind', q # r
        PROVE  OnceRun(q)'
    <3>1. Len(conns[r]) \in DOMAIN conns[r] /\ conns' = SetLatest(r, [Latest(r) EXCEPT !.phase = "open"])
      BY <1>3, LatestIs DEF Reply, Connected
    <3>2. conns'[q] = conns[q] /\ next'[q] = next[q] /\ RowsOf(q)' = RowsOf(q)
      BY <1>3, <2>2, <3>1 DEF Reply, SetLatest, Types, RowsOf
    <3>3. QED
      BY <1>1, <2>1, <2>2, <3>2, OnceOther
  <2>3. QED
    BY <1>3, <2>2, ReplyOnce DEF OnceInv
<1>4. ASSUME UNCHANGED <<records, conns, next, behind>>
      PROVE  OnceInv'
  BY <1>1, <1>4, OnceOther DEF OnceInv, RowsOf
\* A connection that has the records it had.
<1>5. ASSUME NEW r \in Runs, NEW k, NEW c, Becomes(r, k, c), RowsIn(c) \subseteq HeldRows(r, k),
             r \notin behind => IndexOrder(c),
             c.phase \notin {"new", "dropped"} => conns[r][k].phase \notin {"new", "dropped"},
             UNCHANGED <<next, behind>>,
             \A m \in records' \ records :
               /\ m.run = r
               /\ m.idx <= 0 \/ m \in HeldRows(r, k)
               /\ \A n \in records' \ records : m = n
               /\ r \notin behind => \A h \in RowsIn(c) : h.idx # m.idx
      PROVE  OnceInv'
  BY <1>1, <1>5, OnceBecomes
<1>6. ASSUME NEW r \in Runs, NEW k, k \in DOMAIN conns[r], r \notin behind
      PROVE  IndexOrder(conns[r][k])
  BY <1>1, <1>6 DEF OnceRun, OnceConn
<1>7. ASSUME NEW r \in Runs, NEW k, NEW c, Becomes(r, k, c),
             c.queue = conns[r][k].queue, c.record = conns[r][k].record,
             c.start = conns[r][k].start, c.todo = conns[r][k].todo,
             c.phase \notin {"new", "dropped"} => conns[r][k].phase \notin {"new", "dropped"},
             UNCHANGED <<next, behind, records>>
      PROVE  OnceInv'
  <2>1. RowsIn(c) = HeldRows(r, k) /\ (IndexOrder(conns[r][k]) => IndexOrder(c))
    BY <1>7, SameIn DEF HeldRows
  <2>2. r \notin behind => IndexOrder(c)
    BY <1>6, <1>7, <2>1 DEF Becomes
  <2>3. QED
    BY <1>5, <1>7, <2>1, <2>2
<1>8. ASSUME NEW r \in Runs, Connected(r), link[r] # "waiting", NEW n, n = Len(conns[r])
      PROVE  conns[r][n].phase \notin {"new", "dropped"}
  <2>1. n \in DOMAIN conns[r] /\ Latest(r) = conns[r][n] /\ ConnOrder(r, n)
    BY <1>8, LatestIs DEF Connected, Order, RunOrder
  <2>2. QED
    BY <1>8, <2>1 DEF Connected, ConnOrder
<1>9. ASSUME NEW r \in Runs, NEW n, n = Len(conns[r]), NEW normal \in BOOLEAN,
             Becomes(r, n, Ended(conns[r][n], normal)), Connected(r), link[r] # "waiting",
             UNCHANGED <<next, behind, records>>
      PROVE  OnceInv'
  <2>1. PICK c : c = Ended(conns[r][n], normal)
    OBVIOUS
  <2>2. /\ c.queue = conns[r][n].queue /\ c.record = conns[r][n].record
        /\ c.start = conns[r][n].start /\ c.todo = conns[r][n].todo
    BY <1>9, <2>1, EndedIs DEF Becomes
  <2>3. QED
    BY <1>7, <1>8, <1>9, <2>1, <2>2
<1>10. ASSUME NEW r \in Runs, Drop(r)
       PROVE  OnceInv'
  <2>1. PICK n, c : n = Len(conns[r]) /\ c = [conns[r][n] EXCEPT !.phase = "dropped"]
    OBVIOUS
  <2>2. Becomes(r, n, c) /\ UNCHANGED <<next, behind, records>>
    BY <1>10, <2>1, DropConn DEF Drop
  <2>3. /\ c.queue = conns[r][n].queue /\ c.record = conns[r][n].record /\ c.phase = "dropped"
        /\ c.start = conns[r][n].start /\ c.todo = conns[r][n].todo
    BY <2>1, <2>2 DEF Becomes, Conn
  <2>4. QED
    BY <1>7, <2>2, <2>3
<1>11. ASSUME NEW r \in Runs, Stop(r) \/ Notice(r)
       PROVE  OnceInv'
  <2>1. Connected(r) /\ link[r] # "waiting" /\ UNCHANGED <<next, behind, records>>
    BY <1>11 DEF Stop, Notice
  <2>2. PICK n : n = Len(conns[r])
    OBVIOUS
  <2>3. QED
    BY <1>9, <1>11, <2>1, <2>2, StopConn, NoticeConn
<1>12. ASSUME NEW r \in Runs, Record(r)
       PROVE  OnceInv'
  <2>1. PICK n, m : n = Len(conns[r]) /\ m = NextRow(r)
    OBVIOUS
  <2>2. Connected(r) /\ link[r] = "up" /\ UNCHANGED <<records, behind>>
    BY <1>12 DEF Record
  <2>3. CASE Becomes(r, n, Ended(conns[r][n], FALSE)) /\ next' = next
    BY <1>9, <2>1, <2>2, <2>3
  <2>4. CASE Becomes(r, n, Passing(r)) /\ next' = [next EXCEPT ![r] = @ + 1]
    <3>1. PICK c : c = Passing(r)
      OBVIOUS
    <3>2. PICK old : old = conns[r][n]
      OBVIOUS
    <3>3. old \in Conn /\ n \in DOMAIN conns[r] /\ m \in RecordRow
      BY <1>12, <2>1, <2>4, <3>2, RecordConn DEF Becomes
    <3>4. /\ c.queue = Append(old.queue, m) /\ c.record = old.record
          /\ c.start = old.start /\ c.todo = old.todo /\ c.phase = old.phase
      BY <2>1, <3>1, <3>2, <3>3 DEF Passing, Conn
    <3>5. m.id = nextId /\ m.idx = next[r]
      BY <2>1 DEF NextRow, Row
    <3>6. old.start < m.id /\ \A x \in RowsIn(old) : x.id < m.id
      <4>1. \A i \in HeldIds(r, n) : i \in 1..(nextId - 1)
        BY <3>3 DEF IdsInv
      <4>2. \A x \in RowsIn(old) : x.id \in HeldIds(r, n)
        BY <3>2 DEF HeldIds, IdsIn
      <4>3. old.start \in 1..(nextId - 1) /\ nextId \in Nat
        BY <3>2, <3>3, NextIdIs DEF IdsInv
      <4>4. \A i : i \in 1..(nextId - 1) => i < nextId
        BY <4>3
      <4>5. QED
        BY <3>5, <4>1, <4>2, <4>3, <4>4
    <3>7. /\ RowsIn(c) = RowsIn(old) \cup {m}
          /\ IndexOrder(old) /\ (\A x \in RowsIn(old) : x.idx < m.idx) => IndexOrder(c)
      BY <3>3, <3>4, <3>6, AppendIn
    <3>8. r \notin behind => IndexOrder(c)
      <4>1. r \notin behind => \A x \in RowsIn(old) : x.idx < m.idx
        BY <1>1, <3>2, <3>3, <3>5 DEF OnceRun, OnceConn, HeldRows
      <4>2. QED
        BY <1>6, <3>2, <3>3, <3>7, <4>1
    <3>9. next'[r] = next[r] + 1 /\ \A q \in Runs \ {r} : next'[q] = next[q]
      BY <2>4 DEF Types
    <3>10. \A h \in RowsIn(c) : h \in HeldRows(r, n) \/ (next[r] <= h.idx /\ h.idx < next'[r])
      BY <1>1, <3>2, <3>5, <3>7, <3>9 DEF HeldRows
    <3>11. Becomes(r, n, c) /\ (c.phase = conns[r][n].phase)
      BY <2>4, <3>1, <3>2, <3>4
    <3>12. next'[r] \in Nat /\ next'[r] >= next[r] /\ behind' = behind /\ records' = records
      BY <1>1, <2>2, <3>9
    <3>13. QED
      BY <2>1, <3>8, <3>9, <3>10, <3>11, <3>12, OnceBecomes
  <2>5. QED
    BY <1>12, <2>1, <2>3, <2>4, RecordConn
<1>13. ASSUME NEW r \in Runs, LookUp(r) \/ LookUpInserts(r) \/ Break(r)
       PROVE  OnceInv'
  BY <1>4, <1>13 DEF LookUp, LookUpInserts, Break
<1>14. ASSUME NEW r \in Runs, NEW k \in DOMAIN conns[r],
              HandleAppStop(r, k) \/ NextConnection(r, k)
       PROVE  OnceInv'
  BY <1>4, <1>14 DEF HandleAppStop, NextConnection
<1>15. ASSUME NEW r \in Runs, NEW k \in DOMAIN conns[r], Take(r, k)
       PROVE  OnceInv'
  <2>1. PICK c, m : c = conns[r][k] /\ m = Head(c.queue)
    OBVIOUS
  <2>2. /\ c \in Conn /\ c.queue # <<>> /\ c.todo = {}
        /\ UNCHANGED <<records, next, behind>>
    BY <1>15, <2>1, ConnIs DEF Take
  <2>3. PICK d \in Conn : Becomes(r, k, d) /\ InHandOf(c, m, d)
    BY <1>15, <2>1, TakeConn
  <2>4. RowsIn(d) = HeldRows(r, k) /\ (IndexOrder(c) => IndexOrder(d))
    BY <2>1, <2>2, <2>3, TakeIn DEF HeldRows
  <2>5. d.phase = c.phase
    BY <2>3 DEF InHandOf
  <2>6. QED
    BY <1>5, <1>6, <2>1, <2>2, <2>3, <2>4, <2>5
<1>16. ASSUME NEW r \in Runs, NEW k \in DOMAIN conns[r], RunStatement(r, k)
       PROVE  OnceInv'
  <2>1. PICK c, d : c = conns[r][k] /\ d = Done(r, k, "span")
    OBVIOUS
  <2>2. /\ c \in Conn /\ Becomes(r, k, d) /\ UNCHANGED <<records, next, behind>>
    BY <1>16, <2>1, ConnIs, DoneConn DEF RunStatement
  <2>3. /\ d.queue = c.queue /\ d.record = c.record /\ d.start = c.start
        /\ ("record" \in d.todo <=> "record" \in c.todo) /\ d.phase = c.phase
    BY <2>1, <2>2 DEF Done, Conn
  <2>4. RowsIn(d) = HeldRows(r, k) /\ (IndexOrder(c) => IndexOrder(d))
    BY <2>1, <2>3, SameIn DEF HeldRows
  <2>5. QED
    BY <1>5, <1>6, <2>1, <2>2, <2>3, <2>4
<1>17. ASSUME NEW r \in Runs, NEW k \in DOMAIN conns[r], StoreRecord(r, k)
       PROVE  OnceInv'
  <2>1. PICK c, d : c = conns[r][k] /\ d = Done(r, k, "record")
    OBVIOUS
  <2>2. /\ c \in Conn /\ "record" \in c.todo /\ Becomes(r, k, d)
        /\ records' = records \cup {c.record} /\ UNCHANGED <<next, behind>>
    BY <1>17, <2>1, ConnIs, DoneConn DEF StoreRecord
  <2>3. d.phase = c.phase
    BY <2>1, <2>2 DEF Done, Conn
  <2>4. /\ RowsIn(d) = {c.queue[i] : i \in DOMAIN c.queue}
        /\ RowsIn(d) \subseteq HeldRows(r, k) /\ c.record \in HeldRows(r, k)
        /\ IndexOrder(c) => IndexOrder(d)
    BY <2>1, <2>2, StoreIn DEF Done, HeldRows
  <2>5. c.record.run = r /\ c.record.idx \in Int
    <3>1. IndexConn(r, k)
      BY DEF IndexInv, IndexRun
    <3>2. QED
      BY <2>2, <2>4, <3>1 DEF IndexConn, Conn, RecordRow
  <2>6. r \notin behind => \A h \in RowsIn(d) : h.idx # c.record.idx
    <3>1. c.queue \in Seq(RecordRow)
      BY <2>2 DEF Conn
    <3>2. \A i \in DOMAIN c.queue : c.queue[i].idx \in Int
      <4>1. \A i \in DOMAIN c.queue : c.queue[i] \in RecordRow
        BY <3>1
      <4>2. QED
        BY <4>1 DEF RecordRow
    <3>3. r \notin behind => \A i \in DOMAIN c.queue : c.record.idx < c.queue[i].idx
      BY <1>6, <2>1, <2>2 DEF IndexOrder
    <3>4. QED
      BY <2>4, <2>5, <3>2, <3>3
  <2>7. QED
    BY <1>5, <1>6, <2>1, <2>2, <2>3, <2>4, <2>5, <2>6
<1>18. ASSUME NEW r \in Runs, NEW k \in DOMAIN conns[r], HandleAppRun(r, k)
       PROVE  OnceInv'
  <2>1. PICK c : c = Handled(r, k)
    OBVIOUS
  <2>2. Becomes(r, k, c) /\ conns[r][k] \in Conn /\ UNCHANGED <<next, behind>>
    BY <1>18, <2>1, HandleAppRunConn DEF Becomes, HandleAppRun
  <2>3. Waits(r, k) /\ ConnOrder(r, k) /\ IndexConn(r, k)
    BY <1>18 DEF HandleAppRun, At, Waits, Order, RunOrder, IndexInv, IndexRun
  <2>4. /\ c.phase = conns[r][k].phase /\ c.todo = {} /\ conns[r][k].todo = {}
        /\ c.queue = conns[r][k].queue \/ c.queue = <<>>
    BY <2>1, <2>2, <2>3 DEF Handled, Conn, ConnOrder
  <2>5. RowsIn(c) \subseteq HeldRows(r, k)
    BY <2>4 DEF RowsIn, HeldRows
  <2>6. IndexOrder(conns[r][k]) => IndexOrder(c)
    BY <2>4 DEF IndexOrder
  <2>7. \E x : records' = records \cup {x} /\ x.run = r /\ x.idx \in {0, -1}
    <3>1. CASE conns[r][k].reconnect
      <4>1. PICK x : x = Row(nextId, r, -1, "Reconnect", 0)
        OBVIOUS
      <4>2. records' = records \cup {x} /\ x.run = r /\ x.idx = -1
        BY <1>18, <3>1, <4>1 DEF HandleAppRun, Row
      <4>3. QED
        BY <4>2
    <3>2. CASE ~conns[r][k].reconnect
      <4>1. PICK x : x = Row(conns[r][k].start, r, 0, "AppStart", 0)
        OBVIOUS
      <4>2. records' = records \cup {x} /\ x.run = r /\ x.idx = 0
        BY <1>18, <3>2, <4>1 DEF HandleAppRun, Row
      <4>3. QED
        BY <4>2
    <3>3. QED
      BY <3>1, <3>2
  <2>8. \A h \in RowsIn(c) : h.idx >= 1
    BY <2>3, <2>5 DEF IndexConn
  <2>9. \A m \in records' \ records :
          /\ m.run = r /\ m.idx <= 0
          /\ \A n \in records' \ records : m = n
          /\ \A h \in RowsIn(c) : h.idx # m.idx
    BY <2>7, <2>8
  <2>10. QED
    BY <1>5, <1>6, <2>2, <2>4, <2>5, <2>6, <2>9
<1>19. ASSUME InitTask
       PROVE  OnceInv'
  BY <1>4, <1>19 DEF InitTask, InitFinds, InitLooksAgain, InitMarksRun, InitMarksSpans
<1>20. ASSUME Crash
       PROVE  OnceInv'
  <2>1. UNCHANGED <<records, next, behind>> /\ \A q \in Runs : DOMAIN conns'[q] = {}
    BY <1>20 DEF Crash
  <2>2. \A q \in Runs : RowsOf(q)' = RowsOf(q)
    BY <2>1 DEF RowsOf
  <2>3. QED
    BY <1>1, <2>1, <2>2 DEF OnceInv, OnceRun
<1>21. QED
  BY <1>2, <1>3, <1>10, <1>11, <1>12, <1>13, <1>14, <1>15, <1>16, <1>17, <1>18, <1>19, <1>20
     DEF Next, Client, Handler, Server
-----------------------------------------------------------------------------
\* A set that has at most one element that another has not.
LEMMA OneMore ==
  ASSUME NEW L, NEW C, IsFiniteSet(C), \A x, y \in L \ C : x = y
  PROVE  IsFiniteSet(L) /\ Cardinality(L) <= 1 + Cardinality(C)
<1>1. Cardinality(C) \in Nat
  BY FS_CardinalityType
<1>2. PICK x : L \subseteq C \cup {x}
  <2>1. CASE L \subseteq C
    BY <2>1
  <2>2. CASE ~(L \subseteq C)
    <3>1. PICK y : y \in L \ C
      BY <2>2
    <3>2. L \subseteq C \cup {y}
      BY <3>1
    <3>3. QED
      BY <3>2
  <2>3. QED
    BY <2>1, <2>2
<1>3. IsFiniteSet(C \cup {x}) /\ Cardinality(C \cup {x}) <= Cardinality(C) + 1
  BY <1>1, FS_AddElement
<1>4. IsFiniteSet(L) /\ Cardinality(L) <= Cardinality(C \cup {x})
  BY <1>2, <1>3, FS_Subset
<1>5. Cardinality(L) \in Nat /\ Cardinality(C \cup {x}) \in Nat
  BY <1>3, <1>4, FS_CardinalityType
<1>6. QED
  BY <1>1, <1>3, <1>4, <1>5

\* Initially there is no definition, and no look-up.
LEMMA DefsInit == Init => DefsInv
<1> SUFFICES ASSUME Init PROVE DefsInv
  OBVIOUS
<1>1. /\ looking = {} /\ crossed = {} /\ \A a \in Applications : defs[a] = 0
      /\ \A r \in Runs : cached[r] = 0 /\ App(r) \in Applications
  BY DEF Init, InitialServer, App, Applications
<1>2. \A a : Look(a) = {} /\ Cross(a) = {}
  BY <1>1 DEF Look, Cross
<1>3. IsFiniteSet({}) /\ Cardinality({}) = 0
  BY FS_EmptySet
<1>4. ASSUME NEW a \in Applications
      PROVE  defs[a] + Cardinality(Look(a)) <= 1 + Cardinality(Cross(a))
  <2>1. Cardinality(Look(a)) = 0 /\ Cardinality(Cross(a)) = 0 /\ defs[a] = 0
    BY <1>1, <1>2, <1>3
  <2>2. QED
    BY <2>1
<1>5. \A r \in Runs : cached[r] <= defs[App(r)]
  BY <1>1
<1>6. QED
  BY <1>1, <1>2, <1>3, <1>4, <1>5 DEF DefsInv

\* What the invariant says of the application a.
DefsOf(a) ==
  /\ defs[a] = 0 => \A q, r \in Look(a) \ Cross(a) : q = r
  /\ defs[a] + Cardinality(Look(a)) <= 1 + Cardinality(Cross(a))

\* Every step inserts a second definition only when look-ups have crossed.
LEMMA DefsStep ==
  ASSUME Types, DefsInv, Next
  PROVE  DefsInv'
<1> USE DEF clientVars, dbVars, initVars, historyVars
<1>1. /\ \A r \in Runs : cached[r] <= defs[App(r)] /\ cached[r] \in Nat /\ App(r) \in Applications
      /\ \A a \in Applications : defs[a] \in Nat /\ DefsOf(a)
      /\ IsFiniteSet(looking) /\ IsFiniteSet(crossed)
      /\ \A a : /\ IsFiniteSet(Look(a)) /\ Cardinality(Look(a)) \in Nat
                /\ IsFiniteSet(Cross(a)) /\ Cardinality(Cross(a)) \in Nat
  <2>1. IsFiniteSet(looking) /\ IsFiniteSet(crossed)
    BY DEF DefsInv
  <2>2. \A a : Look(a) \in SUBSET looking /\ Cross(a) \in SUBSET crossed
    BY DEF Look, Cross
  <2>3. \A a : IsFiniteSet(Look(a)) /\ IsFiniteSet(Cross(a))
    BY <2>1, <2>2, FS_Subset
  <2>4. \A a : Cardinality(Look(a)) \in Nat /\ Cardinality(Cross(a)) \in Nat
    BY <2>3, FS_CardinalityType
  <2>5. QED
    BY <2>1, <2>3, <2>4 DEF DefsInv, DefsOf, Types, App, Applications
<1>2. ASSUME UNCHANGED <<case, defs, looking, crossed>>,
             \A r \in Runs : cached'[r] \in Nat /\ cached'[r] <= defs[App(r)]
      PROVE  DefsInv'
  <2>1. \A a : Look(a)' = Look(a) /\ Cross(a)' = Cross(a) /\ \A r : App(r)' = App(r)
    BY <1>2 DEF Look, Cross, App, SelfRuns
  <2>2. QED
    BY <1>1, <1>2, <2>1 DEF DefsInv, DefsOf
<1>3. ASSUME UNCHANGED <<case, defs, looking, crossed, cached>>
      PROVE  DefsInv'
  BY <1>1, <1>2, <1>3
<1>4. ASSUME NEW r \in Runs, Connect(r)
      PROVE  DefsInv'
  BY <1>1, <1>2, <1>4 DEF Connect, Types
<1>5. ASSUME NEW r \in Runs,
             Record(r) \/ Stop(r) \/ Break(r) \/ Reply(r) \/ Drop(r) \/ Notice(r)
      PROVE  DefsInv'
  BY <1>3, <1>5 DEF Record, Stop, Break, Reply, Drop, Notice
<1>6. ASSUME NEW r \in Runs, LookUp(r)
      PROVE  DefsInv'
  <2>1. PICK a \in Applications : a = App(r)
    BY <1>1
  <2>2. CASE Inserts(r)
    <3>1. /\ looking' = looking \cup {r} /\ r \notin looking /\ defs[a] = 0
          /\ crossed' = IF \E q \in looking : App(q) = a THEN crossed \cup {r} ELSE crossed
          /\ UNCHANGED <<case, defs, cached>>
      BY <1>6, <2>1, <2>2 DEF LookUp, Inserts
    <3>2. IsFiniteSet(looking') /\ IsFiniteSet(crossed')
      BY <1>1, <3>1, FS_AddElement
    <3>3. \A q : App(q)' = App(q)
      BY <3>1 DEF App, SelfRuns
    <3>4. /\ Look(a)' = Look(a) \cup {r}
          /\ Cross(a)' = IF Look(a) # {} THEN Cross(a) \cup {r} ELSE Cross(a)
          /\ \A b : b # a => Look(b)' = Look(b) /\ Cross(b)' = Cross(b)
      BY <2>1, <3>1, <3>3 DEF Look, Cross
    <3>5. \A x, y \in Look(a)' \ Cross(a)' : x = y
      <4>1. \A x, y \in Look(a) \ Cross(a) : x = y
        BY <1>1, <3>1 DEF DefsOf
      <4>2. QED
        BY <3>4, <4>1
    <3>6. IsFiniteSet(Cross(a)')
      <4>1. IsFiniteSet(Cross(a) \cup {r})
        BY <1>1, FS_AddElement
      <4>2. QED
        BY <1>1, <3>4, <4>1
    <3>7. Cardinality(Look(a)') <= 1 + Cardinality(Cross(a)')
      BY <3>5, <3>6, OneMore
    <3>8. Cardinality(Look(a)') \in Nat
      <4>1. IsFiniteSet(Look(a) \cup {r})
        BY <1>1, FS_AddElement
      <4>2. Cardinality(Look(a) \cup {r}) \in Nat
        BY <4>1, FS_CardinalityType
      <4>3. QED
        BY <3>4, <4>2
    <3>9. DefsOf(a)'
      BY <3>1, <3>5, <3>7, <3>8 DEF DefsOf
    <3>10. \A b \in Applications : DefsOf(b)'
      BY <1>1, <3>1, <3>4, <3>9 DEF DefsOf
    <3>11. QED
      BY <1>1, <3>1, <3>2, <3>3, <3>10 DEF DefsInv, DefsOf
  <2>3. CASE ~Inserts(r)
    <3>1. PICK d \in 1..defs[App(r)] : cached' = [cached EXCEPT ![r] = d]
      BY <1>6, <2>3 DEF LookUp
    <3>2. d \in Nat /\ d <= defs[App(r)]
      BY <1>1, <3>1
    <3>3. \A q \in Runs : cached'[q] \in Nat /\ cached'[q] <= defs[App(q)]
      BY <1>1, <3>1, <3>2 DEF Types
    <3>4. UNCHANGED <<case, defs, looking, crossed>>
      BY <1>6, <2>3 DEF LookUp
    <3>5. QED
      BY <1>2, <3>3, <3>4
  <2>4. QED
    BY <2>2, <2>3
<1>7. ASSUME NEW r \in Runs, LookUpInserts(r)
      PROVE  DefsInv'
  <2>1. PICK a \in Applications : a = App(r)
    BY <1>1
  <2>2. /\ r \in looking /\ looking' = looking \ {r} /\ UNCHANGED <<case, crossed>>
        /\ defs' = [defs EXCEPT ![a] = @ + 1]
        /\ cached' = [cached EXCEPT ![r] = defs'[a]]
    BY <1>7, <2>1 DEF LookUpInserts
  <2>3. /\ defs'[a] = defs[a] + 1 /\ \A b \in Applications : b # a => defs'[b] = defs[b]
        /\ cached'[r] = defs'[a] /\ \A q \in Runs : q # r => cached'[q] = cached[q]
    BY <2>2 DEF Types
  <2>4. \A q : App(q)' = App(q)
    BY <2>2 DEF App, SelfRuns
  <2>5. /\ Look(a)' = Look(a) \ {r} /\ r \in Look(a)
        /\ \A b : Cross(b)' = Cross(b)
        /\ \A b : b # a => Look(b)' = Look(b)
    BY <2>1, <2>2, <2>4 DEF Look, Cross
  <2>6. Cardinality(Look(a)') = Cardinality(Look(a)) - 1
    BY <1>1, <2>5, FS_RemoveElement
  <2>7. DefsOf(a)'
    <3>1. defs[a] + Cardinality(Look(a)) <= 1 + Cardinality(Cross(a)) /\ defs[a] \in Nat
      BY <1>1 DEF DefsOf
    <3>2. Cardinality(Look(a)) \in Nat /\ Cardinality(Cross(a)) \in Nat
      BY <1>1
    <3>3. defs'[a] + Cardinality(Look(a)') <= 1 + Cardinality(Cross(a)')
      BY <2>3, <2>5, <2>6, <3>1, <3>2
    <3>4. defs'[a] # 0
      BY <2>3, <3>1
    <3>5. QED
      BY <3>3, <3>4 DEF DefsOf
  <2>8. \A b \in Applications : DefsOf(b)'
    BY <1>1, <2>3, <2>5, <2>7 DEF DefsOf
  <2>9. ASSUME NEW q \in Runs
        PROVE  cached'[q] <= defs'[App(q)]
    <3>1. cached[q] \in Nat /\ App(q) \in Applications /\ defs[App(q)] \in Nat
          /\ cached[q] <= defs[App(q)]
      BY <1>1
    <3>2. defs'[App(q)] \in Nat /\ defs[App(q)] <= defs'[App(q)]
      BY <2>3, <3>1
    <3>3. CASE q = r
      BY <2>1, <2>3, <3>2, <3>3
    <3>4. CASE q # r
      BY <2>3, <3>1, <3>2, <3>4
    <3>5. QED
      BY <3>3, <3>4
  <2>10. IsFiniteSet(looking') /\ IsFiniteSet(crossed')
    BY <1>1, <2>2, FS_RemoveElement
  <2>11. QED
    BY <2>4, <2>8, <2>9, <2>10 DEF DefsInv, DefsOf
<1>8. ASSUME NEW r \in Runs, NEW k \in DOMAIN conns[r],
             \/ HandleAppRun(r, k) \/ HandleAppStop(r, k) \/ NextConnection(r, k)
             \/ Take(r, k) \/ StoreRecord(r, k) \/ RunStatement(r, k)
      PROVE  DefsInv'
  <2>1. UNCHANGED <<case, defs, looking, crossed, cached>>
    BY <1>8 DEF HandleAppRun, HandleAppStop, NextConnection, Take, StoreRecord, RunStatement
  <2>2. QED
    BY <1>3, <2>1
<1>9. ASSUME InitTask
      PROVE  DefsInv'
  BY <1>3, <1>9 DEF InitTask, InitFinds, InitLooksAgain, InitMarksRun, InitMarksSpans
<1>10. ASSUME Crash
       PROVE  DefsInv'
  <2>1. UNCHANGED <<case, defs, crossed>> /\ looking' = {} /\ \A r \in Runs : cached'[r] = 0
    BY <1>10 DEF Crash
  <2>2. \A a : Look(a)' = {} /\ Cross(a)' = Cross(a) /\ \A q : App(q)' = App(q)
    BY <2>1 DEF Look, Cross, App, SelfRuns
  <2>3. IsFiniteSet({}) /\ Cardinality({}) = 0
    BY FS_EmptySet
  <2>4. ASSUME NEW a \in Applications
        PROVE  DefsOf(a)'
    <3>1. Cardinality(Look(a)') = 0
      BY <2>2, <2>3
    <3>2. defs[a] + Cardinality(Look(a)) <= 1 + Cardinality(Cross(a)) /\ defs[a] \in Nat
          /\ Cardinality(Look(a)) \in Nat /\ Cardinality(Cross(a)) \in Nat
      BY <1>1 DEF DefsOf
    <3>3. defs'[a] + Cardinality(Look(a)') <= 1 + Cardinality(Cross(a)')
      BY <2>1, <2>2, <3>1, <3>2
    <3>4. QED
      BY <2>2, <3>3 DEF DefsOf
  <2>5. \A r \in Runs : cached'[r] <= defs'[App(r)]
    BY <1>1, <2>1
  <2>6. QED
    BY <1>1, <2>1, <2>2, <2>3, <2>4, <2>5 DEF DefsInv, DefsOf
<1>11. QED
  BY <1>3, <1>4, <1>5, <1>6, <1>7, <1>8, <1>9, <1>10 DEF Next, Client, Handler, Server
-----------------------------------------------------------------------------
\* Initially there is no connection.
LEMMA MarksInit == Init => MarksInv
<1> SUFFICES ASSUME Init PROVE MarksInv
  OBVIOUS
<1>1. \A r \in Runs : DOMAIN conns[r] = {}
  BY DEF Init, InitialServer
<1>2. QED
  BY <1>1 DEF MarksInv

\* The k-th connection of r becomes c, and neither the registry nor the rows of
\* the runs change.
LEMMA MarksBecomes ==
  ASSUME Types, MarksInv, NEW r \in Runs, NEW k, NEW c, Becomes(r, k, c),
         UNCHANGED <<registry, appRun, toMark, raced>>,
         c.normal => conns[r][k].normal \/ ~Passed(r, k),
         c.task = conns[r][k].task,
         conns[r][k].phase \in {"ended", "dropped"} => c.phase \in {"ended", "dropped"}
  PROVE  MarksInv'
<1>1. /\ conns'[r][k] = c /\ k \in DOMAIN conns[r]
      /\ \A q \in Runs : /\ DOMAIN conns'[q] = DOMAIN conns[q]
                         /\ \A l \in DOMAIN conns[q] :
                              <<q, l>> # <<r, k>> => conns'[q][l] = conns[q][l]
  BY ConnChanged DEF Becomes
<1>2. ASSUME NEW q \in Runs, NEW l \in DOMAIN conns[q]
      PROVE  MarksConn(q, l)'
  <2>1. MarksConn(q, l) /\ (Passed(q, l)' <=> Passed(q, l))
    BY DEF MarksInv, Passed
  <2>2. CASE <<q, l>> = <<r, k>>
    BY <1>1, <2>1, <2>2 DEF MarksConn
  <2>3. CASE <<q, l>> # <<r, k>>
    BY <1>1, <2>1, <2>3 DEF MarksConn
  <2>4. QED
    BY <2>2, <2>3
<1>3. QED
  BY <1>1, <1>2 DEF MarksInv

\* A connection that is not ended was not treated as one.
LEMMA NotPassed ==
  ASSUME MarksInv, NEW r \in Runs, NEW k \in DOMAIN conns[r],
         conns[r][k].phase \notin {"ended", "dropped"}
  PROVE  ~Passed(r, k)
BY DEF MarksInv, MarksConn

\* Every step leaves the end of a run that stopped in good order.
LEMMA MarksStep ==
  ASSUME Types, Order, MarksInv, Next
  PROVE  MarksInv'
<1> USE DEF clientVars, dbVars, initVars, historyVars
<1>1. \A r \in Runs : \A k \in DOMAIN conns[r] :
        /\ MarksConn(r, k) /\ ConnOrder(r, k) /\ conns[r][k] \in Conn
        /\ k \in 1..Len(conns[r]) /\ Len(conns[r]) \in Nat
  BY ConnIs DEF MarksInv, Order, RunOrder
<1>2. ASSUME NEW r \in Runs, Connect(r)
      PROVE  MarksInv'
  <2>1. PICK c \in Conn : conns' = [conns EXCEPT ![r] = Append(@, c)] /\ ~c.normal
    BY <1>2, ConnectConn
  <2>2. PICK n : n = Len(conns[r])
    OBVIOUS
  <2>3. /\ DOMAIN conns'[r] = DOMAIN conns[r] \cup {n + 1}
        /\ conns'[r][n + 1] = c /\ \A k \in DOMAIN conns[r] : conns'[r][k] = conns[r][k]
        /\ \A q \in Runs \ {r} : conns'[q] = conns[q]
    BY <2>1, <2>2, ConnAdded
  <2>4. UNCHANGED <<registry, appRun, toMark, raced>>
    BY <1>2 DEF Connect
  <2>5. ASSUME NEW q \in Runs, NEW l \in DOMAIN conns[q]
        PROVE  MarksConn(q, l)'
    BY <1>1, <2>3, <2>4 DEF MarksConn, Passed
  <2>6. MarksConn(r, n + 1)'
    <3>1. n \in Nat /\ registry[r].conn \in Nat /\ RunOrder(r)
      BY <2>2, RegistryIs DEF Types, Order
    <3>2. ~Passed(r, n + 1)'
      BY <2>2, <2>4, <3>1 DEF RunOrder, Passed
    <3>3. QED
      BY <2>1, <2>3, <3>2 DEF MarksConn
  <2>7. QED
    BY <2>3, <2>5, <2>6 DEF MarksInv
<1>3. ASSUME UNCHANGED <<conns, registry, appRun, raced>>,
             \A r \in Runs : r \in toMark' => r \in toMark \/ appRun[r] # "stopped"
      PROVE  MarksInv'
  BY <1>1, <1>3 DEF MarksInv, MarksConn, Passed
<1>4. ASSUME NEW r \in Runs, Reply(r)
      PROVE  MarksInv'
  <2>1. PICK n, c : n = Len(conns[r]) /\ c = [conns[r][n] EXCEPT !.phase = "open"]
    OBVIOUS
  <2>2. Becomes(r, n, c) /\ UNCHANGED <<registry, appRun, toMark, raced>>
    BY <1>4, <2>1, ReplyConn DEF Reply
  <2>3. conns[r][n].phase = "new"
    <3>1. n \in DOMAIN conns[r] /\ Latest(r) = conns[r][n]
      BY <1>4, <2>1, LatestIs DEF Reply, Connected
    <3>2. QED
      BY <1>1, <1>4, <3>1 DEF Reply, Connected, ConnOrder
  <2>4. (c.normal <=> conns[r][n].normal) /\ c.task = conns[r][n].task
    BY <2>1, <2>2 DEF Becomes, Conn
  <2>5. QED
    BY <2>2, <2>3, <2>4, MarksBecomes
<1>5. ASSUME NEW r \in Runs, Drop(r)
      PROVE  MarksInv'
  <2>1. PICK n, c : n = Len(conns[r]) /\ c = [conns[r][n] EXCEPT !.phase = "dropped"]
    OBVIOUS
  <2>2. Becomes(r, n, c) /\ UNCHANGED <<registry, appRun, toMark, raced>>
    BY <1>5, <2>1, DropConn DEF Drop
  <2>3. (c.normal <=> conns[r][n].normal) /\ c.task = conns[r][n].task /\ c.phase = "dropped"
    BY <2>1, <2>2 DEF Becomes, Conn
  <2>4. QED
    BY <2>2, <2>3, MarksBecomes
<1>6. ASSUME NEW r \in Runs, NEW n, n = Len(conns[r]), Connected(r), NEW normal \in BOOLEAN,
             Becomes(r, n, Ended(conns[r][n], normal)),
             UNCHANGED <<registry, appRun, toMark, raced>>
      PROVE  MarksInv'
  <2>1. PICK c : c = Ended(conns[r][n], normal)
    OBVIOUS
  <2>2. c.phase = "ended" /\ c.task = conns[r][n].task
    BY <1>6, <2>1, EndedIs DEF Becomes
  <2>3. ~Passed(r, n)
    <3>1. n \in DOMAIN conns[r] /\ Latest(r) = conns[r][n]
      BY <1>6, LatestIs DEF Connected
    <3>2. QED
      BY <1>6, <3>1, NotPassed DEF Connected
  <2>4. QED
    BY <1>6, <2>1, <2>2, <2>3, MarksBecomes
<1>7. ASSUME NEW r \in Runs, Stop(r) \/ Notice(r)
      PROVE  MarksInv'
  <2>1. Connected(r) /\ UNCHANGED <<registry, appRun, toMark, raced>>
    BY <1>7 DEF Stop, Notice
  <2>2. PICK n : n = Len(conns[r])
    OBVIOUS
  <2>3. QED
    BY <1>6, <1>7, <2>1, <2>2, StopConn, NoticeConn
<1>8. ASSUME NEW r \in Runs, Record(r)
      PROVE  MarksInv'
  <2>1. Connected(r) /\ UNCHANGED <<registry, appRun, toMark, raced>>
    BY <1>8 DEF Record
  <2>2. PICK n : n = Len(conns[r])
    OBVIOUS
  <2>3. CASE Becomes(r, n, Ended(conns[r][n], FALSE))
    BY <1>6, <2>1, <2>2, <2>3
  <2>4. CASE Becomes(r, n, Passing(r))
    <3>1. PICK c : c = Passing(r)
      OBVIOUS
    <3>2. /\ c.normal <=> conns[r][n].normal
          /\ c.task = conns[r][n].task /\ c.phase = conns[r][n].phase
      BY <2>2, <2>4, <3>1 DEF Passing, Becomes, Conn
    <3>3. QED
      BY <2>1, <2>4, <3>1, <3>2, MarksBecomes
  <2>5. QED
    BY <1>8, <2>2, <2>3, <2>4, RecordConn
<1>9. ASSUME NEW r \in Runs, LookUp(r) \/ LookUpInserts(r) \/ Break(r)
      PROVE  MarksInv'
  BY <1>3, <1>9 DEF LookUp, LookUpInserts, Break
<1>10. ASSUME NEW r \in Runs, NEW k \in DOMAIN conns[r], NEW c, Becomes(r, k, c),
              c.phase = conns[r][k].phase, c.task = conns[r][k].task,
              c.normal <=> conns[r][k].normal,
              UNCHANGED <<registry, appRun, toMark, raced>>
       PROVE  MarksInv'
  BY <1>10, MarksBecomes
<1>11. ASSUME NEW r \in Runs, NEW k \in DOMAIN conns[r], Take(r, k)
       PROVE  MarksInv'
  <2>1. UNCHANGED <<registry, appRun, toMark, raced>>
    BY <1>11 DEF Take
  <2>2. \E c : /\ Becomes(r, k, c) /\ c.phase = conns[r][k].phase /\ c.task = conns[r][k].task
               /\ (c.normal <=> conns[r][k].normal)
    BY <1>11, TakeConn DEF InHandOf
  <2>3. QED
    BY <1>10, <2>1, <2>2
<1>12. ASSUME NEW r \in Runs, NEW k \in DOMAIN conns[r], StoreRecord(r, k) \/ RunStatement(r, k)
       PROVE  MarksInv'
  <2>1. UNCHANGED <<registry, appRun, toMark, raced>>
    BY <1>12 DEF StoreRecord, RunStatement
  <2>2. PICK work : Becomes(r, k, Done(r, k, work))
    BY <1>12, DoneConn DEF StoreRecord, RunStatement
  <2>3. PICK c : c = Done(r, k, work)
    OBVIOUS
  <2>4. /\ c.phase = conns[r][k].phase /\ c.task = conns[r][k].task
        /\ c.normal <=> conns[r][k].normal
    BY <2>2, <2>3 DEF Done, Becomes, Conn
  <2>5. QED
    BY <1>10, <2>1, <2>2, <2>3, <2>4
<1>13. ASSUME NEW r \in Runs, NEW k \in DOMAIN conns[r], HandleAppRun(r, k)
       PROVE  MarksInv'
  <2>1. PICK c : c = Handled(r, k)
    OBVIOUS
  <2>2. Becomes(r, k, c)
    BY <1>13, <2>1, HandleAppRunConn
  <2>3. c.phase = conns[r][k].phase /\ (c.normal <=> conns[r][k].normal)
    BY <2>1, <2>2 DEF Handled, Becomes, Conn
  <2>4. /\ registry[r].conn = k /\ registry[r].at = "AppRun"
        /\ registry'[r].conn = k /\ registry'[r].at = "AppStop"
        /\ \A q \in Runs \ {r} : registry'[q] = registry[q]
        /\ UNCHANGED <<toMark, raced>>
        /\ appRun' = appRun \/ (appRun' = [appRun EXCEPT ![r] = "open"] /\ ~conns[r][k].reconnect)
    BY <1>13 DEF HandleAppRun, At, Goes, Types
  <2>5. /\ conns'[r][k] = c
        /\ \A q \in Runs : /\ DOMAIN conns'[q] = DOMAIN conns[q]
                           /\ \A l \in DOMAIN conns[q] :
                                <<q, l>> # <<r, k>> => conns'[q][l] = conns[q][l]
    BY <2>2, ConnChanged
  <2>6. \A q \in Runs : \A l \in DOMAIN conns[q] : Passed(q, l)' <=> Passed(q, l)
    BY <2>4 DEF Passed
  <2>7. ~Passed(r, k)
    BY <1>1, <2>4 DEF Passed
  <2>8. ASSUME NEW q \in Runs, NEW l \in DOMAIN conns[q]
        PROVE  MarksConn(q, l)'
    <3>1. CASE <<q, l>> = <<r, k>>
      BY <2>6, <2>7, <3>1 DEF MarksConn
    <3>2. CASE <<q, l>> # <<r, k>>
      <4>1. MarksConn(q, l) /\ conns'[q][l] = conns[q][l] /\ (Passed(q, l)' <=> Passed(q, l))
        BY <1>1, <2>5, <2>6, <3>2
      <4>2. conns[q][l].normal /\ Passed(q, l) => q # r
        <5>1. ASSUME conns[q][l].normal, Passed(q, l), q = r
              PROVE  FALSE
          <6>1. l = Len(conns[r]) /\ l \in Nat /\ k \in Nat /\ k <= l
            BY <1>1, <5>1 DEF ConnOrder
          <6>2. l # k /\ l \in Nat /\ k \in Nat /\ k <= l
            BY <3>2, <5>1, <6>1
          <6>3. k > l \/ k = l
            BY <2>4, <5>1 DEF Passed
          <6>4. QED
            BY <6>2, <6>3
        <5>2. QED
          BY <5>1
      <4>3. q # r => appRun'[q] = appRun[q]
        BY <2>4 DEF Types
      <4>4. QED
        BY <2>4, <4>1, <4>2, <4>3 DEF MarksConn
    <3>3. QED
      BY <3>1, <3>2
  <2>9. QED
    BY <2>5, <2>8 DEF MarksInv
<1>14. ASSUME NEW r \in Runs, NEW k \in DOMAIN conns[r], HandleAppStop(r, k)
       PROVE  MarksInv'
  <2>1. /\ registry[r].conn = k /\ registry[r].at = "AppStop" /\ conns[r][k].phase = "ended"
        /\ registry'[r].conn = k /\ registry'[r].at = "task"
        /\ \A q \in Runs \ {r} : registry'[q] = registry[q]
        /\ UNCHANGED <<toMark, conns>> /\ raced \subseteq raced'
        /\ r \in toMark => r \in raced'
        /\ \A q \in Runs \ {r} : appRun'[q] = appRun[q]
    BY <1>14 DEF HandleAppStop, At, Goes, Types
  <2>2. conns[r][k].normal /\ appRun[r] # "none" => appRun'[r] = "stopped"
    BY <1>14 DEF HandleAppStop, Types
  <2>3. ASSUME NEW q \in Runs, NEW l \in DOMAIN conns[q]
        PROVE  MarksConn(q, l)'
    <3>1. CASE q # r
      BY <1>1, <2>1, <3>1 DEF MarksConn, Passed
    <3>2. CASE q = r /\ l = k
      <4>1. conns[r][k].task = "running" => appRun[r] # "none"
        BY <1>1 DEF ConnOrder
      <4>2. QED
        BY <2>1, <2>2, <3>2, <4>1 DEF MarksConn
    <3>3. CASE q = r /\ l # k
      <4>1. l \in Nat /\ k \in Nat /\ k <= Len(conns[r]) /\ MarksConn(r, l)
        BY <1>1, <3>3
      <4>2. Passed(r, l)' <=> Passed(r, l)
        BY <2>1, <3>3, <4>1 DEF Passed
      <4>3. conns[r][l].normal => ~Passed(r, l)
        <5>1. conns[r][l].normal => l = Len(conns[r])
          BY <1>1, <3>3 DEF ConnOrder
        <5>2. QED
          BY <2>1, <3>3, <4>1, <5>1 DEF Passed
      <4>4. QED
        BY <2>1, <3>3, <4>1, <4>2, <4>3 DEF MarksConn
    <3>4. QED
      BY <3>1, <3>2, <3>3
  <2>4. QED
    BY <2>1, <2>3 DEF MarksInv
<1>15. ASSUME NEW r \in Runs, NEW k \in DOMAIN conns[r], NextConnection(r, k)
       PROVE  MarksInv'
  <2>1. /\ registry[r].conn = k /\ registry'[r].conn = k + 1 /\ registry'[r].at = "AppRun"
        /\ \A q \in Runs \ {r} : registry'[q] = registry[q]
        /\ UNCHANGED <<toMark, conns, raced, appRun>>
        /\ registry[r].at = "task" \/ conns[r][k].phase = "dropped"
    BY <1>15 DEF NextConnection, At, Goes, Types
  <2>2. ASSUME NEW q \in Runs, NEW l \in DOMAIN conns[q]
        PROVE  MarksConn(q, l)'
    <3>1. CASE q # r
      BY <1>1, <2>1, <3>1 DEF MarksConn, Passed
    <3>2. CASE q = r
      <4>1. l \in Nat /\ k \in Nat /\ MarksConn(r, l) /\ ConnOrder(r, l)
        BY <1>1, <3>2
      <4>2. Passed(r, l)' <=> l <= k
        BY <2>1, <4>1 DEF Passed
      <4>3. CASE l < k
        <5>1. Passed(r, l)
          BY <2>1, <4>1, <4>3 DEF Passed
        <5>2. QED
          BY <2>1, <3>2, <4>1, <5>1 DEF MarksConn
      <4>4. CASE l = k
        <5>1. CASE registry[r].at = "task"
          <6>1. Passed(r, l)
            BY <2>1, <4>1, <4>4, <5>1 DEF Passed
          <6>2. QED
            BY <2>1, <3>2, <4>1, <6>1 DEF MarksConn
        <5>2. CASE conns[r][k].phase = "dropped"
          <6>1. ~conns[r][l].normal
            BY <4>1, <4>4, <5>2 DEF ConnOrder
          <6>2. QED
            BY <2>1, <3>2, <4>4, <5>2, <6>1 DEF MarksConn
        <5>3. QED
          BY <2>1, <5>1, <5>2
      <4>5. CASE l > k
        <5>1. ~Passed(r, l)'
          BY <4>1, <4>2, <4>5
        <5>2. QED
          BY <3>2, <5>1 DEF MarksConn
      <4>6. QED
        BY <4>1, <4>3, <4>4, <4>5
    <3>3. QED
      BY <3>1, <3>2
  <2>3. QED
    BY <2>1, <2>2 DEF MarksInv
<1>16. ASSUME InitFinds \/ InitLooksAgain \/ InitMarksSpans
       PROVE  MarksInv'
  <2>1. UNCHANGED <<conns, registry, appRun, raced>>
    BY <1>16 DEF InitFinds, InitLooksAgain, InitMarksSpans
  <2>2. \A r \in Runs : r \in toMark' => r \in toMark \/ appRun[r] # "stopped"
    BY <1>16 DEF InitFinds, InitLooksAgain, InitMarksSpans, OpenRuns, FoundAndOpen
  <2>3. QED
    BY <1>3, <2>1, <2>2
<1>17. ASSUME NEW r \in Runs, InitMarksRun(r)
       PROVE  MarksInv'
  <2>1. /\ r \in toMark /\ toMark' \subseteq toMark /\ UNCHANGED <<conns, registry, raced>>
        /\ \A q \in Runs \ {r} : appRun'[q] = appRun[q]
    BY <1>17 DEF InitMarksRun, Types
  <2>2. ASSUME NEW q \in Runs, NEW l \in DOMAIN conns[q]
        PROVE  MarksConn(q, l)'
    BY <1>1, <2>1 DEF MarksConn, Passed
  <2>3. QED
    BY <2>1, <2>2 DEF MarksInv
<1>18. ASSUME Crash
       PROVE  MarksInv'
  <2>1. \A q \in Runs : DOMAIN conns'[q] = {}
    BY <1>18 DEF Crash
  <2>2. QED
    BY <2>1 DEF MarksInv
<1>19. QED
  BY <1>2, <1>4, <1>5, <1>7, <1>8, <1>9, <1>11, <1>12, <1>13, <1>14, <1>15, <1>16, <1>17, <1>18
     DEF Next, Client, Handler, Server, InitTask
-----------------------------------------------------------------------------
\* The k-th connection of r may change, but not what it does for spans.
KeepsSpans(r, k) ==
  \E c : /\ Becomes(r, k, c)
         /\ c.created = conns[r][k].created /\ c.record = conns[r][k].record
         /\ c.row = conns[r][k].row /\ c.todo = conns[r][k].todo

\* The steps that have nothing to do with spans.
LEMMA OtherSteps ==
  ASSUME Types, Order, Next
  PROVE  \/ \E r \in Runs : Connect(r)
         \/ \E r \in Runs : \E k \in DOMAIN conns[r] :
              Take(r, k) \/ StoreRecord(r, k) \/ RunStatement(r, k)
         \/ InitMarksSpans
         \/ Crash
         \/ /\ UNCHANGED <<spanRuns, rowIds, torn>>
            /\ conns' = conns \/ \E r \in Runs : \E k \in DOMAIN conns[r] : KeepsSpans(r, k)
<1> USE DEF clientVars, dbVars, initVars, historyVars
<1>1. ASSUME NEW r \in Runs, NEW n, NEW normal \in BOOLEAN, n \in DOMAIN conns[r],
             Becomes(r, n, Ended(conns[r][n], normal))
      PROVE  KeepsSpans(r, n)
  <2>1. PICK c : c = Ended(conns[r][n], normal)
    OBVIOUS
  <2>2. /\ c.created = conns[r][n].created /\ c.record = conns[r][n].record
        /\ c.row = conns[r][n].row /\ c.todo = conns[r][n].todo
    BY <1>1, <2>1, EndedIs DEF Becomes
  <2>3. QED
    BY <1>1, <2>1, <2>2 DEF KeepsSpans
<1>2. ASSUME NEW r \in Runs, Reply(r) \/ Drop(r)
      PROVE  /\ UNCHANGED <<spanRuns, rowIds, torn>>
             /\ \E k \in DOMAIN conns[r] : KeepsSpans(r, k)
  <2>1. UNCHANGED <<spanRuns, rowIds, torn>>
    BY <1>2 DEF Reply, Drop
  <2>2. PICK n, phase : Becomes(r, n, [conns[r][n] EXCEPT !.phase = phase])
    BY <1>2, ReplyConn, DropConn
  <2>3. PICK c : c = [conns[r][n] EXCEPT !.phase = phase]
    OBVIOUS
  <2>4. /\ c.created = conns[r][n].created /\ c.record = conns[r][n].record
        /\ c.row = conns[r][n].row /\ c.todo = conns[r][n].todo /\ n \in DOMAIN conns[r]
    BY <2>2, <2>3 DEF Becomes, Conn
  <2>5. QED
    BY <2>1, <2>2, <2>3, <2>4 DEF KeepsSpans
<1>3. ASSUME NEW r \in Runs, Record(r) \/ Stop(r) \/ Notice(r)
      PROVE  /\ UNCHANGED <<spanRuns, rowIds, torn>>
             /\ \E k \in DOMAIN conns[r] : KeepsSpans(r, k)
  <2>1. UNCHANGED <<spanRuns, rowIds, torn>>
    BY <1>3 DEF Record, Stop, Notice
  <2>2. PICK n : n = Len(conns[r])
    OBVIOUS
  <2>3. \/ \E normal \in BOOLEAN : Becomes(r, n, Ended(conns[r][n], normal))
        \/ Becomes(r, n, Passing(r))
    BY <1>3, <2>2, RecordConn, StopConn, NoticeConn
  <2>4. n \in DOMAIN conns[r] /\ conns[r][n] \in Conn
    BY <2>3 DEF Becomes
  <2>5. CASE Becomes(r, n, Passing(r))
    <3>1. PICK c : c = Passing(r)
      OBVIOUS
    <3>2. /\ c.created = conns[r][n].created /\ c.record = conns[r][n].record
          /\ c.row = conns[r][n].row /\ c.todo = conns[r][n].todo
      BY <2>2, <2>4, <3>1 DEF Passing, Conn
    <3>3. QED
      BY <2>1, <2>4, <2>5, <3>1, <3>2 DEF KeepsSpans
  <2>6. QED
    BY <1>1, <2>1, <2>3, <2>4, <2>5
<1>4. ASSUME NEW r \in Runs, LookUp(r) \/ LookUpInserts(r) \/ Break(r)
      PROVE  UNCHANGED <<conns, spanRuns, rowIds, torn>>
  BY <1>4 DEF LookUp, LookUpInserts, Break
<1>5. ASSUME NEW r \in Runs, NEW k \in DOMAIN conns[r],
             HandleAppStop(r, k) \/ NextConnection(r, k)
      PROVE  UNCHANGED <<conns, spanRuns, rowIds, torn>>
  BY <1>5 DEF HandleAppStop, NextConnection
<1>6. ASSUME NEW r \in Runs, NEW k \in DOMAIN conns[r], HandleAppRun(r, k)
      PROVE  UNCHANGED <<spanRuns, rowIds, torn>> /\ KeepsSpans(r, k)
  <2>1. UNCHANGED <<spanRuns, rowIds, torn>>
    BY <1>6 DEF HandleAppRun
  <2>2. PICK c : c = Handled(r, k)
    OBVIOUS
  <2>3. Becomes(r, k, c)
    BY <1>6, <2>2, HandleAppRunConn
  <2>4. /\ c.created = conns[r][k].created /\ c.record = conns[r][k].record
        /\ c.row = conns[r][k].row /\ c.todo = conns[r][k].todo
    BY <2>2, <2>3 DEF Handled, Becomes, Conn
  <2>5. QED
    BY <2>1, <2>3, <2>4 DEF KeepsSpans
<1>7. ASSUME InitFinds \/ InitLooksAgain \/ (\E r \in Runs : InitMarksRun(r))
      PROVE  UNCHANGED <<conns, spanRuns, rowIds, torn>>
  BY <1>7 DEF InitFinds, InitLooksAgain, InitMarksRun
<1>8. QED
  BY <1>2, <1>3, <1>4, <1>5, <1>6, <1>7 DEF Next, Client, Handler, Server, InitTask

-----------------------------------------------------------------------------
\* Initially there is no row of a span.
LEMMA RowsInit == Init => RowsInv
<1> SUFFICES ASSUME Init PROVE RowsInv
  OBVIOUS
<1>1. spanRuns = {} /\ \A r \in Runs : DOMAIN conns[r] = {}
  BY DEF Init, InitialServer
<1>2. QED
  BY <1>1 DEF RowsInv

\* The k-th connection of r claims what it claimed, at most, or new ids, and there
\* is no new row but one it claimed and does not claim twice.
LEMMA RowsBecomes ==
  ASSUME Types, RowsInv, Next, NEW r \in Runs, NEW k, NEW c, Becomes(r, k, c),
         rowIds' \in Nat, rowIds' >= rowIds,
         \A x \in ClaimsIn(c) : x \in Claims(r, k) \/ x[1] = 0 \/ x[1] \in (rowIds + 1)..rowIds',
         \A x, y \in ClaimsIn(c) : x[1] = y[1] /\ x[1] # 0 => x[2] = y[2],
         \A s \in spanRuns' :
           \/ \E t \in spanRuns : s.row = t.row /\ s.run = t.run /\ s.span = t.span
           \/ s.run = r /\ s.row # 0 /\ <<s.row, s.span>> \in Claims(r, k),
         \A s, t \in spanRuns' : s.row = t.row => s = t,
         "span" \in c.todo =>
           /\ c.record.run = r
           /\ "record" \notin c.todo => c.record \in records'
           /\ c.record.type = "Create" => c.row # 0 /\ \A s \in spanRuns' : s.row # c.row
  PROVE  RowsInv'
<1>1. /\ conns'[r][k] = c /\ k \in DOMAIN conns[r]
      /\ \A q \in Runs : /\ DOMAIN conns'[q] = DOMAIN conns[q]
                         /\ \A l \in DOMAIN conns[q] :
                              <<q, l>> # <<r, k>> => conns'[q][l] = conns[q][l]
  BY ConnChanged DEF Becomes
<1>2. rowIds \in Nat
  BY DEF Types
<1>3. ASSUME NEW q \in Runs, NEW l \in DOMAIN conns[q]
      PROVE  RowsConn(q, l)
  BY DEF RowsInv
<1>4. Claims(r, k)' = ClaimsIn(c)
      /\ \A q \in Runs : \A l \in DOMAIN conns[q] :
           <<q, l>> # <<r, k>> => Claims(q, l)' = Claims(q, l)
  BY <1>1 DEF Claims
<1>5. \A s \in spanRuns' : s.row \in 1..rowIds'
  <2>1. SUFFICES ASSUME NEW s \in spanRuns'
                 PROVE  s.row \in 1..rowIds'
    OBVIOUS
  <2>2. CASE \E t \in spanRuns : s.row = t.row
    <3>1. s.row \in 1..rowIds
      BY <2>2 DEF RowsInv
    <3>2. QED
      BY <1>2, <3>1
  <2>3. CASE s.row # 0 /\ <<s.row, s.span>> \in Claims(r, k)
    <3>1. s.row \in 0..rowIds
      BY <1>1, <1>3, <2>3 DEF RowsConn
    <3>2. QED
      BY <1>2, <2>3, <3>1
  <2>4. QED
    BY <2>2, <2>3
<1>6. ASSUME NEW q \in Runs, NEW l \in DOMAIN conns[q], NEW x \in Claims(q, l), x[1] # 0,
             NEW s \in spanRuns', s.row = x[1]
      PROVE  s.run = q /\ s.span = x[2]
  <2>1. CASE \E t \in spanRuns : s.row = t.row /\ s.run = t.run /\ s.span = t.span
    <3>1. PICK t \in spanRuns : s.row = t.row /\ s.run = t.run /\ s.span = t.span
      BY <2>1
    <3>2. t.run = q /\ t.span = x[2]
      <4>1. \A y \in Claims(q, l) : y[1] # 0 =>
              \A u \in spanRuns : u.row = y[1] => u.run = q /\ u.span = y[2]
        BY <1>3, <1>6 DEF RowsConn
      <4>2. t \in spanRuns /\ t.row = x[1] /\ x \in Claims(q, l) /\ x[1] # 0
        BY <1>6, <3>1
      <4>3. QED
        BY <4>1, <4>2
    <3>3. QED
      BY <3>1, <3>2
  <2>2. CASE s.run = r /\ s.row # 0 /\ <<s.row, s.span>> \in Claims(r, k)
    <3>1. PICK y \in Claims(r, k) : y = <<s.row, s.span>>
      BY <2>2
    <3>2. y[1] = x[1] /\ y[2] = s.span
      BY <1>6, <3>1
    <3>3. <<q, l>> = <<r, k>>
      BY <1>1, <1>6, <3>1, <3>2 DEF RowsInv
    <3>4. QED
      BY <1>3, <1>6, <2>2, <3>1, <3>2, <3>3 DEF RowsConn
  <2>3. QED
    BY <2>1, <2>2
<1>7. \A x \in ClaimsIn(c) : x[1] # 0 => \/ x \in Claims(r, k)
                                        \/ /\ x[1] \in (rowIds + 1)..rowIds'
                                           /\ x[1] \notin 0..rowIds
  BY <1>2
<1>8. ASSUME NEW q \in Runs, NEW l \in DOMAIN conns'[q]
      PROVE  RowsConn(q, l)'
  <2>1. l \in DOMAIN conns[q] /\ RowsConn(q, l)
    BY <1>1, <1>3
  <2>2. CASE <<q, l>> # <<r, k>>
    <3>1. Claims(q, l)' = Claims(q, l) /\ conns'[q][l] = conns[q][l]
      BY <1>1, <1>4, <2>1, <2>2
    <3>2. \A x \in Claims(q, l) : x[1] \in 0..rowIds /\ x[1] \in 0..rowIds'
      BY <1>2, <2>1 DEF RowsConn
    <3>3. ASSUME "span" \in conns[q][l].todo
          PROVE  /\ conns[q][l].record.run = q
                 /\ "record" \notin conns[q][l].todo => conns[q][l].record \in records'
                 /\ conns[q][l].record.type = "Create" =>
                      conns[q][l].row # 0 /\ \A s \in spanRuns' : s.row # conns[q][l].row
      <4>1. records \subseteq records'
        BY RecordsStay
      <4>2. PICK x \in Claims(q, l) : x = <<conns[q][l].row, conns[q][l].record.span>>
        BY <3>3 DEF Claims, ClaimsIn
      <4>3. x[1] = conns[q][l].row
        BY <4>2
      <4>4. ASSUME conns[q][l].record.type = "Create", NEW s \in spanRuns', s.row = conns[q][l].row
            PROVE  FALSE
        <5>1. conns[q][l].row # 0 /\ \A t \in spanRuns : t.row # conns[q][l].row
          BY <2>1, <3>3, <4>4 DEF RowsConn
        <5>2. <<s.row, s.span>> \in Claims(r, k)
          BY <4>4, <5>1
        <5>3. PICK y \in Claims(r, k) : y = <<s.row, s.span>>
          BY <5>2
        <5>4. y[1] = x[1] /\ x[1] # 0
          BY <4>3, <4>4, <5>1, <5>3
        <5>5. QED
          BY <1>1, <2>1, <2>2, <4>2, <5>3, <5>4 DEF RowsInv
      <4>5. QED
        BY <2>1, <3>3, <4>1, <4>4 DEF RowsConn
    <3>4. QED
      BY <1>6, <2>1, <3>1, <3>2, <3>3 DEF RowsConn
  <2>3. CASE <<q, l>> = <<r, k>>
    <3>1. \A x \in ClaimsIn(c) : x[1] \in 0..rowIds'
      <4>1. \A x \in Claims(r, k) : x[1] \in 0..rowIds
        BY <2>1, <2>3 DEF RowsConn
      <4>2. \A i : i = 0 \/ i \in 0..rowIds \/ i \in (rowIds + 1)..rowIds' => i \in 0..rowIds'
        BY <1>2
      <4>3. QED
        BY <4>1, <4>2
    <3>2. ASSUME NEW x \in ClaimsIn(c), x[1] # 0, NEW s \in spanRuns', s.row = x[1]
          PROVE  s.run = r /\ s.span = x[2]
      <4>1. CASE x \in Claims(r, k)
        BY <1>1, <1>6, <3>2, <4>1
      <4>2. CASE x[1] \notin 0..rowIds
        <5>1. \A t \in spanRuns : t.row \in 0..rowIds
          <6>1. \A t \in spanRuns : t.row \in 1..rowIds
            BY DEF RowsInv
          <6>2. QED
            BY <1>2, <6>1
        <5>2. \A y \in Claims(r, k) : y[1] \in 0..rowIds
          BY <2>1, <2>3 DEF RowsConn
        <5>3. ASSUME <<s.row, s.span>> \in Claims(r, k)
              PROVE  s.row \in 0..rowIds
          BY <5>2, <5>3
        <5>4. QED
          BY <3>2, <4>2, <5>1, <5>3
      <4>3. QED
        BY <1>7, <3>2, <4>1, <4>2
    <3>3. QED
      BY <1>1, <1>4, <2>3, <3>1, <3>2 DEF RowsConn
  <2>4. QED
    BY <2>2, <2>3
<1>9. ASSUME NEW q \in Runs, NEW l \in DOMAIN conns[q], <<q, l>> # <<r, k>>,
             NEW x \in ClaimsIn(c), NEW y \in Claims(q, l), x[1] # 0
      PROVE  x[1] # y[1]
  <2>1. CASE x \in Claims(r, k)
    BY <1>1, <1>9, <2>1 DEF RowsInv
  <2>2. CASE x[1] \notin 0..rowIds
    BY <1>3, <1>9, <2>2 DEF RowsConn
  <2>3. QED
    BY <1>7, <1>9, <2>1, <2>2
<1>10. ASSUME NEW p \in Runs, NEW q \in Runs, NEW j \in DOMAIN conns'[p], NEW l \in DOMAIN conns'[q],
              <<q, l>> # <<p, j>>, NEW x \in Claims(p, j)', NEW y \in Claims(q, l)', x[1] # 0
       PROVE  x[1] # y[1]
  <2>1. j \in DOMAIN conns[p] /\ l \in DOMAIN conns[q]
    BY <1>1
  <2>2. CASE <<p, j>> = <<r, k>>
    BY <1>4, <1>9, <1>10, <2>1, <2>2
  <2>3. CASE <<q, l>> = <<r, k>>
    <3>1. x \in Claims(p, j) /\ y \in ClaimsIn(c)
      BY <1>4, <1>10, <2>1, <2>3
    <3>2. QED
      BY <1>9, <1>10, <2>1, <2>3, <3>1
  <2>4. CASE <<p, j>> # <<r, k>> /\ <<q, l>> # <<r, k>>
    BY <1>4, <1>10, <2>1, <2>4 DEF RowsInv
  <2>5. QED
    BY <2>2, <2>3, <2>4
<1>11. QED
  BY <1>5, <1>8, <1>10 DEF RowsInv

\* Every step leaves the ids of the rows of spans apart.
LEMMA RowsStep ==
  ASSUME Types, Order, IdsInv, IndexInv, RowsInv, Next
  PROVE  RowsInv'
<1> USE DEF clientVars, dbVars, initVars, historyVars
<1>1. /\ rowIds \in Nat
      /\ \A r \in Runs : \A k \in DOMAIN conns[r] : RowsConn(r, k) /\ IndexConn(r, k)
      /\ \A s, t \in spanRuns : s.row = t.row => s = t
  BY DEF RowsInv, Types, IndexInv, IndexRun
<1>2. ASSUME UNCHANGED <<spanRuns, rowIds, conns>>
      PROVE  RowsInv'
  <2>1. ASSUME NEW r \in Runs, NEW k \in DOMAIN conns[r]
        PROVE  RowsConn(r, k)' /\ Claims(r, k)' = Claims(r, k)
    BY <1>1, <1>2, RecordsStay DEF RowsConn, Claims
  <2>2. QED
    BY <1>2, <2>1 DEF RowsInv
\* A connection that claims what it claimed, and no new row.
<1>3. ASSUME NEW r \in Runs, NEW k, NEW c, Becomes(r, k, c), rowIds' = rowIds,
             ClaimsIn(c) \subseteq Claims(r, k),
             \A s \in spanRuns' : \E t \in spanRuns : s.row = t.row /\ s.run = t.run /\ s.span = t.span,
             \A s, t \in spanRuns' : s.row = t.row => s = t,
             "span" \in c.todo =>
               /\ c.record.run = r
               /\ "record" \notin c.todo => c.record \in records'
               /\ c.record.type = "Create" => c.row # 0 /\ \A s \in spanRuns' : s.row # c.row
      PROVE  RowsInv'
  <2>1. \A x, y \in ClaimsIn(c) : x[1] = y[1] /\ x[1] # 0 => x[2] = y[2]
    BY <1>1, <1>3 DEF RowsConn, Becomes
  <2>2. /\ \A x \in ClaimsIn(c) : x \in Claims(r, k)
        /\ rowIds' \in Nat /\ rowIds' >= rowIds
    BY <1>1, <1>3
  <2>3. QED
    BY <1>3, <2>1, <2>2, RowsBecomes
<1>4. ASSUME NEW r \in Runs, NEW k \in DOMAIN conns[r], KeepsSpans(r, k),
             UNCHANGED <<spanRuns, rowIds>>
      PROVE  RowsInv'
  <2>1. PICK c : /\ Becomes(r, k, c)
                 /\ c.created = conns[r][k].created /\ c.record = conns[r][k].record
                 /\ c.row = conns[r][k].row /\ c.todo = conns[r][k].todo
    BY <1>4 DEF KeepsSpans
  <2>2. ClaimsIn(c) = Claims(r, k)
    BY <2>1 DEF Claims, ClaimsIn
  <2>3. "span" \in c.todo =>
          /\ c.record.run = r
          /\ "record" \notin c.todo => c.record \in records'
          /\ c.record.type = "Create" => c.row # 0 /\ \A s \in spanRuns' : s.row # c.row
    BY <1>1, <1>4, <2>1, RecordsStay DEF RowsConn
  <2>4. QED
    BY <1>1, <1>3, <1>4, <2>1, <2>2, <2>3
<1>5. ASSUME NEW r \in Runs, Connect(r)
      PROVE  RowsInv'
  <2>1. PICK c \in Conn : /\ conns' = [conns EXCEPT ![r] = Append(@, c)]
                          /\ c.todo = {} /\ \A x \in DOMAIN c.created : c.created[x] = 0
    BY <1>5, ConnectConn
  <2>2. PICK n : n = Len(conns[r])
    OBVIOUS
  <2>3. /\ DOMAIN conns'[r] = DOMAIN conns[r] \cup {n + 1}
        /\ conns'[r][n + 1] = c /\ \A k \in DOMAIN conns[r] : conns'[r][k] = conns[r][k]
        /\ \A q \in Runs \ {r} : conns'[q] = conns[q]
    BY <2>1, <2>2, ConnAdded
  <2>4. UNCHANGED <<spanRuns, rowIds, records>>
    BY <1>5 DEF Connect
  <2>5. \A x \in ClaimsIn(c) : x[1] = 0
    BY <2>1 DEF ClaimsIn
  <2>6. Claims(r, n + 1)' = ClaimsIn(c)
        /\ \A q \in Runs : \A l \in DOMAIN conns[q] : Claims(q, l)' = Claims(q, l)
    BY <2>3 DEF Claims
  <2>7. ASSUME NEW q \in Runs, NEW l \in DOMAIN conns[q]
        PROVE  RowsConn(q, l)'
    <3>1. conns'[q][l] = conns[q][l] /\ RowsConn(q, l) /\ Claims(q, l)' = Claims(q, l)
      BY <1>1, <2>3, <2>6
    <3>2. QED
      BY <2>4, <3>1 DEF RowsConn
  <2>8. RowsConn(r, n + 1)'
    <3>1. 0 \in 0..rowIds
      BY <1>1
    <3>2. QED
      BY <2>1, <2>3, <2>4, <2>5, <2>6, <3>1 DEF RowsConn
  <2>9. ASSUME NEW p \in Runs, NEW q \in Runs, NEW j \in DOMAIN conns'[p],
               NEW l \in DOMAIN conns'[q], <<q, l>> # <<p, j>>,
               NEW x \in Claims(p, j)', NEW y \in Claims(q, l)', x[1] # 0
        PROVE  x[1] # y[1]
    <3>1. CASE <<p, j>> = <<r, n + 1>>
      BY <2>5, <2>6, <2>9, <3>1
    <3>2. CASE <<q, l>> = <<r, n + 1>>
      BY <2>5, <2>6, <2>9, <3>2
    <3>3. CASE <<p, j>> # <<r, n + 1>> /\ <<q, l>> # <<r, n + 1>>
      <4>1. j \in DOMAIN conns[p] /\ l \in DOMAIN conns[q]
        BY <2>3, <3>3
      <4>2. x \in Claims(p, j) /\ y \in Claims(q, l)
        BY <2>6, <4>1
      <4>3. QED
        BY <2>9, <4>1, <4>2 DEF RowsInv
    <3>4. QED
      BY <3>1, <3>2, <3>3
  <2>10. ASSUME NEW q \in Runs, NEW l \in DOMAIN conns'[q]
         PROVE  RowsConn(q, l)'
    BY <2>3, <2>7, <2>8
  <2>11. (\A s \in spanRuns' : s.row \in 1..rowIds') /\ \A s, t \in spanRuns' : s.row = t.row => s = t
    BY <2>4 DEF RowsInv
  <2>12. QED
    BY <2>9, <2>10, <2>11 DEF RowsInv
<1>6. ASSUME NEW r \in Runs, NEW k \in DOMAIN conns[r], Take(r, k)
      PROVE  RowsInv'
  <2>1. PICK c, m : c = conns[r][k] /\ m = Head(c.queue)
    OBVIOUS
  <2>2. /\ c \in Conn /\ m \in RecordRow /\ c.queue \in Seq(RecordRow) /\ c.queue # <<>>
        /\ c.todo = {} /\ UNCHANGED <<spanRuns, records>>
    BY <1>6, <2>1, TakeConn DEF Take
  <2>3. PICK d \in Conn : /\ Becomes(r, k, d) /\ InHandOf(c, m, d)
                          /\ IF m.type = "Create" THEN RowMade(c, m, d) ELSE RowUsed(c, m, d)
    BY <1>6, <2>1, TakeConn
  <2>4. m.run = r
    <3>1. 1 \in DOMAIN c.queue /\ m = c.queue[1]
      BY <2>1, <2>2, EmptySeq
    <3>2. m \in HeldRows(r, k)
      BY <2>1, <3>1 DEF HeldRows, RowsIn
    <3>3. QED
      BY <1>1, <3>2 DEF IndexConn
  <2>5. d.record = m /\ d.todo = {"record", "span"}
    BY <2>3 DEF InHandOf
  <2>6. \A s \in spanRuns : s.row \in 1..rowIds
    BY DEF RowsInv
  <2>7. \A x \in DOMAIN c.created : <<c.created[x], x>> \in Claims(r, k)
    BY <2>1 DEF Claims, ClaimsIn
  <2>8. CASE m.type = "Create"
    <3>1. /\ rowIds' = rowIds + 1 /\ d.row = rowIds + 1
          /\ d.created = [s \in DOMAIN c.created \cup {m.span} |->
                            IF s = m.span THEN rowIds + 1 ELSE c.created[s]]
      BY <2>3, <2>8 DEF RowMade
    <3>2. ASSUME NEW x \in ClaimsIn(d)
          PROVE  x \in Claims(r, k) \/ x = <<rowIds + 1, m.span>>
      <4>1. CASE x = <<d.row, d.record.span>>
        BY <2>5, <3>1, <4>1
      <4>2. CASE \E s \in DOMAIN d.created : x = <<d.created[s], s>>
        <5>1. PICK s \in DOMAIN d.created : x = <<d.created[s], s>>
          BY <4>2
        <5>2. QED
          BY <2>7, <3>1, <5>1
      <4>3. QED
        BY <3>2, <4>1, <4>2 DEF ClaimsIn
    <3>3. \A x \in Claims(r, k) : x[1] \in 0..rowIds
      BY <1>1 DEF RowsConn
    <3>4. rowIds + 1 \in (rowIds + 1)..rowIds' /\ rowIds' \in Nat /\ rowIds' >= rowIds
          /\ rowIds + 1 \notin 0..rowIds /\ rowIds + 1 # 0 /\ rowIds + 1 \notin 1..rowIds
      BY <1>1, <3>1
    <3>5. \A x \in ClaimsIn(d) :
            x \in Claims(r, k) \/ x[1] = 0 \/ x[1] \in (rowIds + 1)..rowIds'
      BY <3>2, <3>4
    <3>6. ASSUME NEW x \in ClaimsIn(d), NEW y \in ClaimsIn(d), x[1] = y[1], x[1] # 0
          PROVE  x[2] = y[2]
      <4>1. CASE x \in Claims(r, k) /\ y \in Claims(r, k)
        BY <1>1, <3>6, <4>1 DEF RowsConn
      <4>2. CASE x = <<rowIds + 1, m.span>>
        <5>1. x[1] = rowIds + 1 /\ x[2] = m.span
          BY <4>2
        <5>2. y \notin Claims(r, k)
          BY <3>3, <3>4, <3>6, <5>1
        <5>3. y = <<rowIds + 1, m.span>>
          BY <3>2, <5>2
        <5>4. QED
          BY <5>1, <5>3
      <4>3. CASE y = <<rowIds + 1, m.span>>
        <5>1. y[1] = rowIds + 1 /\ y[2] = m.span
          BY <4>3
        <5>2. x \notin Claims(r, k)
          BY <3>3, <3>4, <3>6, <5>1
        <5>3. x = <<rowIds + 1, m.span>>
          BY <3>2, <5>2
        <5>4. QED
          BY <5>1, <5>3
      <4>4. QED
        BY <3>2, <4>1, <4>2, <4>3
    <3>7. d.record.run = r /\ "record" \in d.todo /\ d.row # 0 /\ \A s \in spanRuns' : s.row # d.row
      BY <2>2, <2>4, <2>5, <2>6, <3>1, <3>4
    <3>8. /\ \A s \in spanRuns' :
               \E t \in spanRuns : s.row = t.row /\ s.run = t.run /\ s.span = t.span
          /\ \A s, t \in spanRuns' : s.row = t.row => s = t
      BY <1>1, <2>2
    <3>9. QED
      BY <2>3, <3>4, <3>5, <3>6, <3>7, <3>8, RowsBecomes
  <2>9. CASE m.type # "Create"
    <3>1. /\ rowIds' = rowIds
          /\ d.row = IF m.type = "Close" /\ m.span \in DOMAIN c.created THEN c.created[m.span] ELSE 0
          /\ d.created = IF m.type = "Close" THEN [s \in DOMAIN c.created \ {m.span} |-> c.created[s]]
                         ELSE c.created
      BY <2>3, <2>9 DEF RowUsed
    <3>2. ASSUME NEW x \in ClaimsIn(d)
          PROVE  x \in Claims(r, k) \/ x = <<0, m.span>>
      <4>1. CASE x = <<d.row, d.record.span>>
        BY <2>5, <2>7, <3>1, <4>1
      <4>2. CASE \E s \in DOMAIN d.created : x = <<d.created[s], s>>
        <5>1. PICK s \in DOMAIN d.created : x = <<d.created[s], s>>
          BY <4>2
        <5>2. s \in DOMAIN c.created /\ d.created[s] = c.created[s]
          BY <3>1, <5>1
        <5>3. QED
          BY <2>7, <5>1, <5>2
      <4>3. QED
        BY <3>2, <4>1, <4>2 DEF ClaimsIn
    <3>3. \A x \in ClaimsIn(d) : x[1] # 0 => x \in Claims(r, k)
      BY <3>2
    <3>4. \A x, y \in ClaimsIn(d) : x[1] = y[1] /\ x[1] # 0 => x[2] = y[2]
      BY <1>1, <3>3 DEF RowsConn
    <3>5. rowIds' \in Nat /\ rowIds' >= rowIds
      BY <1>1, <3>1
    <3>6. /\ \A s \in spanRuns' :
               \E t \in spanRuns : s.row = t.row /\ s.run = t.run /\ s.span = t.span
          /\ \A s, t \in spanRuns' : s.row = t.row => s = t
      BY <1>1, <2>2
    <3>7. d.record.run = r /\ "record" \in d.todo /\ d.record.type # "Create"
      BY <2>4, <2>5, <2>9
    <3>8. QED
      BY <2>3, <3>3, <3>4, <3>5, <3>6, <3>7, RowsBecomes
  <2>10. QED
    BY <2>8, <2>9
<1>7. ASSUME NEW r \in Runs, NEW k \in DOMAIN conns[r], StoreRecord(r, k)
      PROVE  RowsInv'
  <2>1. PICK c, d : c = conns[r][k] /\ d = Done(r, k, "record")
    OBVIOUS
  <2>2. /\ c \in Conn /\ Becomes(r, k, d) /\ records' = records \cup {c.record}
        /\ UNCHANGED <<spanRuns, rowIds>>
    BY <1>7, <2>1, ConnIs, DoneConn DEF StoreRecord
  <2>3. /\ d.created = c.created /\ d.record = c.record /\ d.row = c.row
        /\ "span" \in d.todo <=> "span" \in c.todo
    BY <2>1, <2>2 DEF Done, Conn
  <2>4. ClaimsIn(d) = Claims(r, k)
    BY <2>1, <2>3 DEF Claims, ClaimsIn
  <2>5. "span" \in d.todo =>
          /\ d.record.run = r /\ d.record \in records'
          /\ d.record.type = "Create" => d.row # 0 /\ \A s \in spanRuns' : s.row # d.row
    BY <1>1, <2>1, <2>2, <2>3 DEF RowsConn
  <2>6. QED
    BY <1>1, <1>3, <2>2, <2>4, <2>5
<1>8. ASSUME NEW r \in Runs, NEW k \in DOMAIN conns[r], RunStatement(r, k)
      PROVE  RowsInv'
  <2>1. PICK c, d : c = conns[r][k] /\ d = Done(r, k, "span")
    OBVIOUS
  <2>2. /\ c \in Conn /\ Becomes(r, k, d) /\ "span" \in c.todo /\ rowIds' = rowIds
    BY <1>8, <2>1, ConnIs, DoneConn DEF RunStatement
  <2>3. /\ d.created = c.created /\ d.record = c.record /\ d.row = c.row
        /\ "span" \notin d.todo
    BY <2>1, <2>2 DEF Done, Conn
  <2>4. ClaimsIn(d) \subseteq Claims(r, k)
    BY <2>1, <2>3 DEF Claims, ClaimsIn
  <2>5. CASE c.record.type = "Create"
    <3>1. PICK new : new = [row |-> c.row, run |-> r, span |-> c.record.span,
                            rec |-> RecordIdOf(c), closed |-> FALSE, marked |-> FALSE]
      OBVIOUS
    <3>2. spanRuns' = spanRuns \cup {new}
      BY <1>8, <2>1, <2>5, <3>1 DEF RunStatement
    <3>3. new.row = c.row /\ new.run = r /\ new.span = c.record.span
      BY <3>1
    <3>4. c.row # 0 /\ (\A s \in spanRuns : s.row # c.row) /\ <<c.row, c.record.span>> \in Claims(r, k)
      BY <1>1, <2>1, <2>2, <2>5 DEF RowsConn, Claims, ClaimsIn
    <3>5. \A s, t \in spanRuns' : s.row = t.row => s = t
      BY <1>1, <3>2, <3>3, <3>4
    <3>6. \A s \in spanRuns' :
            \/ \E t \in spanRuns : s.row = t.row /\ s.run = t.run /\ s.span = t.span
            \/ s.run = r /\ s.row # 0 /\ <<s.row, s.span>> \in Claims(r, k)
      BY <3>2, <3>3, <3>4
    <3>7. \A x, y \in ClaimsIn(d) : x[1] = y[1] /\ x[1] # 0 => x[2] = y[2]
      BY <1>1, <2>4 DEF RowsConn
    <3>8. /\ \A x \in ClaimsIn(d) : x \in Claims(r, k)
          /\ rowIds' \in Nat /\ rowIds' >= rowIds
      BY <1>1, <2>2, <2>4
    <3>9. QED
      BY <2>2, <2>3, <3>5, <3>6, <3>7, <3>8, RowsBecomes
  <2>6. CASE c.record.type = "Close"
    <3>1. spanRuns' = {[s EXCEPT !.closed = @ \/ s.row = c.row] : s \in spanRuns}
      BY <1>8, <2>1, <2>6 DEF RunStatement
    <3>2. ASSUME NEW s \in spanRuns'
          PROVE  \E t \in spanRuns : s = [t EXCEPT !.closed = @ \/ t.row = c.row]
                   /\ s.row = t.row /\ s.run = t.run /\ s.span = t.span
      <4>1. PICK t \in spanRuns : s = [t EXCEPT !.closed = @ \/ t.row = c.row]
        BY <3>1, <3>2
      <4>2. t \in SpanRow
        BY <4>1 DEF Types
      <4>3. s.row = t.row /\ s.run = t.run /\ s.span = t.span
        BY <4>1, <4>2 DEF SpanRow
      <4>4. QED
        BY <4>1, <4>3
    <3>3. \A s \in spanRuns' :
            \E t \in spanRuns : s.row = t.row /\ s.run = t.run /\ s.span = t.span
      BY <3>2
    <3>4. ASSUME NEW s \in spanRuns', NEW t \in spanRuns', s.row = t.row
          PROVE  s = t
      <4>1. PICK x \in spanRuns : s = [x EXCEPT !.closed = @ \/ x.row = c.row] /\ s.row = x.row
        BY <3>2
      <4>2. PICK y \in spanRuns : t = [y EXCEPT !.closed = @ \/ y.row = c.row] /\ t.row = y.row
        BY <3>2
      <4>3. x = y
        BY <1>1, <3>4, <4>1, <4>2
      <4>4. QED
        BY <4>1, <4>2, <4>3
    <3>5. QED
      BY <1>3, <2>2, <2>3, <2>4, <3>3, <3>4
  <2>7. CASE c.record.type \notin {"Create", "Close"}
    <3>1. spanRuns' = spanRuns
      BY <1>8, <2>1, <2>7 DEF RunStatement
    <3>2. QED
      BY <1>1, <1>3, <2>2, <2>3, <2>4, <3>1
  <2>8. QED
    BY <2>5, <2>6, <2>7
<1>9. ASSUME InitMarksSpans
      PROVE  RowsInv'
  <2>1. /\ spanRuns' = {[s EXCEPT !.marked = @ \/ (s.run \in marked /\ ~s.closed)] : s \in spanRuns}
        /\ UNCHANGED <<rowIds, conns, records>>
    BY <1>9 DEF InitMarksSpans, MarkSpans
  <2>2. ASSUME NEW s \in spanRuns'
        PROVE  \E t \in spanRuns :
                 /\ s = [t EXCEPT !.marked = @ \/ (t.run \in marked /\ ~t.closed)]
                 /\ s.row = t.row /\ s.run = t.run /\ s.span = t.span
    <3>1. PICK t \in spanRuns : s = [t EXCEPT !.marked = @ \/ (t.run \in marked /\ ~t.closed)]
      BY <2>1, <2>2
    <3>2. t \in SpanRow
      BY <3>1 DEF Types
    <3>3. s.row = t.row /\ s.run = t.run /\ s.span = t.span
      BY <3>1, <3>2 DEF SpanRow
    <3>4. QED
      BY <3>1, <3>3
  <2>3. \A s \in spanRuns' : \E t \in spanRuns : s.row = t.row /\ s.run = t.run /\ s.span = t.span
    BY <2>2
  <2>4. ASSUME NEW s \in spanRuns', NEW t \in spanRuns', s.row = t.row
        PROVE  s = t
    <3>1. PICK x \in spanRuns : s = [x EXCEPT !.marked = @ \/ (x.run \in marked /\ ~x.closed)]
                                /\ s.row = x.row
      BY <2>2
    <3>2. PICK y \in spanRuns : t = [y EXCEPT !.marked = @ \/ (y.run \in marked /\ ~y.closed)]
                                /\ t.row = y.row
      BY <2>2
    <3>3. x = y
      BY <1>1, <2>4, <3>1, <3>2
    <3>4. QED
      BY <3>1, <3>2, <3>3
  <2>5. ASSUME NEW r \in Runs, NEW k \in DOMAIN conns[r]
        PROVE  RowsConn(r, k)' /\ Claims(r, k)' = Claims(r, k)
    <3>1. Claims(r, k)' = Claims(r, k)
      BY <2>1 DEF Claims
    <3>2. ASSUME NEW s \in spanRuns'
          PROVE  \E t \in spanRuns : s.row = t.row /\ s.run = t.run /\ s.span = t.span
      BY <2>3
    <3>3. RowsConn(r, k)
      BY <1>1
    <3>4. \A x \in Claims(r, k) : x[1] # 0 =>
            \A s \in spanRuns' : s.row = x[1] => s.run = r /\ s.span = x[2]
      BY <3>2, <3>3 DEF RowsConn
    <3>5. \A n : (\A s \in spanRuns : s.row # n) => \A s \in spanRuns' : s.row # n
      BY <3>2
    <3>6. QED
      BY <2>1, <3>1, <3>3, <3>4, <3>5 DEF RowsConn
  <2>6. \A s \in spanRuns' : s.row \in 1..rowIds'
    BY <2>1, <2>3 DEF RowsInv
  <2>7. QED
    BY <2>1, <2>4, <2>5, <2>6 DEF RowsInv
<1>10. ASSUME Crash
       PROVE  RowsInv'
  <2>1. UNCHANGED <<spanRuns, rowIds>> /\ \A q \in Runs : DOMAIN conns'[q] = {}
    BY <1>10 DEF Crash
  <2>2. QED
    BY <2>1 DEF RowsInv
<1>11. QED
  BY <1>2, <1>4, <1>5, <1>6, <1>7, <1>8, <1>9, <1>10, OtherSteps
-----------------------------------------------------------------------------
\* A record that was stored, or that a task has in hand, is one of the two ever
\* after, unless the server crashes.
LEMMA HandStays ==
  ASSUME Types, Order, Next, ~Crash, NEW r \in Runs
  PROVE  records \cup InHand(r) \subseteq (records \cup InHand(r))'
<1>1. records \subseteq records'
  BY RecordsStay
<1>2. ASSUME NEW k \in DOMAIN conns[r], "record" \in conns[r][k].todo,
             k \in DOMAIN conns'[r],
             "record" \in conns'[r][k].todo /\ conns'[r][k].record = conns[r][k].record
      PROVE  conns[r][k].record \in InHand(r)'
  BY <1>2 DEF InHand
<1>3. ASSUME NEW q \in Runs, NEW l, NEW c, Becomes(q, l, c),
             "record" \in conns[q][l].todo =>
               \/ "record" \in c.todo /\ c.record = conns[q][l].record
               \/ conns[q][l].record \in records'
      PROVE  InHand(r) \subseteq (records \cup InHand(r))'
  <2>1. /\ conns'[q][l] = c /\ l \in DOMAIN conns[q]
        /\ \A p \in Runs : /\ DOMAIN conns'[p] = DOMAIN conns[p]
                           /\ \A j \in DOMAIN conns[p] :
                                <<p, j>> # <<q, l>> => conns'[p][j] = conns[p][j]
    BY <1>3, ConnChanged DEF Becomes
  <2>2. SUFFICES ASSUME NEW k \in DOMAIN conns[r], "record" \in conns[r][k].todo
                 PROVE  conns[r][k].record \in (records \cup InHand(r))'
    BY DEF InHand
  <2>3. CASE <<r, k>> = <<q, l>>
    BY <1>2, <1>3, <2>1, <2>2, <2>3
  <2>4. CASE <<r, k>> # <<q, l>>
    BY <1>2, <2>1, <2>2, <2>4
  <2>5. QED
    BY <2>3, <2>4
<1>4. CASE conns' = conns
  BY <1>1, <1>4 DEF InHand
<1>5. ASSUME NEW q \in Runs, Connect(q)
      PROVE  InHand(r) \subseteq InHand(r)'
  <2>1. PICK c \in Conn : conns' = [conns EXCEPT ![q] = Append(@, c)]
    BY <1>5, ConnectConn
  <2>2. /\ DOMAIN conns[q] \subseteq DOMAIN conns'[q]
        /\ \A k \in DOMAIN conns[q] : conns'[q][k] = conns[q][k]
        /\ \A p \in Runs \ {q} : conns'[p] = conns[p]
    BY <2>1, ConnAdded
  <2>3. DOMAIN conns[r] \subseteq DOMAIN conns'[r]
        /\ \A k \in DOMAIN conns[r] : conns'[r][k] = conns[r][k]
    BY <2>2
  <2>4. QED
    BY <2>3 DEF InHand
<1>6. ASSUME NEW q \in Runs, NEW l \in DOMAIN conns[q], KeepsSpans(q, l)
      PROVE  InHand(r) \subseteq (records \cup InHand(r))'
  BY <1>3, <1>6 DEF KeepsSpans
<1>7. ASSUME NEW q \in Runs, NEW l \in DOMAIN conns[q], Take(q, l)
      PROVE  InHand(r) \subseteq (records \cup InHand(r))'
  <2>1. PICK c : Becomes(q, l, c)
    BY <1>7, TakeConn
  <2>2. conns[q][l].todo = {}
    BY <1>7 DEF Take
  <2>3. QED
    BY <1>3, <2>1, <2>2
<1>8. ASSUME NEW q \in Runs, NEW l \in DOMAIN conns[q], StoreRecord(q, l)
      PROVE  InHand(r) \subseteq (records \cup InHand(r))'
  <2>1. Becomes(q, l, Done(q, l, "record")) /\ conns[q][l].record \in records'
    BY <1>8, DoneConn DEF StoreRecord
  <2>2. QED
    BY <1>3, <2>1
<1>9. ASSUME NEW q \in Runs, NEW l \in DOMAIN conns[q], RunStatement(q, l)
      PROVE  InHand(r) \subseteq (records \cup InHand(r))'
  <2>1. PICK d : d = Done(q, l, "span")
    OBVIOUS
  <2>2. Becomes(q, l, d)
    BY <1>9, <2>1, DoneConn DEF RunStatement
  <2>3. d.record = conns[q][l].record /\ ("record" \in d.todo <=> "record" \in conns[q][l].todo)
    BY <2>1, <2>2 DEF Done, Becomes, Conn
  <2>4. QED
    BY <1>3, <2>2, <2>3
<1>10. ASSUME InitMarksSpans
       PROVE  conns' = conns
  BY <1>10 DEF InitMarksSpans
<1>11. InHand(r) \subseteq (records \cup InHand(r))'
  BY <1>4, <1>5, <1>6, <1>7, <1>8, <1>9, <1>10, OtherSteps
<1>12. QED
  BY <1>1, <1>11

\* What the invariant says of a row of a span.
Named(s) == Begun(s) /\ (s.closed => ClosedIn(records \cup InHand(s.run), s))

\* Initially there is no row of a span.
LEMMA NamesInit == Init => NamesInv
<1> SUFFICES ASSUME Init PROVE NamesInv
  OBVIOUS
<1>1. spanRuns = {}
  BY DEF Init
<1>2. QED
  BY <1>1 DEF NamesInv

\* A row that is as another was, has what that had.
LEMMA NamedAs ==
  ASSUME Types, Order, Next, ~Crash, NEW t \in spanRuns, Named(t),
         NEW s, s.run = t.run, s.rec = t.rec, s.span = t.span, s.closed => t.closed
  PROVE  Named(s)'
<1>1. t.run \in Runs
  BY DEF Types, SpanRow
<1>2. PICK before : before = records \cup InHand(t.run)
  OBVIOUS
<1>3. PICK after : after = (records \cup InHand(t.run))'
  OBVIOUS
<1>4. before \subseteq after
  BY <1>1, <1>2, <1>3, HandStays
<1>5. /\ \E m \in before : m.id = t.rec /\ m.type = "Create" /\ m.run = t.run /\ m.span = t.span
      /\ t.closed => \E m \in before : m.type = "Close" /\ m.run = t.run /\ m.span = t.span
  BY <1>2 DEF Named, Begun, ClosedIn
<1>6. /\ \E m \in after : m.id = s.rec /\ m.type = "Create" /\ m.run = s.run /\ m.span = s.span
      /\ s.closed => \E m \in after : m.type = "Close" /\ m.run = s.run /\ m.span = s.span
  BY <1>4, <1>5
<1>7. after = records' \cup InHand(s.run)'
  BY <1>3
<1>8. QED
  BY <1>6, <1>7 DEF Named, Begun, ClosedIn

\* A record in hand has an id that no stored record has.
LEMMA InHandIds ==
  ASSUME IdsInv, NEW r \in Runs, NEW m \in InHand(r), NEW n \in records
  PROVE  m.id # n.id
<1>1. PICK k \in DOMAIN conns[r] : "record" \in conns[r][k].todo /\ m = conns[r][k].record
  BY DEF InHand
<1>2. m.id \in HeldIds(r, k)
  BY <1>1 DEF HeldIds, IdsIn, RowsIn
<1>3. QED
  BY <1>1, <1>2 DEF IdsInv

\* Every step leaves the rows with the records that they go back to.
LEMMA NamesStep ==
  ASSUME Types, Order, IdsInv, IndexInv, RowsInv, NamesInv, Next
  PROVE  NamesInv'
<1>1. \A s \in spanRuns : s \in SpanRow /\ (s.row \notin torn => Named(s))
  BY DEF NamesInv, Named, Types
<1>2. ASSUME ~Crash, torn' = torn,
             \A s \in spanRuns' : s.row \notin torn =>
               \/ Named(s)'
               \/ \E t \in spanRuns : /\ s.row = t.row /\ s.run = t.run /\ s.rec = t.rec
                                      /\ s.span = t.span /\ (s.closed => t.closed)
      PROVE  NamesInv'
  <2>1. ASSUME NEW s \in spanRuns', s.row \notin torn
        PROVE  Named(s)'
    BY <1>1, <1>2, <2>1, NamedAs
  <2>2. QED
    BY <1>2, <2>1 DEF NamesInv, Named
<1>3. ASSUME ~Crash, torn' = torn, spanRuns' = spanRuns
      PROVE  NamesInv'
  BY <1>2, <1>3
<1>4. ASSUME NEW r \in Runs, Connect(r)
      PROVE  torn' = torn /\ spanRuns' = spanRuns
  BY <1>4 DEF Connect, historyVars, dbVars
<1>5. ASSUME NEW r \in Runs, NEW k \in DOMAIN conns[r], Take(r, k) \/ StoreRecord(r, k)
      PROVE  torn' = torn /\ spanRuns' = spanRuns
  BY <1>5 DEF Take, StoreRecord, historyVars, dbVars
<1>6. ASSUME NEW r \in Runs, NEW k \in DOMAIN conns[r], RunStatement(r, k), ~Crash
      PROVE  NamesInv'
  <2>1. PICK c, d : c = conns[r][k] /\ d = Done(r, k, "span")
    OBVIOUS
  <2>2. /\ c \in Conn /\ Becomes(r, k, d) /\ "span" \in c.todo
        /\ UNCHANGED <<torn, records>>
    BY <1>6, <2>1, ConnIs, DoneConn DEF RunStatement, historyVars
  <2>3. d.record = c.record /\ ("record" \in d.todo <=> "record" \in c.todo)
    BY <2>1, <2>2 DEF Done, Conn
  <2>4. c.record \in records' \cup InHand(r)' /\ c.record.run = r
    <3>1. RowsConn(r, k)
      BY DEF RowsInv
    <3>2. c.record.run = r /\ ("record" \notin c.todo => c.record \in records)
      BY <2>1, <2>2, <3>1 DEF RowsConn
    <3>3. conns'[r][k] = d /\ k \in DOMAIN conns'[r]
      BY <2>2, ConnChanged DEF Becomes
    <3>4. "record" \in c.todo => c.record \in InHand(r)'
      BY <2>3, <3>3 DEF InHand
    <3>5. QED
      BY <2>2, <3>2, <3>4
  <2>5. CASE c.record.type = "Create"
    <3>1. PICK new : new = [row |-> c.row, run |-> r, span |-> c.record.span,
                            rec |-> RecordIdOf(c), closed |-> FALSE, marked |-> FALSE]
      OBVIOUS
    <3>2. spanRuns' = spanRuns \cup {new}
      BY <1>6, <2>1, <2>5, <3>1 DEF RunStatement
    <3>3. new.run = r /\ new.span = c.record.span /\ new.rec = c.record.id /\ ~new.closed
      BY <3>1 DEF RecordIdOf
    <3>4. Named(new)'
      BY <2>4, <2>5, <3>3 DEF Named, Begun
    <3>5. QED
      BY <1>2, <1>6, <2>2, <3>2, <3>4
  <2>6. CASE c.record.type = "Close"
    <3>1. spanRuns' = {[s EXCEPT !.closed = @ \/ s.row = c.row] : s \in spanRuns}
      BY <1>6, <2>1, <2>6 DEF RunStatement
    <3>2. ASSUME NEW s \in spanRuns', s.row \notin torn
          PROVE  \/ Named(s)'
                 \/ \E t \in spanRuns : /\ s.row = t.row /\ s.run = t.run /\ s.rec = t.rec
                                        /\ s.span = t.span /\ (s.closed => t.closed)
      <4>1. PICK t \in spanRuns : s = [t EXCEPT !.closed = @ \/ t.row = c.row]
        BY <3>1, <3>2
      <4>2. t \in SpanRow
        BY <1>1, <4>1
      <4>3. /\ s.row = t.row /\ s.run = t.run /\ s.rec = t.rec /\ s.span = t.span
            /\ s.closed <=> t.closed \/ t.row = c.row
        BY <4>1, <4>2 DEF SpanRow
      <4>4. CASE t.row # c.row
        BY <4>1, <4>3, <4>4
      <4>5. CASE t.row = c.row
        <5>1. t.row # 0 /\ <<c.row, c.record.span>> \in Claims(r, k) /\ RowsConn(r, k)
          <6>1. t.row \in 1..rowIds /\ rowIds \in Nat
            BY <4>1 DEF RowsInv, Types
          <6>2. QED
            BY <2>1, <2>2, <6>1 DEF RowsInv, Claims, ClaimsIn
        <5>2. t.run = r /\ t.span = c.record.span
          <6>1. PICK x \in Claims(r, k) : x = <<c.row, c.record.span>>
            BY <5>1
          <6>2. x[1] = t.row /\ x[1] # 0 /\ x[2] = c.record.span
            BY <4>5, <5>1, <6>1
          <6>3. \A y \in Claims(r, k) : y[1] # 0 =>
                  \A u \in spanRuns : u.row = y[1] => u.run = r /\ u.span = y[2]
            BY <5>1 DEF RowsConn
          <6>4. QED
            BY <4>1, <6>1, <6>2, <6>3
        <5>3. PICK u : u = [t EXCEPT !.closed = FALSE]
          OBVIOUS
        <5>4. Named(t)
          BY <1>1, <3>2, <4>1, <4>3
        <5>5. u.run = t.run /\ u.rec = t.rec /\ u.span = t.span /\ ~u.closed
          BY <4>2, <5>3 DEF SpanRow
        <5>6. Named(u)'
          BY <1>6, <4>1, <5>4, <5>5, NamedAs
        <5>7. Begun(s)'
          BY <4>3, <5>5, <5>6 DEF Named, Begun
        <5>8. ClosedIn(records \cup InHand(s.run), s)'
          BY <2>4, <2>6, <4>3, <5>2 DEF ClosedIn
        <5>9. QED
          BY <5>7, <5>8 DEF Named
      <4>6. QED
        BY <4>4, <4>5
    <3>3. QED
      BY <1>2, <1>6, <2>2, <3>2
  <2>7. CASE c.record.type \notin {"Create", "Close"}
    <3>1. spanRuns' = spanRuns
      BY <1>6, <2>1, <2>7 DEF RunStatement
    <3>2. QED
      BY <1>3, <1>6, <2>2, <3>1
  <2>8. QED
    BY <2>5, <2>6, <2>7
<1>7. ASSUME InitMarksSpans, ~Crash
      PROVE  NamesInv'
  <2>1. /\ spanRuns' = {[s EXCEPT !.marked = @ \/ (s.run \in marked /\ ~s.closed)] : s \in spanRuns}
        /\ torn' = torn
    BY <1>7 DEF InitMarksSpans, MarkSpans, historyVars
  <2>2. ASSUME NEW s \in spanRuns'
        PROVE  \E t \in spanRuns : /\ s.row = t.row /\ s.run = t.run /\ s.rec = t.rec
                                   /\ s.span = t.span /\ (s.closed => t.closed)
    <3>1. PICK t \in spanRuns : s = [t EXCEPT !.marked = @ \/ (t.run \in marked /\ ~t.closed)]
      BY <2>1, <2>2
    <3>2. t \in SpanRow
      BY <1>1, <3>1
    <3>3. /\ s.row = t.row /\ s.run = t.run /\ s.rec = t.rec /\ s.span = t.span
          /\ s.closed <=> t.closed
      BY <3>1, <3>2 DEF SpanRow
    <3>4. QED
      BY <3>1, <3>3
  <2>3. QED
    BY <1>2, <1>7, <2>1, <2>2
<1>8. ASSUME Crash
      PROVE  NamesInv'
  <2>1. /\ UNCHANGED <<spanRuns, records>>
        /\ torn' = torn \cup {s.row : s \in {s \in spanRuns :
                                ~Stored(s.rec) \/ s.closed # ClosedIn(records, s)}}
    BY <1>8 DEF Crash, dbVars
  <2>2. ASSUME NEW s \in spanRuns, s.row \notin torn'
        PROVE  Begun(s)' /\ (s.closed => ClosedIn(records', s))
    <3>1. /\ s.row \notin torn /\ Stored(s.rec) /\ s.closed = ClosedIn(records, s)
      BY <2>1, <2>2
    <3>2. Named(s) /\ s.run \in Runs
      BY <1>1, <3>1 DEF SpanRow
    <3>3. PICK n \in records : n.id = s.rec
      BY <3>1 DEF Stored
    <3>4. PICK m \in records \cup InHand(s.run) :
            m.id = s.rec /\ m.type = "Create" /\ m.run = s.run /\ m.span = s.span
      BY <3>2 DEF Named, Begun
    <3>5. m \in records
      BY <3>2, <3>3, <3>4, InHandIds
    <3>6. QED
      BY <2>1, <3>1, <3>4, <3>5 DEF Begun, ClosedIn
  <2>3. ASSUME NEW s \in spanRuns', s.row \notin torn'
        PROVE  Named(s)'
    <3>1. s \in spanRuns
      BY <2>1
    <3>2. QED
      BY <2>2, <2>3, <3>1 DEF Named, ClosedIn
  <2>4. QED
    BY <2>3 DEF NamesInv, Named
<1>9. QED
  BY <1>3, <1>4, <1>5, <1>6, <1>7, <1>8, OtherSteps
-----------------------------------------------------------------------------
\* The inductive invariant.
IInv ==
  Types /\ Order /\ IdsInv /\ IndexInv /\ OnceInv /\ RowsInv /\ NamesInv /\ MarksInv /\ DefsInv

\* A step that changes nothing.
LEMMA Stutter ==
  ASSUME IInv, UNCHANGED vars
  PROVE  IInv'
<1> USE DEF clientVars, dbVars, initVars, historyVars, vars
<1>1. \A r : RowsOf(r)' = RowsOf(r) /\ App(r)' = App(r) /\ InHand(r)' = InHand(r)
  BY DEF RowsOf, App, SelfRuns, InHand
<1>2. \A r, k : /\ HeldRows(r, k)' = HeldRows(r, k) /\ Waits(r, k)' = Waits(r, k)
                /\ HeldIds(r, k)' = HeldIds(r, k) /\ Claims(r, k)' = Claims(r, k)
                /\ Passed(r, k)' = Passed(r, k)
  BY DEF HeldRows, HeldIds, Waits, Claims, Passed
<1>3. \A a : Look(a)' = Look(a) /\ Cross(a)' = Cross(a)
  BY <1>1 DEF Look, Cross
<1>4. Types'
  BY <1>1 DEF IInv, Types
<1>5. Order'
  BY <1>1, <1>2 DEF IInv, Order, RunOrder, ConnOrder, Latest
<1>6. IdsInv'
  BY <1>1, <1>2 DEF IInv, IdsInv
<1>7. IndexInv'
  <2>1. \A r : Unknown(r)' = Unknown(r)
    BY <1>2 DEF Unknown
  <2>2. \A r, k : IndexConn(r, k)' = IndexConn(r, k)
    BY <1>1, <1>2, <2>1 DEF IndexConn
  <2>3. QED
    BY <1>1, <2>1, <2>2 DEF IInv, IndexInv, IndexRun
<1>8. OnceInv'
  <2>1. \A r, k : OnceConn(r, k)' = OnceConn(r, k)
    BY <1>1, <1>2 DEF OnceConn
  <2>2. QED
    BY <1>1, <2>1 DEF IInv, OnceInv, OnceRun
<1>9. RowsInv'
  <2>1. \A r, k : RowsConn(r, k)' = RowsConn(r, k)
    BY <1>2 DEF RowsConn
  <2>2. QED
    BY <1>2, <2>1 DEF IInv, RowsInv
<1>10. NamesInv'
  BY <1>1 DEF IInv, NamesInv, Begun, ClosedIn
<1>11. MarksInv'
  BY <1>2 DEF IInv, MarksInv, MarksConn
<1>12. DefsInv'
  BY <1>1, <1>3 DEF IInv, DefsInv
<1>13. QED
  BY <1>4, <1>5, <1>6, <1>7, <1>8, <1>9, <1>10, <1>11, <1>12 DEF IInv

\* Whatever connections break and however often the server crashes, in any number
\* of runs, the invariant holds.
THEOREM Invariance == Spec => []IInv
<1>1. Init => IInv
  BY TypesInit, OrderInit, IdsInit, IndexInit, OnceInit, RowsInit, NamesInit, MarksInit, DefsInit
     DEF IInv
<1>2. IInv /\ [Next]_vars => IInv'
  <2> SUFFICES ASSUME IInv, [Next]_vars
               PROVE  IInv'
    OBVIOUS
  <2>1. CASE Next
    <3>1. Types /\ Order /\ IdsInv /\ IndexInv /\ OnceInv /\ RowsInv /\ NamesInv /\ MarksInv /\ DefsInv
      BY DEF IInv
    <3>2. Types' /\ Order'
      BY <2>1, <3>1, TypesStep, OrderStep
    <3>3. IdsInv' /\ IndexInv' /\ OnceInv'
      BY <2>1, <3>1, <3>2, IdsStep, IndexStep, OnceStep
    <3>4. RowsInv' /\ NamesInv' /\ MarksInv' /\ DefsInv'
      BY <2>1, <3>1, RowsStep, NamesStep, MarksStep, DefsStep
    <3>5. QED
      BY <3>2, <3>3, <3>4 DEF IInv
  <2>2. CASE UNCHANGED vars
    BY <2>2, Stutter
  <2>3. QED
    BY <2>1, <2>2
<1>3. QED
  BY <1>1, <1>2, PTL DEF Spec

\* The variables keep to their types: an id in use is below the generator's, and
\* an id in a cache is that of a row.
THEOREM TypeCorrect == Spec => []TypeOK
<1>1. IInv => TypeOK
  <2> SUFFICES ASSUME IInv
               PROVE  TypeOK
    OBVIOUS
  <2>1. Types /\ IdsInv /\ IndexInv /\ RowsInv /\ DefsInv
    BY DEF IInv
  <2>2. \A m \in records : m.id \in 1..(nextId - 1) /\ m.run \in Runs /\ m.idx >= -1
    BY <2>1 DEF IdsInv, IndexInv
  <2>3. \A s \in spanRuns : s.row \in 1..rowIds /\ s.run \in Runs
    BY <2>1 DEF RowsInv, Types, SpanRow
  <2>4. \A r \in Runs : cached[r] \in 0..defs[App(r)]
    <3>1. \A r \in Runs : /\ cached[r] \in Nat /\ cached[r] <= defs[App(r)]
                          /\ App(r) \in Applications
      BY <2>1 DEF Types, DefsInv, App, Applications
    <3>2. \A a \in Applications : defs[a] \in Nat
      BY <2>1 DEF Types
    <3>3. QED
      BY <3>1, <3>2
  <2>5. ASSUME NEW r \in Runs, NEW k \in DOMAIN conns[r]
        PROVE  LET c == conns[r][k] IN
               /\ c.phase \in {"new", "open", "ended", "dropped"}
               /\ c.task \in {"none", "running", "rejected"}
               /\ c.todo \subseteq {"record", "span"}
               /\ c.start \in 1..(nextId - 1)
               /\ \A i \in DOMAIN c.queue : c.queue[i].id \in 1..(nextId - 1)
               /\ \A s \in DOMAIN c.created : c.created[s] \in 0..rowIds
    <3>1. conns[r][k] \in Conn
      BY <2>1, ConnIs
    <3>2. \A i \in DOMAIN conns[r][k].queue : conns[r][k].queue[i].id \in HeldIds(r, k)
      BY DEF HeldIds, IdsIn, RowsIn
    <3>3. /\ conns[r][k].start \in 1..(nextId - 1)
          /\ \A i \in HeldIds(r, k) : i \in 1..(nextId - 1)
      BY <2>1 DEF IdsInv
    <3>4. \A s \in DOMAIN conns[r][k].created : conns[r][k].created[s] \in 0..rowIds
      <4>1. SUFFICES ASSUME NEW s \in DOMAIN conns[r][k].created
                     PROVE  conns[r][k].created[s] \in 0..rowIds
        OBVIOUS
      <4>2. PICK x \in Claims(r, k) : x = <<conns[r][k].created[s], s>>
        BY DEF Claims, ClaimsIn
      <4>3. x[1] \in 0..rowIds
        BY <2>1, <4>2 DEF RowsInv, RowsConn
      <4>4. QED
        BY <4>2, <4>3
    <3>5. QED
      BY <3>1, <3>2, <3>3, <3>4 DEF Conn
  <2>6. \A s, t \in spanRuns : s.row = t.row => s = t
    BY <2>1 DEF RowsInv
  <2>7. /\ alive \in [Runs -> BOOLEAN] /\ link \in [Runs -> {"down", "waiting", "up"}]
        /\ next \in [Runs -> Nat]
        /\ appRun \in [Runs -> {"none", "open", "stopped", "exception"}]
        /\ looking \subseteq Runs
        /\ init \in {"spawned", "own", "sleeping", "marking", "done"}
        /\ toMark \subseteq marked /\ marked \subseteq found /\ found \subseteq Runs
    BY <2>1 DEF Types
  <2>8. QED
    BY <2>2, <2>3, <2>4, <2>5, <2>6, <2>7 DEF TypeOK
<1>2. QED
  BY <1>1, Invariance, PTL

\* No two stored records have one id, also when a crash has let ids be handed out
\* twice; and the id of a row is greater than its index.
THEOREM RecordIdsHold == Spec => []RecordIds
<1>1. IInv => RecordIds
  BY DEF IInv, IdsInv, IndexInv, RecordIds
<1>2. QED
  BY <1>1, Invariance, PTL

\* Only a run that was replied to while an older task of it held records has a
\* record twice in the database.
THEOREM StoredOnceHolds == Spec => []StoredOnce
<1>1. IInv => StoredOnce
  <2> SUFFICES ASSUME IInv, NEW m \in records, NEW n \in records,
                      m.run = n.run, m.idx = n.idx, m.idx > 0, m # n
               PROVE  m.run \in behind
    BY DEF StoredOnce
  <2>1. m.run \in Runs /\ m \in RowsOf(m.run) /\ n \in RowsOf(m.run)
    BY DEF IInv, IndexInv, RowsOf
  <2>2. QED
    BY <2>1 DEF IInv, OnceInv, OnceRun
<1>2. QED
  BY <1>1, Invariance, PTL

\* The row of a span names the record of its creation, and has an end only by the
\* record of its close, except for a row whose record a crash has lost.
THEOREM RowNamesItsRecordHolds == Spec => []RowNamesItsRecord
<1>1. IInv => RowNamesItsRecord
  <2> SUFFICES ASSUME IInv, NEW s \in spanRuns, s.row \notin torn
               PROVE  /\ \A m \in records : m.id = s.rec =>
                           m.type = "Create" /\ m.run = s.run /\ m.span = s.span
                      /\ s.closed => ClosedIn(records \cup InHand(s.run), s)
    BY DEF RowNamesItsRecord
  <2>1. Named(s) /\ s.run \in Runs /\ IdsInv
    BY DEF IInv, NamesInv, Named, Types, SpanRow
  <2>2. PICK n \in records \cup InHand(s.run) :
          n.id = s.rec /\ n.type = "Create" /\ n.run = s.run /\ n.span = s.span
    BY <2>1 DEF Named, Begun
  <2>3. ASSUME NEW m \in records, m.id = s.rec
        PROVE  m.type = "Create" /\ m.run = s.run /\ m.span = s.span
    <3>1. n \in records
      BY <2>1, <2>2, <2>3, InHandIds
    <3>2. m = n
      BY <2>1, <2>2, <2>3, <3>1 DEF IdsInv
    <3>3. QED
      BY <2>2, <3>2
  <2>4. QED
    BY <2>1, <2>3 DEF Named
<1>2. QED
  BY <1>1, Invariance, PTL

\* A run that stops in good order is not marked as ended by exception, unless it
\* stops between the look that found it open and the mark.
THEOREM GoodStopStandsHolds == Spec => []GoodStopStands
<1>1. IInv => GoodStopStands
  <2> SUFFICES ASSUME IInv, NEW r \in Runs \ raced, NEW k \in DOMAIN conns[r],
                      conns[r][k].normal, conns[r][k].task = "running",
                      registry[r].conn > k \/ registry[r] = [conn |-> k, at |-> "task"]
               PROVE  appRun[r] = "stopped"
    BY DEF GoodStopStands
  <2>1. Passed(r, k)
    BY DEF Passed
  <2>2. QED
    BY <2>1 DEF IInv, MarksInv, MarksConn
<1>2. QED
  BY <1>1, Invariance, PTL

\* The key of a span has more than one definition only when look-ups have crossed,
\* and one more for each that did.
THEOREM DefinitionOnceHolds == Spec => []DefinitionOnce
<1>1. IInv => DefinitionOnce
  <2> SUFFICES ASSUME IInv, NEW a \in Applications
               PROVE  defs[a] <= 1 + Cardinality(Cross(a))
    BY DEF DefinitionOnce, Cross
  <2>1. defs[a] + Cardinality(Look(a)) <= 1 + Cardinality(Cross(a))
    BY DEF IInv, DefsInv
  <2>2. Look(a) \in SUBSET looking /\ Cross(a) \in SUBSET crossed
        /\ IsFiniteSet(looking) /\ IsFiniteSet(crossed)
    BY DEF Look, Cross, IInv, DefsInv
  <2>3. Cardinality(Look(a)) \in Nat /\ Cardinality(Cross(a)) \in Nat
    BY <2>2, FS_Subset, FS_CardinalityType
  <2>4. defs[a] \in Nat
    BY DEF IInv, Types
  <2>5. QED
    BY <2>1, <2>3, <2>4
<1>2. QED
  BY <1>1, Invariance, PTL
=============================================================================
