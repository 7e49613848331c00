----------------------------- MODULE RecordView -----------------------------
(***************************************************************************)
(* A page that shows the records of a run while it runs: what it lists     *)
(* from the database, the subscription that follows the listing, and what  *)
(* it makes of the two (records_subscribe and node_page_subscribe of       *)
(* web_service.rs, list_tree_records of tracing_service.rs, the registry's *)
(* notifications in running_app.rs, and useRecordsTreeLive of              *)
(* web/src/lib/use_records_live.ts).                                       *)
(*                                                                         *)
(* Beside the run, other applications start, which the registry tells all  *)
(* subscribers before it handles its next message: the view's stream,      *)
(* which has no bound, and the node page's, which has one.                 *)
(*                                                                         *)
(* A record is its id, its place in the order in which the server numbers  *)
(* the records; its time was taken before, in the application, and with    *)
(* several threads need not be in that order.  The run's task is that of   *)
(* RunPipeline without time,                                               *)
(* failures and the end; a batch is inserted in one statement and the rows *)
(* of spans updated in another.  The view keeps one filter, its run does   *)
(* not end, and its event stream does not break.                           *)
(***************************************************************************)
EXTENDS RecordFilter, Sequences

CONSTANTS
  Cases,     \* what may happen: [filter, script, starts]: the view's filter, what
             \* its run records, and how many other applications start
  Start,     \* the record of the AppStart of another application
  Count,     \* options.count: a window is twice as long
  PageCap    \* capacity of the channel to the node page

\* recordsRequest: a page of a run asks for the children of one span, or of none;
\* for all records, a tree of them, or a list of one kind.  The lists of builds and
\* nodes that may be chosen too are left out: events heed them, and listings of a
\* run do not (RecordFilter).
IsPageFilter(f) ==
  /\ f = [Default EXCEPT !.scene = f.scene, !.kinds = f.kinds, !.levels = f.levels,
                         !.search = f.search, !.app_run_ids = f.app_run_ids,
                         !.parent_span_t_ids = f.parent_span_t_ids]
  /\ \E run \in UNION f.app_run_ids : f.app_run_ids = {{run}}
  /\ \E parent \in UNION f.parent_span_t_ids : f.parent_span_t_ids = {{parent}}
  /\ \/ f.scene \in {{}, {"Tree"}} /\ f.kinds \subseteq {{}}
     \/ f.scene = {"SpanEnter"} /\ f.kinds = {{"SpanEnter", "SpanLeave"}}
     \/ f.scene = {"SpanField"} /\ f.kinds = {{"SpanRecord"}}

\* What the run's task is sent: an AppStart goes to the registry.  Spans and events
\* have a level, and the id of a span is not 0.
IsRunRecord(m) ==
  /\ m.kind \in Kinds \ {"AppStart"} /\ m.time \in Int
  /\ \A p \in m.parent_span_t_id : p # Nil /\ m.parent_span_t_id = {p}
  /\ m.kind # "AppStop" => \E l \in m.level : m.level = {l}

\* A close comes after its span, and has what the span has.
ClosesSpan(script, i, j) ==
  /\ i < j
  /\ script[i].run = script[j].run /\ script[i].level = script[j].level
  /\ script[i].parent_span_t_id = script[j].parent_span_t_id

ASSUME CountAssumption == Count \in Nat \ {0} /\ PageCap \in Nat \ {0}

ASSUME CasesAssumption ==
  \A c \in Cases :
    /\ c.starts \in Nat
    /\ IsPageFilter(c.filter)
    /\ c.script \in Seq({c.script[i] : i \in DOMAIN c.script})
    /\ \A i \in DOMAIN c.script : IsRunRecord(c.script[i])
    /\ \A i, j \in DOMAIN c.script :
         /\ c.script[i].kind = "SpanCreate" /\ c.script[j].kind = "SpanClose"
         /\ c.script[i].span_t_id = c.script[j].span_t_id
         => ClosesSpan(c.script, i, j)

\* The other application is not of the run that the view shows.
ASSUME StartAssumption ==
  Start.kind = "AppStart" /\ \A c \in Cases : Start.run \notin UNION c.filter.app_run_ids

VARIABLES
  case,      \* what happens in this behaviour
  log,       \* log[i]: the record with id i
  \* the run's task
  channel,   \* its channel: ids, and Watch for AddRecordWatcher
  filling,   \* buf_records_1: the ids in it
  joining,   \* the view's sender waits for the swap
  batch,     \* buf_records_2: the ids that are being stored and told
  did,       \* what of it is done: "insert", "update"
  told,      \* how many of the batch the watchers were told
  watched,   \* the task's event service has the view's sender
  \* the database
  stored,    \* ids of the rows of tracing_record
  closed,    \* the spans whose row has an end
  \* the registry
  registry,  \* its channel: ids of an AppStart, and Watch
  telling,   \* whom it tells of an AppStart: "no", "page" or "view"
  regWatch,  \* its event service has the view's sender
  page,      \* how many events wait for the node page
  pageOpen,  \* the node page is open
  \* the view
  request,   \* the listing under way: [type, at, cursor, rows]
  source,    \* the event source: [at, cursor, rows]
  stream,    \* its events on their way to the view: rows [id, ended]
  shown,     \* the store's records: rows [id, ended]
  isEnd,     \* is_end: the last record shown is the last there is
  noOlder,   \* notMoreOlderData
  \* history
  seen,      \* the records that the view's first listing took into account
  heard,     \* the records whose event has reached the view
  dropped,   \* of these, those that came while more were on their way
  shifted,   \* those that left the window while older ones were on their way
  early,     \* those that a listing brought before their event
  lost,      \* those that a race has kept from the view
  stray      \* the view was given an AppStart

taskVars == <<channel, filling, joining, batch, did, told, watched>>
dbVars == <<stored, closed>>
registryVars == <<registry, telling, regWatch, page, pageOpen>>
storeVars == <<shown, isEnd, noOlder>>
missVars == <<seen, heard, dropped, shifted, early, lost, stray>>
viewVars == <<request, source, stream, storeVars, missVars>>
vars == <<case, log, taskVars, dbVars, registryVars, viewVars>>

filter == case.filter
Sent == {i \in DOMAIN log : log[i] # Start}
IdsOf(rows) == {rows[k].id : k \in DOMAIN rows}
Row(i) == [id |-> i, ended |-> FALSE]

\* AddRecordWatcher, in a channel of ids.
Watch == 0

NoRequest == [type |-> "none", at |-> "no", cursor |-> 0, rows |-> <<>>]

Init ==
  /\ case \in Cases
  /\ log = <<>>
  /\ channel = <<>> /\ filling = <<>> /\ joining = FALSE
  /\ batch = <<>> /\ did = {} /\ told = 0 /\ watched = FALSE
  /\ stored = {} /\ closed = {}
  /\ registry = <<>> /\ telling = "no" /\ regWatch = FALSE
  /\ page = 0 /\ pageOpen = TRUE
  /\ request = [NoRequest EXCEPT !.type = "first", !.at = "list"]
  /\ source = [at |-> "no", cursor |-> 0, rows |-> <<>>]
  /\ stream = <<>>
  /\ shown = <<>> /\ isEnd = TRUE /\ noOlder = FALSE
  /\ seen = {} /\ heard = {} /\ dropped = {} /\ shifted = {} /\ early = {} /\ lost = {}
  /\ stray = FALSE

-----------------------------------------------------------------------------
(* The run and its task, as far as RunPipeline promises it.                *)

RunRecords ==
  /\ Cardinality(Sent) < Len(case.script)
  /\ log' = Append(log, case.script[Cardinality(Sent) + 1])
  /\ channel' = Append(channel, Len(log'))
  /\ UNCHANGED <<case, filling, joining, batch, did, told, watched, dbVars, registryVars, viewVars>>

Receive ==
  /\ channel # <<>>
  /\ channel' = Tail(channel)
  /\ IF Head(channel) = Watch
     THEN joining' = TRUE /\ UNCHANGED filling
     ELSE filling' = Append(filling, Head(channel)) /\ UNCHANGED joining
  /\ UNCHANGED <<case, log, batch, did, told, watched, dbVars, registryVars, viewVars>>

BatchDone == batch = <<>> \/ (did = {"insert", "update"} /\ told = Len(batch))

\* What was stored between the view's listings and the moment its sender is let in.
MissedBefore == (stored \cap Sent) \ (seen \cup IdsOf(source.rows))

\* Mutant: the task waits for a record.
RecordWaits == filling # <<>>

\* The turn of the loop ends for a batch of records, or for a watcher.
TurnEnds == filling # <<>> \/ joining

\* The buffers are swapped, and new watchers are told from this batch on.
Swap ==
  /\ BatchDone
  /\ TurnEnds
  /\ batch' = filling
  /\ filling' = <<>>
  /\ did' = {} /\ told' = 0
  /\ joining' = FALSE
  /\ watched' = (watched \/ joining)
  /\ lost' = IF joining THEN lost \cup MissedBefore ELSE lost
  /\ UNCHANGED <<case, log, channel, dbVars, registryVars, request, source, stream, storeVars,
                 seen, heard, dropped, shifted, early, stray>>

InsertRows ==
  /\ batch # <<>> /\ "insert" \notin did
  /\ did' = did \cup {"insert"}
  /\ stored' = stored \cup {batch[k] : k \in DOMAIN batch}
  /\ UNCHANGED <<case, log, channel, filling, joining, batch, told, watched, closed, registryVars,
                 viewVars>>

Closes(i) == log[i].kind = "SpanClose"

\* The statements on the rows of spans.
UpdateSpans ==
  /\ batch # <<>> /\ "update" \notin did
  /\ did' = did \cup {"update"}
  /\ closed' = closed \cup UNION {log[batch[k]].span_t_id : k \in {k \in DOMAIN batch : Closes(batch[k])}}
  /\ UNCHANGED <<case, log, channel, filling, joining, batch, told, watched, stored, registryVars,
                 viewVars>>

\* EventService::notify.
Notify ==
  /\ told < Len(batch)
  /\ told' = told + 1
  /\ stream' = IF watched /\ LiveSelects(filter, log[batch[told + 1]])
               THEN Append(stream, Row(batch[told + 1])) ELSE stream
  /\ UNCHANGED <<case, log, channel, filling, joining, batch, did, watched, dbVars, registryVars,
                 request, source, storeVars, missVars>>

Task == Receive \/ Swap \/ InsertRows \/ UpdateSpans \/ Notify

-----------------------------------------------------------------------------
(* The registry: it treats one message after the other.                    *)

OtherStarts ==
  /\ Len(log) - Cardinality(Sent) < case.starts
  /\ log' = Append(log, Start)
  /\ registry' = Append(registry, Len(log'))
  /\ UNCHANGED <<case, taskVars, dbVars, telling, regWatch, page, pageOpen, viewVars>>

\* AppRun: the record is stored, then the subscribers are told, in the order in
\* which they came: the node page was open before the view.
HandleAppRun ==
  /\ registry # <<>> /\ Head(registry) # Watch /\ telling = "no"
  /\ stored' = stored \cup {Head(registry)}
  /\ telling' = "page"
  /\ UNCHANGED <<case, log, taskVars, closed, registry, regWatch, page, pageOpen, viewVars>>

\* The page's sender is awaited.
TellPage ==
  /\ telling = "page"
  /\ ~pageOpen \/ page < PageCap
  /\ page' = IF pageOpen THEN page + 1 ELSE page
  /\ telling' = "view"
  /\ UNCHANGED <<case, log, taskVars, dbVars, registry, regWatch, pageOpen, viewVars>>

\* A view's filter is not asked: the registry subscribes it with the default one.
TellView ==
  /\ telling = "view"
  /\ telling' = "no"
  /\ registry' = Tail(registry)
  /\ stream' = IF regWatch THEN Append(stream, Row(Head(registry))) ELSE stream
  /\ UNCHANGED <<case, log, taskVars, dbVars, regWatch, page, pageOpen, request, source, storeVars,
                 missVars>>

\* AddRecordWatcher.
HandleAddRecordWatcher ==
  /\ registry # <<>> /\ Head(registry) = Watch
  /\ registry' = Tail(registry)
  /\ channel' = Append(channel, Watch)
  /\ regWatch' = TRUE
  /\ UNCHANGED <<case, log, filling, joining, batch, did, told, watched, dbVars, telling, page,
                 pageOpen, viewVars>>

Registry == HandleAppRun \/ TellPage \/ TellView \/ HandleAddRecordWatcher

\* The node page takes its next event, or is closed.
PageReads ==
  /\ page > 0
  /\ page' = page - 1
  /\ UNCHANGED <<case, log, taskVars, dbVars, registry, telling, regWatch, pageOpen, viewVars>>

PageLeaves ==
  /\ pageOpen
  /\ pageOpen' = FALSE
  /\ page' = 0
  /\ UNCHANGED <<case, log, taskVars, dbVars, registry, telling, regWatch, viewVars>>

-----------------------------------------------------------------------------
(* The listings of the server.                                             *)

Ascending(S) ==
  CHOOSE seq \in [1..Cardinality(S) -> S] : \A j, k \in DOMAIN seq : j < k => seq[j] < seq[k]
FirstOf(S, n) == {i \in S : Cardinality({j \in S : j < i}) < n}
LastOf(S, n) == {i \in S : Cardinality({j \in S : j > i}) < n}
RowsOf(S) == [k \in DOMAIN Ascending(S) |-> Row(Ascending(S)[k])]

Selected == {i \in stored : SqlSelects(filter, log[i])}

\* Mutant: a page begins with the record of its cursor.
PageFrom(cursor) == FirstOf({i \in Selected : i >= cursor}, Count + 1)

\* list_records, after a cursor or before one: by id.
PageAfter(cursor) == FirstOf({i \in Selected : i > cursor}, Count + 1)
PageBefore(cursor) == LastOf({i \in Selected : i < cursor}, Count + 1)

\* Without a cursor: the last by record_time, those of one time in any order.
LastPages ==
  LET n == IF Cardinality(Selected) <= Count THEN Cardinality(Selected) ELSE Count + 1 IN
  {rows \in [1..n -> {Row(i) : i \in Selected}] :
     /\ \A j, k \in 1..n : j < k => /\ rows[j] # rows[k]
                                    /\ log[rows[j].id].time <= log[rows[k].id].time
     /\ \A i \in Selected \ IdsOf(rows), k \in 1..n : log[i].time <= log[rows[k].id].time}

\* record_item_to_tree_record: what there is of the spans, by now.
LookUp(rows) ==
  [k \in DOMAIN rows |-> [rows[k] EXCEPT !.ended =
     log[rows[k].id].kind = "SpanCreate" /\ log[rows[k].id].span_t_id \subseteq closed]]

\* list_tree_records lists ...
ServeList ==
  /\ request.at = "list"
  /\ \E rows \in CASE request.type = "first" -> LastPages
                   [] request.type = "more" -> {RowsOf(PageAfter(request.cursor))}
                   [] request.type = "older" -> {RowsOf(PageBefore(request.cursor))} :
       request' = [request EXCEPT !.at = "look", !.rows = rows]
  /\ seen' = IF request.type = "first" THEN stored ELSE seen
  /\ lost' = lost \cup IF request.type = "first" THEN {} ELSE heard \ stored
  /\ UNCHANGED <<case, log, taskVars, dbVars, registryVars, source, stream, storeVars, heard,
                 dropped, shifted, early, stray>>

\* ... and looks up.
ServeLookUp ==
  /\ request.at = "look"
  /\ request' = [request EXCEPT !.at = "back", !.rows = LookUp(@)]
  /\ seen' = IF request.type = "first"
             THEN {i \in seen : Closes(i) => log[i].span_t_id \subseteq closed} ELSE seen
  /\ UNCHANGED <<case, log, taskVars, dbVars, registryVars, source, stream, storeVars, heard,
                 dropped, shifted, early, lost, stray>>

\* records_subscribe: the same, and then a message to the registry.
SubscribeList ==
  /\ source.at = "list"
  /\ \E rows \in IF source.rows = <<>> /\ source.cursor = 0
                 THEN LastPages ELSE {RowsOf(PageAfter(source.cursor))} :
       source' = [source EXCEPT !.at = "look", !.rows = rows]
  /\ UNCHANGED <<case, log, taskVars, dbVars, registryVars, request, stream, storeVars, missVars>>

Subscribe ==
  /\ source.at = "look"
  /\ source' = [source EXCEPT !.at = "open", !.rows = LookUp(@)]
  /\ stream' = LookUp(source.rows)
  /\ registry' = Append(registry, Watch)
  /\ UNCHANGED <<case, log, taskVars, dbVars, telling, regWatch, page, pageOpen, request,
                 storeVars, missVars>>

Server == ServeList \/ ServeLookUp \/ SubscribeList \/ Subscribe

-----------------------------------------------------------------------------
(* The view.                                                               *)

Window == 2 * Count

LastRows(rows) == SubSeq(rows, IF Len(rows) > Window THEN Len(rows) - Window + 1 ELSE 1, Len(rows))
FirstRows(rows) == SubSeq(rows, 1, IF Len(rows) > Window THEN Window ELSE Len(rows))

\* Mutant: the button for older records does not come back.
NoneOlderThan(all) == noOlder

\* setNotMoreOlderData(false), when the window leaves older records behind.
NoOlderThan(all) == noOlder /\ Len(all) <= Window

\* Rows that say a span runs whose close was heard before.
StaleCloses(rows) ==
  {c \in heard : Closes(c) /\ \E k \in DOMAIN rows :
     /\ log[rows[k].id].kind = "SpanCreate" /\ ~rows[k].ended
     /\ log[rows[k].id].span_t_id = log[c].span_t_id}

\* The first listing: one more than is shown is asked for, to know if there are
\* older ones; then the event source is opened.
FirstArrives ==
  /\ request.type = "first" /\ request.at = "back"
  /\ LET full == Len(request.rows) = Count + 1
         rows == IF full THEN Tail(request.rows) ELSE request.rows
     IN
     /\ noOlder' = ~full
     /\ shown' = rows
     /\ source' = [source EXCEPT !.at = "list",
                     !.cursor = IF rows = <<>> THEN 0 ELSE rows[Len(rows)].id]
  /\ request' = NoRequest
  /\ UNCHANGED <<case, log, taskVars, dbVars, registryVars, stream, isEnd, missVars>>

\* The buttons are there while no listing is under way.
FetchMore ==
  /\ request = NoRequest /\ ~isEnd /\ shown # <<>>
  /\ request' = [NoRequest EXCEPT !.type = "more", !.at = "list", !.cursor = shown[Len(shown)].id]
  /\ dropped' = {}
  /\ UNCHANGED <<case, log, taskVars, dbVars, registryVars, source, stream, storeVars, seen, heard,
                 shifted, early, lost, stray>>

FetchOlder ==
  /\ request = NoRequest /\ ~noOlder /\ shown # <<>>
  /\ request' = [NoRequest EXCEPT !.type = "older", !.at = "list", !.cursor = shown[1].id]
  /\ shifted' = {}
  /\ UNCHANGED <<case, log, taskVars, dbVars, registryVars, source, stream, storeVars, seen, heard,
                 dropped, early, lost, stray>>

MoreArrives ==
  /\ request.type = "more" /\ request.at = "back"
  /\ LET full == Len(request.rows) = Count + 1
         rows == IF full THEN SubSeq(request.rows, 1, Count) ELSE request.rows
         all == shown \o rows
     IN
     /\ shown' = LastRows(all)
     /\ noOlder' = NoOlderThan(all)
     /\ isEnd' = ~full
     /\ early' = early \cup (IdsOf(rows) \ heard)
     /\ lost' = lost \cup StaleCloses(rows) \cup (IF full THEN {} ELSE dropped \ IdsOf(all))
  /\ request' = NoRequest
  /\ UNCHANGED <<case, log, taskVars, dbVars, registryVars, source, stream, seen, heard, dropped,
                 shifted, stray>>

OlderArrives ==
  /\ request.type = "older" /\ request.at = "back"
  /\ LET full == Len(request.rows) = Count + 1
         rows == IF full THEN Tail(request.rows) ELSE request.rows
         all == rows \o shown
     IN
     /\ shown' = FirstRows(all)
     /\ noOlder' = (noOlder \/ ~full)
     /\ isEnd' = (isEnd /\ Len(all) <= Window)
     /\ early' = early \cup (IdsOf(rows) \ heard)
     /\ lost' = lost \cup StaleCloses(rows) \cup shifted
  /\ request' = NoRequest
  /\ UNCHANGED <<case, log, taskVars, dbVars, registryVars, source, stream, seen, heard, dropped,
                 shifted, stray>>

\* Kinds whose event appends a record; the others change records that are shown.
Appends(i) == log[i].kind \notin {"SpanClose", "AppStop", "RelatedEvent", "SpanRecord"}

\* onmessage: the record is appended if the end is shown, at the cost of the first.
EventAppends(e) ==
  LET all == Append(shown, e) IN
  /\ Appends(e.id)
  /\ IF isEnd
     THEN /\ shown' = LastRows(all)
          /\ noOlder' = NoOlderThan(all)
          /\ shifted' = shifted \cup IdsOf(SubSeq(all, 1, Len(all) - Window))
          /\ stray' = (stray \/ log[e.id] = Start)
          /\ UNCHANGED dropped
     ELSE /\ dropped' = dropped \cup {e.id}
          /\ UNCHANGED <<shown, noOlder, shifted, stray>>

\* onmessage: an end is noted at the span's record, if that is shown.
EventChanges(e) ==
  /\ ~Appends(e.id)
  /\ shown' = [k \in DOMAIN shown |->
       [shown[k] EXCEPT !.ended = @ \/ (/\ Closes(e.id)
                                        /\ log[shown[k].id].kind = "SpanCreate"
                                        /\ log[shown[k].id].span_t_id = log[e.id].span_t_id)]]
  /\ UNCHANGED <<noOlder, dropped, shifted, stray>>

EventArrives ==
  /\ stream # <<>>
  /\ EventAppends(Head(stream)) \/ EventChanges(Head(stream))
  /\ stream' = Tail(stream)
  /\ heard' = heard \cup {Head(stream).id}
  /\ UNCHANGED <<case, log, taskVars, dbVars, registryVars, request, source, isEnd, seen, early,
                 lost>>

View == FirstArrives \/ FetchMore \/ FetchOlder \/ MoreArrives \/ OlderArrives \/ EventArrives

-----------------------------------------------------------------------------

Next == RunRecords \/ Task \/ OtherStarts \/ Registry \/ PageReads \/ PageLeaves \/ Server \/ View

\* The server's tasks run and answer, and answers arrive; nothing is assumed of
\* the applications, the user or the node page.
Spec ==
  /\ Init /\ [][Next]_vars
  /\ WF_vars(Task) /\ WF_vars(Registry) /\ WF_vars(Server) /\ WF_vars(FirstArrives)

-----------------------------------------------------------------------------
(* Properties.                                                             *)

RowType == [id : DOMAIN log, ended : BOOLEAN]

\* Every id that is about somewhere is that of a record; a listing and the window
\* hold no more rows than they are to, and the node page's channel no more events
\* than it can (tracing_service.rs:1136, use_records_live.ts:119, web_service.rs:163).
TypeOK ==
  /\ case \in Cases
  /\ log \in Seq({Start} \cup {case.script[i] : i \in DOMAIN case.script})
  /\ channel \in Seq(DOMAIN log \cup {Watch})
  /\ filling \in Seq(DOMAIN log) /\ batch \in Seq(DOMAIN log)
  /\ joining \in BOOLEAN /\ watched \in BOOLEAN
  /\ did \subseteq {"insert", "update"} /\ told \in 0..Len(batch)
  /\ stored \subseteq DOMAIN log /\ closed \subseteq UNION {log[i].span_t_id : i \in DOMAIN log}
  /\ registry \in Seq(DOMAIN log \cup {Watch})
  /\ telling \in {"no", "page", "view"} /\ (telling # "no" => registry # <<>> /\ Head(registry) # Watch)
  /\ regWatch \in BOOLEAN /\ page \in 0..PageCap /\ pageOpen \in BOOLEAN
  /\ request \in [type : {"none", "first", "more", "older"}, at : {"no", "list", "look", "back"},
                   cursor : {0} \cup DOMAIN log, rows : Seq(RowType)]
  /\ request.type = "none" => request = NoRequest
  /\ Len(request.rows) <= Count + 1
  /\ source \in [at : {"no", "list", "look", "open"}, cursor : {0} \cup DOMAIN log,
                  rows : Seq(RowType)]
  /\ stream \in Seq(RowType)
  /\ shown \in Seq(RowType) /\ Len(shown) <= Window
  /\ isEnd \in BOOLEAN /\ noOlder \in BOOLEAN /\ stray \in BOOLEAN
  /\ UNION {seen, heard, dropped, shifted, early, lost} \subseteq DOMAIN log

\* A record that has an earlier time than one before it, or one that has the same.
OutOfTime(i) ==
  \E j \in Selected : \/ i < j /\ log[i].time >= log[j].time
                      \/ j < i /\ log[j].time >= log[i].time

\* The records that the view is to show came in the order of their times.
InTime == \A i \in Selected : ~OutOfTime(i)

\* The view shows each record once and in order, and only such as its filter
\* selects in the database; except for a record that a listing brought before
\* its event, for two that are not in the order of their times, which the first
\* listing goes by, for what a search would leave out, which events know nothing
\* of and which may come after later records that were listed, and from when on
\* an AppStart was shown, which the registry sends whatever the filter
\* (use_records_live.ts, running_app.rs:411, tracing_service.rs:1156).
ShownOnce ==
  ~stray =>
    /\ \A j, k \in DOMAIN shown : j < k =>
         \/ shown[j].id < shown[k].id
         \/ shown[k].id \in early
         \/ OutOfTime(shown[j].id) /\ OutOfTime(shown[k].id)
         \/ ~SqlSelects(filter, log[shown[k].id])
    /\ \A i \in IdsOf(shown) : \/ SqlSelects(filter, log[i])
                               \/ /\ i \in heard
                                  /\ SqlSelects([filter EXCEPT !.search = {}], log[i])

\* All is stored, told and has arrived.
Quiet ==
  /\ channel = <<>> /\ filling = <<>> /\ ~joining /\ BatchDone /\ watched
  /\ registry = <<>> /\ request = NoRequest /\ source.at = "open" /\ stream = <<>>

\* Within reach of the buttons.
Fetchable(i) ==
  /\ shown # <<>>
  /\ (i < shown[1].id /\ ~noOlder) \/ (i > shown[Len(shown)].id /\ ~isEnd)

\* Once all is quiet the view shows every record that its filter selects, or has
\* a button that leads to it, and shows every span as ended that is.  Except for
\* what six races keep from it: a record stored between the listing and the
\* subscription; an event that came while the last records were on their
\* way, and that they did not have yet; a record that left the window while older
\* ones were on their way; one told before it is stored, when others were listed
\* in between; a close that came before its span was listed; and a record whose
\* time was taken before that of another and which came after it, or the other
\* way round: the first listing goes by the times, the buttons by the ids.
\* And except for the records of fields, which no event appends
\* (web_service.rs:232, use_records_live.ts, tracing_service.rs:1156).
MissedOnlyByRaces ==
  ~stray /\ Quiet =>
    /\ \A i \in Selected \cap Sent :
         Appends(i) => i \in IdsOf(shown) \/ Fetchable(i) \/ i \in lost \/ OutOfTime(i)
    /\ \A c \in stored : Closes(c) =>
         \A k \in DOMAIN shown :
           log[shown[k].id].kind = "SpanCreate" /\ log[shown[k].id].span_t_id = log[c].span_t_id
             => shown[k].ended \/ c \in lost

\* A subscription is let in, unless a node page that stays open is full for ever:
\* one page that does not read holds up the registry, and with it every other
\* subscription and run (web_service.rs:163, event_service.rs:38).
SubscriptionServed ==
  (source.at = "open" ~> watched) \/ <>[](pageOpen /\ page = PageCap)
=============================================================================
