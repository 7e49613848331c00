---------------------------- MODULE RunRecovery ----------------------------
(***************************************************************************)
(* What is left in the database when a connection breaks or the server     *)
(* crashes, and what a run that comes back, or the server that starts      *)
(* again, makes of it: TracingService::init and the look-ups of            *)
(* tracing_service.rs, AppRunLifetime::new and get_running_span of         *)
(* grpc_service.rs, RECORD_ID_GENERATOR of lib.rs.                         *)
(*                                                                         *)
(* A run records the messages of its script one by one; the client keeps   *)
(* them and, when it comes back, goes on after the number the server       *)
(* replies with.  The client is reduced to that (it is ReconnectClient),   *)
(* the registry to the order in which it treats the connections of one run *)
(* (it is RunRegistry) and the run's task to batches of one record (it is  *)
(* RunPipeline); what is kept of the task is that a record and the         *)
(* statements on its span are two transactions.  A client comes back when  *)
(* the server has noticed that its connection ended.  The runs are those   *)
(* of one application in one version, and those of the server itself; all  *)
(* spans of an application have one key (name, position, application and   *)
(* version), as those of one place in its code have, in whatever run.      *)
(***************************************************************************)
EXTENDS Integers, Sequences, FiniteSets

CONSTANTS
  Runs,        \* runs of applications
  Cases        \* what may happen: [script, self, conns, fresh, breaks, crashes],
               \* script[r]: what run r records, [type, span], from index 1 on;
               \* self: the runs of SELF_APP_ID, the server's recording of itself;
               \* conns[r]: how often r connects, one fewer after a crash; fresh: whether the
               \* server has just started, or is up for long; breaks: whether
               \* connections break; how many crashes there are

Message == [type : {"Create", "Close", "Event"}, span : Nat]

ASSUME ConstantsAssumption ==
  \A c \in Cases :
    /\ c.script \in [Runs -> Seq(Message)]
    /\ c.conns \in [Runs -> Nat]
    /\ c.self \subseteq Runs
    /\ c.fresh \in BOOLEAN /\ c.breaks \in BOOLEAN /\ c.crashes \in Nat

VARIABLES
  case,      \* what happens in this behaviour
  \* the applications
  alive,     \* alive[r]: the application runs and its client has not ended
  link,      \* link[r]: "down", "waiting" for the reply, or "up"
  next,      \* next[r]: the index of the record to be sent next
  \* the database
  records,   \* rows of tracing_record
  appRun,    \* appRun[r]: "none", "open", "stopped", "exception"
  spanRuns,  \* rows of tracing_span_run
  defs,      \* defs[a]: how many rows tracing_span has for the key of a's spans
  \* the server
  nextId,    \* RECORD_ID_GENERATOR
  rowIds,    \* how many ids of rows (Uuid::new_v4) were made
  conns,     \* conns[r]: the connections of r since the server's start
  registry,  \* registry[r]: the connection the registry is at, and where
  cached,    \* cached[r]: the tracing_span row in the connection's cache, or 0
  looking,   \* the runs whose look-up found no row and has not inserted one
  init,      \* the task of TracingService::init
  found,     \* running_app_runs
  toMark,    \* exception_app_runs still to be updated
  marked,    \* exception_app_runs
  crashes,
  \* history
  behind,    \* runs replied to while an older task of theirs held records
  torn,      \* rows of spans that a crash left without the record they go back to
  raced,     \* runs that stopped between the two statements of init
  crossed    \* runs that looked the key up during another's look-up

clientVars == <<case, alive, link, next>>
dbVars == <<records, appRun, spanRuns, defs>>
initVars == <<init, found, toMark, marked>>
historyVars == <<behind, torn, raced, crossed>>
vars == <<clientVars, dbVars, nextId, rowIds, conns, registry, cached, looking, initVars, crashes,
          historyVars>>

SelfRuns == case.self
Script(r) == case.script[r]
Applications == {"app", "self"}
App(r) == IF r \in SelfRuns THEN "self" ELSE "app"

Row(id, r, idx, type, span) ==
  [id |-> id, run |-> r, idx |-> idx, type |-> type, span |-> span]

Greatest(S) == CHOOSE n \in S : \A m \in S : m <= n
NoRow == Row(0, 0, 0, "none", 0)
ClosedIn(rs, s) == \E m \in rs : m.type = "Close" /\ m.run = s.run /\ m.span = s.span
RowsOf(r) == {m \in records : m.run = r}
Stored(id) == \E m \in records : m.id = id

\* RecordIdGenerator::next hands out nextId.
GeneratorStart == 1

InitialServer ==
  /\ conns = [r \in Runs |-> <<>>]
  /\ registry = [r \in Runs |-> [conn |-> 1, at |-> "AppRun"]]
  /\ cached = [r \in Runs |-> 0]
  /\ looking = {}
  /\ found = {} /\ toMark = {} /\ marked = {}

Init ==
  /\ case \in Cases
  /\ alive = [r \in Runs |-> TRUE]
  /\ link = [r \in Runs |-> "down"]
  /\ next = [r \in Runs |-> 0]
  /\ records = {}
  /\ appRun = [r \in Runs |-> "none"]
  /\ spanRuns = {}
  /\ defs = [a \in Applications |-> 0]
  /\ nextId = GeneratorStart
  /\ rowIds = 0
  /\ InitialServer
  /\ init = IF case.fresh THEN "spawned" ELSE "done"
  /\ crashes = 0
  /\ behind = {} /\ torn = {} /\ raced = {} /\ crossed = {}

Latest(r) == conns[r][Len(conns[r])]
SetLatest(r, c) == [conns EXCEPT ![r][Len(conns[r])] = c]
Connected(r) == conns[r] # <<>> /\ Latest(r).phase \in {"new", "open"}

-----------------------------------------------------------------------------
(* The connection: AppRunLifetime and app_run.                             *)

\* get_running_span: the spans of the run whose row has neither an end nor a
\* mark.  The span is what the record says that the row names.
RunningSpans(r) ==
  {m.span : m \in {m \in records : \E s \in spanRuns :
      /\ s.run = r /\ ~s.closed /\ ~s.marked
      /\ m.id = s.rec /\ m.span # 0}}

\* The first call of a client, or one that reconnects.  The lifetime takes an id
\* for AppStart and sends AppRun to the registry.  A span that was loaded has
\* the id of its definition in place of its row's, so no statement on it finds
\* a row: 0.
Connect(r) ==
  /\ alive[r] /\ link[r] = "down" /\ ~Connected(r)
  /\ next[r] = 0 \/ r \notin SelfRuns
  /\ Len(conns[r]) + crashes < case.conns[r]
  /\ link' = [link EXCEPT ![r] = "waiting"]
  /\ LET reconnect == next[r] # 0
         spans == IF reconnect THEN RunningSpans(r) ELSE {}
     IN conns' = [conns EXCEPT ![r] = Append(@,
          [phase |-> "new", start |-> nextId, reconnect |-> reconnect, normal |-> FALSE,
           running |-> spans, task |-> "none", queue |-> <<>>,
           created |-> [s \in spans |-> 0], record |-> NoRow, row |-> 0, todo |-> {}])]
  /\ nextId' = nextId + 1
  /\ cached' = [cached EXCEPT ![r] = 0]
  /\ next' = [next EXCEPT ![r] = IF @ = 0 THEN 1 ELSE @]
  /\ UNCHANGED <<case, alive, dbVars, rowIds, registry, looking, initVars, crashes, historyVars>>

\* query_app_run_last_record_index: of the rows of the run the one with the
\* greatest index, and of that row the id.
LastRecordIndex(r) ==
  (CHOOSE m \in RowsOf(r) : \A n \in RowsOf(r) : n.idx <= m.idx).id

Holds(c) == c.queue # <<>> \/ "record" \in c.todo

\* Mutant: the client's reader begins anew, whatever the number.
ResumeAnew(r) == 1

\* The client's reader goes on after the number of the reply.
ResumeAfter(r) == LastRecordIndex(r) + 1

\* A first connection needs no reply; one that reconnects fails where there is no
\* row of the run.
Reply(r) ==
  /\ link[r] = "waiting" /\ Connected(r)
  /\ Latest(r).reconnect => RowsOf(r) # {}
  /\ link' = [link EXCEPT ![r] = "up"]
  /\ conns' = SetLatest(r, [Latest(r) EXCEPT !.phase = "open"])
  /\ next' = [next EXCEPT ![r] = IF Latest(r).reconnect THEN ResumeAfter(r) ELSE @]
  /\ behind' = IF \E k \in 1..(Len(conns[r]) - 1) : Holds(conns[r][k])
               THEN behind \cup {r} ELSE behind
  /\ UNCHANGED <<case, alive, dbVars, nextId, rowIds, registry, cached, looking, initVars,
                 crashes, torn, raced, crossed>>

\* app_run fails or is dropped before it answers, and the lifetime with it: the
\* AppRun it sent has no AppStop.  The client's next call sends no AppStart
\* (see ReconnectClient), so for the server it does not come back.
Drop(r) ==
  /\ link[r] = "waiting" /\ Connected(r) /\ case.breaks /\ r \notin SelfRuns
  /\ link' = [link EXCEPT ![r] = "down"]
  /\ alive' = [alive EXCEPT ![r] = FALSE]
  /\ conns' = SetLatest(r, [Latest(r) EXCEPT !.phase = "dropped"])
  /\ UNCHANGED <<case, next, dbVars, nextId, rowIds, registry, cached, looking, initVars, crashes,
                 historyVars>>

\* Mutant: a key that is not in the cache is inserted.
InsertsAlways(r) == TRUE

\* find_or_insert_tracing_span inserts what it did not find.
Inserts(r) == defs[App(r)] = 0

\* get_span_id: the cache, else the table.
LookUp(r) ==
  /\ Connected(r) /\ link[r] = "up" /\ next[r] <= Len(Script(r))
  /\ Script(r)[next[r]].type = "Create"
  /\ cached[r] = 0 /\ r \notin looking
  /\ IF Inserts(r)
     THEN /\ looking' = looking \cup {r}
          /\ crossed' = IF \E q \in looking : App(q) = App(r) THEN crossed \cup {r} ELSE crossed
          /\ UNCHANGED cached
     ELSE /\ \E d \in 1..defs[App(r)] : cached' = [cached EXCEPT ![r] = d]
          /\ UNCHANGED <<looking, crossed>>
  /\ UNCHANGED <<clientVars, dbVars, nextId, rowIds, conns, registry, initVars, crashes,
                 behind, torn, raced>>

LookUpInserts(r) ==
  /\ r \in looking
  /\ looking' = looking \ {r}
  /\ defs' = [defs EXCEPT ![App(r)] = @ + 1]
  /\ cached' = [cached EXCEPT ![r] = defs'[App(r)]]
  /\ UNCHANGED <<clientVars, records, appRun, spanRuns, nextId, rowIds, conns, registry, initVars,
                 crashes, historyVars>>

\* The connection's task ends: it sends AppStop to the registry, with an id.
Ended(c, normal) == [c EXCEPT !.phase = "ended", !.normal = normal]

\* The next record reaches the lifetime, which gives it an id and passes it on.
\* A close of a span that is not running ends the connection; the client, whose
\* stream of replies ends with it, does not call again.
Record(r) ==
  /\ Connected(r) /\ link[r] = "up" /\ next[r] <= Len(Script(r))
  /\ LET m == Script(r)[next[r]]
         c == Latest(r)
         row == Row(nextId, r, next[r], m.type, m.span)
     IN
     /\ m.type = "Create" => cached[r] # 0
     /\ nextId' = nextId + 1
     /\ IF (m.type = "Close" /\ m.span \notin c.running) \/ c.task = "rejected"
        THEN /\ conns' = SetLatest(r, Ended(c, FALSE))
             /\ alive' = [alive EXCEPT ![r] = FALSE]
             /\ link' = [link EXCEPT ![r] = "down"]
             /\ UNCHANGED next
        ELSE /\ conns' = SetLatest(r, [c EXCEPT !.queue = Append(@, row),
                   !.running = IF m.type = "Create" THEN @ \cup {m.span} ELSE @])
             /\ next' = [next EXCEPT ![r] = @ + 1]
             /\ UNCHANGED <<alive, link>>
  /\ UNCHANGED <<case, dbVars, rowIds, registry, cached, looking, initVars, crashes, historyVars>>

\* The application has recorded all it will and stops in good order.
Stop(r) ==
  /\ Connected(r) /\ link[r] = "up" /\ next[r] > Len(Script(r))
  /\ conns' = SetLatest(r, Ended(Latest(r), TRUE))
  /\ nextId' = nextId + 1
  /\ alive' = [alive EXCEPT ![r] = FALSE]
  /\ link' = [link EXCEPT ![r] = "down"]
  /\ UNCHANGED <<case, next, dbVars, rowIds, registry, cached, looking, initVars, crashes,
                 historyVars>>

\* The connection breaks, and the application may have died ...
Break(r) ==
  /\ link[r] = "up" /\ case.breaks /\ r \notin SelfRuns
  /\ link' = [link EXCEPT ![r] = "down"]
  /\ alive' \in {alive, [alive EXCEPT ![r] = FALSE]}
  /\ UNCHANGED <<case, next, dbVars, nextId, rowIds, conns, registry, cached, looking, initVars,
                 crashes, historyVars>>

\* ... and the server notices.
Notice(r) ==
  /\ Connected(r) /\ link[r] = "down" /\ r \notin looking
  /\ conns' = SetLatest(r, Ended(Latest(r), FALSE))
  /\ nextId' = nextId + 1
  /\ UNCHANGED <<clientVars, dbVars, rowIds, registry, cached, looking, initVars, crashes,
                 historyVars>>

-----------------------------------------------------------------------------
(* The registry and the tasks of the runs.                                 *)

SetConn(r, k, c) == [conns EXCEPT ![r][k] = c]
At(r, k, where) == registry[r] = [conn |-> k, at |-> where] /\ k <= Len(conns[r])
Goes(r, k, where) == registry' = [registry EXCEPT ![r] = [conn |-> k, at |-> where]]

\* AppRun: the record of AppStart and the run's row, or for a run that comes back
\* a record that says so, beside the indices; without a row of the run there is no
\* task, and what the connection sent is dropped.
HandleAppRun(r, k) ==
  LET c == conns[r][k]
      known == ~c.reconnect \/ appRun[r] # "none"
  IN
  /\ At(r, k, "AppRun")
  /\ conns' = SetConn(r, k, [c EXCEPT !.task = IF known THEN "running" ELSE "rejected",
                                      !.queue = IF known THEN @ ELSE <<>>])
  /\ IF c.reconnect
     THEN /\ records' = records \cup {Row(nextId, r, -1, "Reconnect", 0)}
          /\ nextId' = nextId + 1
          /\ UNCHANGED appRun
     ELSE /\ records' = records \cup {Row(c.start, r, 0, "AppStart", 0)}
          /\ appRun' = [appRun EXCEPT ![r] = "open"]
          /\ UNCHANGED nextId
  /\ Goes(r, k, "AppStop")
  /\ UNCHANGED <<clientVars, spanRuns, defs, rowIds, cached, looking, initVars, crashes,
                 historyVars>>

\* update_app_run_stop_time: an end in good order clears the mark.
HandleAppStop(r, k) ==
  /\ At(r, k, "AppStop") /\ conns[r][k].phase = "ended"
  /\ appRun' = [appRun EXCEPT ![r] =
       IF @ = "none" THEN @ ELSE IF conns[r][k].normal THEN "stopped" ELSE "exception"]
  /\ raced' = IF r \in toMark THEN raced \cup {r} ELSE raced
  /\ Goes(r, k, "task")
  /\ UNCHANGED <<clientVars, records, spanRuns, defs, nextId, rowIds, conns, cached, looking,
                 initVars, crashes, behind, torn, crossed>>

\* The registry has awaited the task.  A connection that was dropped is passed by.
NextConnection(r, k) ==
  LET c == conns[r][k] IN
  /\ \/ At(r, k, "AppStop") /\ c.phase = "dropped"
     \/ At(r, k, "task") /\ c.queue = <<>> /\ c.todo = {}
  /\ Goes(r, k + 1, "AppRun")
  /\ UNCHANGED <<clientVars, dbVars, nextId, rowIds, conns, cached, looking, initVars, crashes,
                 historyVars>>

\* Mutant: the row of a span names its record by the record's index.
RecordIndexOf(c) == c.record.idx

\* The row of a span names its record by the record's id.
RecordIdOf(c) == c.record.id

\* The task takes the next record: created_spans at once, the record and the
\* statement on the span to be stored.
Take(r, k) ==
  LET c == conns[r][k]
      m == Head(c.queue)
  IN
  /\ c.task = "running" /\ c.todo = {} /\ c.queue # <<>>
  /\ IF m.type = "Create"
     THEN /\ rowIds' = rowIds + 1
          /\ conns' = SetConn(r, k, [c EXCEPT !.queue = Tail(@), !.record = m,
               !.row = rowIds + 1, !.todo = {"record", "span"},
               !.created = [s \in DOMAIN @ \cup {m.span} |->
                              IF s = m.span THEN rowIds + 1 ELSE @[s]]])
     ELSE /\ conns' = SetConn(r, k, [c EXCEPT !.queue = Tail(@), !.record = m,
               !.row = IF m.type = "Close" /\ m.span \in DOMAIN c.created
                       THEN c.created[m.span] ELSE 0,
               !.todo = {"record", "span"},
               !.created = IF m.type = "Close" THEN [s \in DOMAIN @ \ {m.span} |-> @[s]]
                                               ELSE @])
          /\ UNCHANGED rowIds
  /\ UNCHANGED <<clientVars, dbVars, nextId, registry, cached, looking, initVars, crashes,
                 historyVars>>

\* TracingRecordBatchInserter::execute ...
StoreRecord(r, k) ==
  LET c == conns[r][k] IN
  /\ "record" \in c.todo
  /\ records' = records \cup {c.record}
  /\ conns' = SetConn(r, k, [c EXCEPT !.todo = @ \ {"record"}])
  /\ UNCHANGED <<clientVars, appRun, spanRuns, defs, nextId, rowIds, registry, cached, looking,
                 initVars, crashes, historyVars>>

\* ... and beside it SqlBatchExecutor::execute.
RunStatement(r, k) ==
  LET c == conns[r][k] IN
  /\ "span" \in c.todo
  /\ spanRuns' = CASE c.record.type = "Create" ->
                        spanRuns \cup {[row |-> c.row, run |-> r, span |-> c.record.span,
                                        rec |-> RecordIdOf(c), closed |-> FALSE,
                                        marked |-> FALSE]}
                   [] c.record.type = "Close" ->
                        {[s EXCEPT !.closed = @ \/ s.row = c.row] : s \in spanRuns}
                   [] OTHER -> spanRuns
  /\ conns' = SetConn(r, k, [c EXCEPT !.todo = @ \ {"span"}])
  /\ UNCHANGED <<clientVars, records, appRun, defs, nextId, rowIds, registry, cached, looking,
                 initVars, crashes, historyVars>>

-----------------------------------------------------------------------------
(* A crash of the server, and its start.                                   *)

OpenRuns == {r \in Runs : appRun[r] = "open"}

\* Mutant: the generator goes on with the last id itself.
IdFromLast == IF records = {} THEN GeneratorStart ELSE Greatest({m.id : m \in records})

\* init, before it returns: query_last_record_id and RecordIdGenerator::reset.
IdAfterLast == IF records = {} THEN GeneratorStart ELSE Greatest({m.id : m \in records}) + 1

\* Everything but the database and the clients is lost, with the server the
\* application that it is itself; a client that waits for a reply is lost as in
\* Drop.
Crash ==
  /\ crashes < case.crashes
  /\ crashes' = crashes + 1
  /\ nextId' = IdAfterLast
  /\ alive' = [r \in Runs |-> alive[r] /\ r \notin SelfRuns /\ link[r] # "waiting"]
  /\ link' = [r \in Runs |-> "down"]
  /\ conns' = [r \in Runs |-> <<>>]
  /\ registry' = [r \in Runs |-> [conn |-> 1, at |-> "AppRun"]]
  /\ cached' = [r \in Runs |-> 0]
  /\ looking' = {}
  /\ init' = "spawned"
  /\ found' = {} /\ toMark' = {} /\ marked' = {}
  /\ torn' = torn \cup {s.row : s \in {s \in spanRuns :
                            ~Stored(s.rec) \/ s.closed # ClosedIn(records, s)}}
  /\ UNCHANGED <<case, next, dbVars, rowIds, behind, raced, crossed>>

\* set_exception_end_for_span_run: rows without a close.
MarkSpans(runs) ==
  spanRuns' = {[s EXCEPT !.marked = @ \/ (s.run \in runs /\ ~s.closed)] : s \in spanRuns}

\* The spawned task: the runs without an end are found, when the server may serve
\* again already.  Those of the server itself are marked at once.
InitFinds ==
  /\ init = "spawned"
  /\ init' = "own"
  /\ found' = OpenRuns
  /\ toMark' = OpenRuns \cap SelfRuns
  /\ marked' = OpenRuns \cap SelfRuns
  /\ UNCHANGED <<clientVars, dbVars, nextId, rowIds, conns, registry, cached, looking, crashes,
                 historyVars>>

\* Mutant: the second look takes all the runs that were found.
FoundAtAll == found

\* Mutant: the second look takes the runs that have an end by now.
FoundAndEnded == found \ OpenRuns

\* The runs found that still have no end.
FoundAndOpen == found \cap OpenRuns

\* Twelve seconds later.
InitLooksAgain ==
  /\ init = "sleeping"
  /\ init' = "marking"
  /\ toMark' = FoundAndOpen
  /\ marked' = FoundAndOpen
  /\ UNCHANGED <<clientVars, dbVars, nextId, rowIds, conns, registry, cached, looking, found,
                 crashes, historyVars>>

\* One update for each of them, whatever its row says by now.
InitMarksRun(r) ==
  /\ init \in {"own", "marking"} /\ r \in toMark
  /\ toMark' = toMark \ {r}
  /\ appRun' = [appRun EXCEPT ![r] = "exception"]
  /\ UNCHANGED <<clientVars, records, spanRuns, defs, nextId, rowIds, conns, registry, cached,
                 looking, init, found, marked, crashes, historyVars>>

InitMarksSpans ==
  /\ init \in {"own", "marking"} /\ toMark = {}
  /\ init' = IF init = "own" THEN "sleeping" ELSE "done"
  /\ MarkSpans(marked)
  /\ UNCHANGED <<clientVars, records, appRun, defs, nextId, rowIds, conns, registry, cached,
                 looking, found, toMark, marked, crashes, historyVars>>

InitTask == \/ InitFinds \/ InitLooksAgain \/ (\E r \in Runs : InitMarksRun(r))
            \/ InitMarksSpans

-----------------------------------------------------------------------------

Client(r) == Connect(r) \/ Record(r) \/ Stop(r) \/ Break(r)
Handler(r) == Reply(r) \/ Drop(r) \/ LookUp(r) \/ LookUpInserts(r) \/ Notice(r)
Server(r) ==
  \E k \in DOMAIN conns[r] : \/ HandleAppRun(r, k) \/ HandleAppStop(r, k)
                             \/ NextConnection(r, k)
                             \/ Take(r, k) \/ StoreRecord(r, k) \/ RunStatement(r, k)

Next == (\E r \in Runs : Client(r) \/ Handler(r) \/ Server(r)) \/ InitTask \/ Crash

\* The server's tasks run; clients may do nothing, and no crash or break is due.
Fairness ==
  /\ WF_vars(InitTask)
  /\ \A r \in Runs : WF_vars(Handler(r)) /\ WF_vars(Server(r))

Spec == Init /\ [][Next]_vars /\ Fairness

-----------------------------------------------------------------------------
(* Properties.                                                             *)

\* Every variable keeps to its type; an id in use is below the generator's.
TypeOK ==
  /\ alive \in [Runs -> BOOLEAN]
  /\ link \in [Runs -> {"down", "waiting", "up"}]
  /\ next \in [Runs -> Nat]
  /\ \A m \in records : m.id \in 1..(nextId - 1) /\ m.run \in Runs /\ m.idx >= -1
  /\ appRun \in [Runs -> {"none", "open", "stopped", "exception"}]
  /\ \A s \in spanRuns : s.row \in 1..rowIds /\ s.run \in Runs
  /\ \A s, t \in spanRuns : s.row = t.row => s = t
  /\ \A r \in Runs : cached[r] \in 0..defs[App(r)]
  /\ looking \subseteq Runs
  /\ \A r \in Runs : \A k \in DOMAIN conns[r] : LET c == conns[r][k] IN
       /\ c.phase \in {"new", "open", "ended", "dropped"}
       /\ c.task \in {"none", "running", "rejected"}
       /\ c.todo \subseteq {"record", "span"}
       /\ c.start \in 1..(nextId - 1)
       /\ \A i \in DOMAIN c.queue : c.queue[i].id \in 1..(nextId - 1)
       /\ \A s \in DOMAIN c.created : c.created[s] \in 0..rowIds
  /\ init \in {"spawned", "own", "sleeping", "marking", "done"}
  /\ toMark \subseteq marked /\ marked \subseteq found /\ found \subseteq Runs

\* No two stored records have the same id, whatever crashed between an id being
\* handed out and its record being stored; and the id of a row is greater than
\* its index, which is what the number of a reply exceeds the last index by
\* (lib.rs:34, tracing_service.rs:625, 973).
RecordIds ==
  /\ \A m, n \in records : m.id = n.id => m = n
  /\ \A m \in records : m.id > m.idx

\* A record is stored twice only for a run that was given its last record's
\* number while an older task of it still held records (grpc_service.rs:856).
StoredOnce ==
  \A m, n \in records :
    m.run = n.run /\ m.idx = n.idx /\ m.idx > 0 /\ m # n => m.run \in behind

\* The record that a task has in hand and has not stored.
InHand(r) == {conns[r][k].record : k \in {k \in DOMAIN conns[r] : "record" \in conns[r][k].todo}}

\* The row of a span names the record of its creation, and has an end only by the
\* close of that span in its run: not by that of a span loaded under the id of a
\* definition, nor by one that got an id again after a crash.  Except for a row
\* whose record a crash has lost (grpc_service.rs:747, running_app.rs:1022).
RowNamesItsRecord ==
  \A s \in {s \in spanRuns : s.row \notin torn} :
    /\ \A m \in records : m.id = s.rec => m.type = "Create" /\ m.run = s.run /\ m.span = s.span
    /\ s.closed => ClosedIn(records \cup InHand(s.run), s)

\* A run that stops in good order is not marked as ended by exception, also when
\* it was found open by a server that started again and was marked while it
\* lived, unless it stops between the look that found it open and the mark
\* (tracing_service.rs:668).
GoodStopStands ==
  \A r \in Runs \ raced : \A k \in DOMAIN conns[r] :
    conns[r][k].phase = "ended" /\ conns[r][k].normal /\ conns[r][k].task = "running"
      /\ (registry[r].conn > k \/ registry[r] = [conn |-> k, at |-> "task"])
      => appRun[r] = "stopped"

\* A tracing_span row for a key is made once, unless two look-ups of it cross
\* (tracing_service.rs:1582).
DefinitionOnce ==
  \A a \in Applications : defs[a] <= 1 + Cardinality({r \in crossed : App(r) = a})

\* The row of a run whose application is gone does not stay open: its connection's
\* end or the next start of the server closes it.  Except where app_run was
\* dropped before it answered, which leaves the row open as long as the server
\* runs (tracing_service.rs:668, grpc_service.rs:855).
DeadRunsEnd ==
  \A r \in Runs :
    (appRun[r] = "open" /\ ~alive[r]) ~>
      \/ appRun[r] # "open"
      \/ \E k \in DOMAIN conns[r] : conns[r][k].phase = "dropped"
=============================================================================
