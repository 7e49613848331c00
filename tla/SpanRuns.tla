------------------------------ MODULE SpanRuns ------------------------------
(***************************************************************************)
(* The spans of one application run, from the threads of the application   *)
(* to the rows of the database: TLLayer (crates/core/src/tracing_layer.rs),*)
(* the direct client (libs/client/src/client.rs), the connection's         *)
(* AppRunLifetime (grpc_service.rs) and the span bookkeeping of the run's  *)
(* task (running_app.rs).                                                  *)
(*                                                                         *)
(* The Registry of tracing-subscriber, which decides when a span closes,   *)
(* is external: a span closes when no thread is inside it and no span it   *)
(* is the Registry's parent of is open.  The layer takes the parent from   *)
(* another place: a span declared a root (parent: None) inside another     *)
(* span has no parent in the Registry and that other span for parent in    *)
(* the layer's message.                                                    *)
(*                                                                         *)
(* A layer callback is one step: what another thread can do between the    *)
(* callback's index and its send concerns other spans.  The batches in     *)
(* which the task works are those of RunPipeline, of any size here: Handle *)
(* adds the statements of a record to the batch, Execute runs the batch as *)
(* the one transaction a string of statements is.  One connection; what    *)
(* another one finds is the matter of RunRecovery.                         *)
(***************************************************************************)
EXTENDS Naturals, Sequences, FiniteSets

\* The bounds are for model checking; the code has none.
CONSTANTS
  Threads,      \* threads of the application
  MaxSpans,     \* bound on the spans of an application
  Apps,         \* what an application may do: [kinds: the kinds of the spans it
                \* may create, in order; notes, enters: how many it may make]
  EnableEnter,  \* TLLayer::enable_enter
  MaxNotes,     \* bound on the events and recorded fields of an application
  MaxEnters,    \* bound on the enters of an application
  MaxLag        \* bound on each queue

\* What the code tells spans apart by: the target "h2::proto", and the field
\* "sid": a uuid, another text, or not a text at all.
SpanKind == {"plain", "hidden", "uuid", "text", "number"}

\* The ids (t_id) that the Registry gives to spans, in order.
Spans == 1..MaxSpans
NoSpan == 0

ASSUME ConstantsAssumption ==
  /\ MaxSpans \in Nat
  /\ \A a \in Apps : /\ DOMAIN a.kinds \subseteq Spans
                     /\ \A s \in DOMAIN a.kinds : a.kinds[s] \in SpanKind
                     /\ a.notes \in 0..MaxNotes
                     /\ a.enters \in 0..MaxEnters
  /\ EnableEnter \in BOOLEAN
  /\ MaxNotes \in Nat
  /\ MaxEnters \in Nat
  /\ MaxLag \in Nat

VARIABLES
  app,        \* what this application may do
  born,       \* the spans created
  dead,       \* the spans closed
  regParent,  \* regParent[s]: the parent that the Registry keeps open for s
  tlParent,   \* tlParent[s]: the parent in the layer's message
  inside,     \* inside[t]: the spans thread t has entered, the current one last
  notes,      \* how many events and fields were recorded
  field,      \* field[s]: the last field recorded on s
  enters,     \* how many enters there were
  stopped,    \* the TLGuard was dropped
  channel,    \* the client's channel: messages in order
  client,     \* the request stream: "stream", "stopping" or "ended"
  lifetime,   \* the connection's task: "on", "normal", "exception", "panicked"
  running,    \* AppRunLifetime::running_spans
  refused,    \* the message that record() answered with an error, if one was
  inbox,      \* the channel of the run's task
  task,       \* "running" or "finished"
  created,    \* RunningApp::created_spans
  subs,       \* subs[s]: entries of sub_span_t_ids that are not flagged closed
  entered,    \* entered[s]: the row of enter_span, 0 for none
  busy,       \* busy[s]: enters that went into total_enter_duration
  enterIds,   \* how many enter rows the task has made
  rows,       \* tracing_span_run and tracing_span_enter
  draft,      \* the rows as the statements of the batch would leave them
  batch,      \* the spans with a statement in the batch
  events,     \* event rows: the span the layer named, the span stored
  skipped,    \* the records that a `continue` kept from the watchers
  shared,     \* history: spans entered by two threads at a time
  victims,    \* history: spans with a statement in a batch that failed
  missed      \* history: spans with a message that never reached the server

appVars == <<app, born, dead, regParent, tlParent, inside, notes, field, enters, shared>>
lifeVars == <<lifetime, running, refused>>
taskVars == <<task, created, subs, entered, busy, enterIds, draft, batch, events, skipped>>
dbVars == <<rows, victims>>
vars == <<appVars, stopped, channel, client, lifeVars, inbox, taskVars, dbVars, missed>>

NoRun == [made |-> FALSE, closed |-> FALSE, marked |-> FALSE, busy |-> 0, field |-> 0]
NoEnter == [span |-> NoSpan, left |-> FALSE]
Rows == [run : [Spans -> [made : BOOLEAN, closed : BOOLEAN, marked : BOOLEAN,
                          busy : 0..MaxEnters, field : 0..MaxNotes]],
         enter : [1..MaxEnters -> [span : Spans \cup {NoSpan}, left : BOOLEAN]]]

Msg == [type : {"Create"}, span : Spans, parent : Spans \cup {NoSpan}]
         \cup [type : {"Record"}, span : Spans, field : 1..MaxNotes]
         \cup [type : {"Enter", "Leave", "Close"}, span : Spans]
         \cup [type : {"Event"}, span : Spans \cup {NoSpan}]
AppStop == [type |-> "AppStop"]

Open == born \ dead
Current(t) == IF inside[t] = <<>> THEN NoSpan ELSE inside[t][Len(inside[t])]
Inside(t) == {inside[t][i] : i \in DOMAIN inside[t]}
Hidden(s) == app.kinds[s] = "hidden"

Init ==
  /\ app \in Apps
  /\ born = {}
  /\ dead = {}
  /\ regParent = [s \in Spans |-> NoSpan]
  /\ tlParent = [s \in Spans |-> NoSpan]
  /\ inside = [t \in Threads |-> <<>>]
  /\ notes = 0
  /\ field = [s \in Spans |-> 0]
  /\ enters = 0
  /\ stopped = FALSE
  /\ channel = <<>>
  /\ client = "stream"
  /\ lifetime = "on"
  /\ running = {}
  /\ refused = {}
  /\ inbox = <<>>
  /\ task = "running"
  /\ created = {}
  /\ subs = [s \in Spans |-> {}]
  /\ entered = [s \in Spans |-> 0]
  /\ busy = [s \in Spans |-> 0]
  /\ enterIds = 0
  /\ rows = [run |-> [s \in Spans |-> NoRun], enter |-> [e \in 1..MaxEnters |-> NoEnter]]
  /\ draft = rows
  /\ batch = {}
  /\ events = {}
  /\ skipped = {}
  /\ shared = {}
  /\ victims = {}
  /\ missed = {}

-----------------------------------------------------------------------------
(* The application: the Registry's side of a step, then the layer's.       *)

\* MsgReceiverSubscriber::on_msg: a message to a channel whose receiver is gone
\* is dropped.  A span whose target is h2::proto has no messages.
OnMsg(s, m) ==
  IF s # NoSpan /\ Hidden(s) THEN UNCHANGED <<channel, missed>>
  ELSE IF client = "ended"
    THEN /\ missed' = missed \cup {s}
         /\ UNCHANGED channel
    ELSE /\ Len(channel) < MaxLag
         /\ channel' = Append(channel, m)
         /\ UNCHANGED missed

AppStep == UNCHANGED <<app, stopped, client, lifeVars, inbox, taskVars, dbVars>>

\* on_new_span: an explicit parent, else the current span, also for a root.
LayerParent(t, explicit) == IF explicit # NoSpan THEN explicit ELSE Current(t)

\* The Registry keeps an explicit parent open, else the current span, but for a root.
RegistryParent(t, explicit, root) ==
  IF explicit # NoSpan THEN explicit ELSE IF root THEN NoSpan ELSE Current(t)

NewSpan(t, s, explicit, root) ==
  /\ s \in DOMAIN app.kinds \ born
  /\ \A r \in Spans : r < s => r \in born
  /\ root => explicit = NoSpan
  /\ born' = born \cup {s}
  /\ regParent' = [regParent EXCEPT ![s] = RegistryParent(t, explicit, root)]
  /\ tlParent' = [tlParent EXCEPT ![s] = LayerParent(t, explicit)]
  /\ OnMsg(s, [type |-> "Create", span |-> s, parent |-> LayerParent(t, explicit)])
  /\ UNCHANGED <<dead, inside, notes, field, enters, shared>>
  /\ AppStep

\* on_record.
RecordField(s) ==
  /\ notes < app.notes
  /\ notes' = notes + 1
  /\ field' = [field EXCEPT ![s] = notes + 1]
  /\ OnMsg(s, [type |-> "Record", span |-> s, field |-> notes + 1])
  /\ UNCHANGED <<born, dead, regParent, tlParent, inside, enters, shared>>
  /\ AppStep

\* on_event, of a target that is not h2::proto: the span it names may be.
RecordEvent(s) ==
  /\ notes < app.notes
  /\ notes' = notes + 1
  /\ OnMsg(NoSpan, [type |-> "Event", span |-> s])
  /\ UNCHANGED <<born, dead, regParent, tlParent, inside, field, enters, shared>>
  /\ AppStep

\* on_enter.  A thread is in a span once at most (a limit of the model).
Enter(t, s) ==
  /\ enters < app.enters
  /\ s \notin Inside(t)
  /\ enters' = enters + 1
  /\ inside' = [inside EXCEPT ![t] = Append(@, s)]
  /\ shared' = IF \E u \in Threads : s \in Inside(u) THEN shared \cup {s} ELSE shared
  /\ IF EnableEnter THEN OnMsg(s, [type |-> "Enter", span |-> s])
                    ELSE UNCHANGED <<channel, missed>>
  /\ UNCHANGED <<born, dead, regParent, tlParent, notes, field>>
  /\ AppStep

\* on_exit: guards may be dropped in any order.
Exit(t, i) ==
  /\ inside' = [inside EXCEPT ![t] = SubSeq(@, 1, i - 1) \o SubSeq(@, i + 1, Len(@))]
  /\ IF EnableEnter THEN OnMsg(inside[t][i], [type |-> "Leave", span |-> inside[t][i]])
                    ELSE UNCHANGED <<channel, missed>>
  /\ UNCHANGED <<born, dead, regParent, tlParent, notes, field, enters, shared>>
  /\ AppStep

\* The last handle of a span is dropped; on_close runs before the span lets go
\* of its parent.
Close(s) ==
  /\ \A t \in Threads : s \notin Inside(t)
  /\ \A c \in Open : regParent[c] # s
  /\ dead' = dead \cup {s}
  /\ OnMsg(s, [type |-> "Close", span |-> s])
  /\ UNCHANGED <<born, regParent, tlParent, inside, notes, field, enters, shared>>
  /\ AppStep

\* TLGuard is dropped or stopped: AppStop goes into the channel, once.
Stop ==
  /\ ~stopped
  /\ stopped' = TRUE
  /\ channel' = IF client = "ended" THEN channel ELSE Append(channel, AppStop)
  /\ UNCHANGED <<appVars, client, lifeVars, inbox, taskVars, dbVars, missed>>

Application ==
  \/ \E t \in Threads, s \in Spans :
       \/ \E e \in Open \cup {NoSpan}, root \in BOOLEAN : NewSpan(t, s, e, root)
       \/ s \in Open /\ Enter(t, s)
  \/ \E t \in Threads : \E i \in DOMAIN inside[t] : Exit(t, i)
  \/ \E s \in Open : RecordField(s) \/ Close(s)
  \/ \E s \in Open \cup {NoSpan} : RecordEvent(s)
  \/ Stop

-----------------------------------------------------------------------------
(* The connection: what the request stream yields is handled by the        *)
(* lifetime, AppRunLifetime::record.                                       *)

\* The connection is over for the server; what its client still holds, or is
\* given, is lost.
EndsAs(how) ==
  /\ lifetime' = how
  /\ client' = "ended"
  /\ channel' = <<>>
  /\ missed' = missed \cup {channel[i].span : i \in {j \in DOMAIN channel : channel[j] # AppStop}}

\* Mutant: a span that is created takes its parent out of the running spans.
RunningWithout(m) == (running \cup {m.span}) \ {m.parent}

\* span_create: the span is inserted; nothing ever takes one out.
RunningWith(m) == running \cup {m.span}

\* get_running_span: enter, leave, close and record are of a span created.
Knows(m) == m.span \in running

\* event: of a span that is not known the event is stored without a span.
EventSpan(m) == IF Knows(m) THEN m.span ELSE NoSpan

\* A record goes to the run's task, with the span it was found to be in.
Accept(m) ==
  /\ Len(inbox) < MaxLag
  /\ inbox' = Append(inbox, m)
  /\ channel' = Tail(channel)
  /\ UNCHANGED <<lifetime, client, refused, missed>>

\* An error of record() ends the connection's task as an exception.
RefuseMsg(m) ==
  /\ refused' = {m}
  /\ EndsAs("exception")
  /\ UNCHANGED <<running, inbox>>

\* get_span_full_info: the "sid" of a span that has one is parsed as a uuid;
\* a field "sid" that is no text is taken to be unreachable.
LifetimeCreate(m) ==
  CASE app.kinds[m.span] = "text" -> RefuseMsg(m)
    [] app.kinds[m.span] = "number" -> /\ EndsAs("panicked")
                                  /\ UNCHANGED <<running, refused, inbox>>
    [] OTHER -> /\ running' = RunningWith(m)
                /\ Accept(m)

LifetimeEvent(m) ==
  /\ Accept([type |-> "Event", asked |-> m.span, span |-> EventSpan(m)])
  /\ UNCHANGED running

LifetimeOther(m) ==
  IF Knows(m) THEN Accept(m) /\ UNCHANGED running ELSE RefuseMsg(m)

LifetimeRecord(m) ==
  CASE m.type = "Create" -> LifetimeCreate(m)
    [] m.type = "Event" -> LifetimeEvent(m)
    [] OTHER -> LifetimeOther(m)

\* The stream of tracing_msg_subscriber yields the next message, also while it
\* empties the channel after AppStop.
ClientSends ==
  /\ lifetime = "on"
  /\ channel # <<>>
  /\ Head(channel) # AppStop
  /\ LifetimeRecord(Head(channel))
  /\ UNCHANGED <<appVars, stopped, taskVars, dbVars>>

\* AppStop is put aside; for a second the stream waits for what other threads
\* still record.
ClientPutsStopAside ==
  /\ lifetime = "on"
  /\ channel # <<>>
  /\ Head(channel) = AppStop
  /\ client' = "stopping"
  /\ channel' = Tail(channel)
  /\ UNCHANGED <<appVars, stopped, lifeVars, inbox, taskVars, dbVars, missed>>

\* Mutant: AppStop is sent when the second is over, whatever is still there.
ClientStopsAtOnce ==
  /\ lifetime = "on"
  /\ client = "stopping"
  /\ lifetime' = "normal"
  /\ client' = "ended"
  /\ channel' = <<>>
  /\ UNCHANGED <<appVars, stopped, running, refused, inbox, taskVars, dbVars, missed>>

\* Mutant: the stream waits for one more message before it sends AppStop.
ClientAwaitsMore ==
  /\ lifetime = "on"
  /\ client = "stopping"
  /\ channel # <<>>
  /\ EndsAs("normal")
  /\ UNCHANGED <<appVars, stopped, running, refused, inbox, taskVars, dbVars>>

\* The channel is empty: AppStop is sent, the last message of the stream.
ClientStops ==
  /\ lifetime = "on"
  /\ client = "stopping"
  /\ channel = <<>>
  /\ EndsAs("normal")
  /\ UNCHANGED <<appVars, stopped, running, refused, inbox, taskVars, dbVars>>

\* The connection breaks or the application dies.  app_stop makes no record of
\* the spans that run: it drops what its span_leave and span_close return.
ConnectionBreaks ==
  /\ lifetime = "on"
  /\ EndsAs("exception")
  /\ UNCHANGED <<appVars, stopped, running, refused, inbox, taskVars, dbVars>>

-----------------------------------------------------------------------------
(* The task of the run: future_2 of RunningApp::handle_records.            *)

\* An update of a row that is not there changes nothing.
Updated(row, changed) == IF row.made THEN changed ELSE row

\* Mutant: every other span of the run is taken to be below.
BelowAll(s) == created \ {s}

\* The spans that set_exception_end_for_sub_spans comes to from s.
Below(s) ==
  {c \in Spans : \A S \in SUBSET Spans :
     (subs[s] \subseteq S /\ \A p \in S : subs[p] \subseteq S) => c \in S}

Taken == inbox' = Tail(inbox)
TaskStep == UNCHANGED <<appVars, stopped, channel, client, lifeVars, task, dbVars, missed>>
Statements(s, run, enter) ==
  /\ draft' = [run |-> run, enter |-> enter]
  /\ batch' = batch \cup {s}

\* A `continue`: the record is stored, no statement made and no watcher told.
Skip(m) ==
  /\ skipped' = skipped \cup {m}
  /\ UNCHANGED <<created, subs, entered, busy, enterIds, draft, batch, events>>

\* Mutant: a span whose parent is not known is not taken up either.
CreateOnlyUnderKnown(m) ==
  IF m.parent \notin created \cup {NoSpan} THEN Skip(m)
  ELSE /\ created' = created \cup {m.span}
       /\ subs' = [c \in Spans |-> IF c = m.parent THEN subs[c] \cup {m.span} ELSE subs[c]]
       /\ Statements(m.span, [draft.run EXCEPT ![m.span] = [NoRun EXCEPT !.made = TRUE]],
                     draft.enter)
       /\ UNCHANGED <<entered, busy, enterIds, events, skipped>>

\* SpanCreate: an entry of its own and one in its parent's list, if the parent
\* is known, and a row.
HandleCreate(m) ==
  /\ created' = created \cup {m.span}
  /\ subs' = [c \in Spans |-> CASE c = m.span -> {}
                                [] c = m.parent /\ c \in created -> subs[c] \cup {m.span}
                                [] OTHER -> subs[c]]
  /\ entered' = [entered EXCEPT ![m.span] = 0]
  /\ busy' = [busy EXCEPT ![m.span] = 0]
  /\ Statements(m.span, [draft.run EXCEPT ![m.span] = [NoRun EXCEPT !.made = TRUE]], draft.enter)
  /\ UNCHANGED <<enterIds, events, skipped>>

\* Mutant: the entry in the parent's list is not flagged.
SubsUnflagged(s) == [c \in Spans |-> IF c \in Below(s) \cup {s} THEN {} ELSE subs[c]]

\* The lists after the close of s: those it went through are taken, and s is
\* flagged in its parent's.
SubsAfterClose(s) ==
  [c \in Spans |-> IF c \in Below(s) \cup {s} THEN {} ELSE subs[c] \ {s}]

\* SpanClose: the open spans below are marked, the span's row gets its end.
HandleClose(m) ==
  LET s == m.span IN
  IF s \notin created THEN Skip(m)
  ELSE /\ created' = created \ {s}
       /\ subs' = SubsAfterClose(s)
       /\ Statements(s,
            [c \in Spans |->
               CASE c = s -> Updated(draft.run[c],
                               [draft.run[c] EXCEPT !.closed = TRUE, !.busy = busy[s]])
                 [] c \in Below(s) -> Updated(draft.run[c],
                                        [draft.run[c] EXCEPT !.marked = TRUE])
                 [] OTHER -> draft.run[c]],
            draft.enter)
       /\ UNCHANGED <<entered, busy, enterIds, events, skipped>>

\* SpanRecord: the fields are written with the record they came in.
HandleRecord(m) ==
  LET s == m.span IN
  IF s \notin created THEN Skip(m)
  ELSE /\ Statements(s, [draft.run EXCEPT ![s] = Updated(@, [@ EXCEPT !.field = m.field])],
                     draft.enter)
       /\ UNCHANGED <<created, subs, entered, busy, enterIds, events, skipped>>

\* SpanEnter: a row; an enter that was not left yet is replaced, its row stays.
HandleEnter(m) ==
  LET s == m.span IN
  IF s \notin created THEN Skip(m)
  ELSE /\ enterIds' = enterIds + 1
       /\ entered' = [entered EXCEPT ![s] = enterIds + 1]
       /\ Statements(s, draft.run, [draft.enter EXCEPT ![enterIds + 1] =
                                      [span |-> s, left |-> FALSE]])
       /\ UNCHANGED <<created, subs, busy, events, skipped>>

\* SpanLeave: the row of the enter, and the time spent in the span.
HandleLeave(m) ==
  LET s == m.span IN
  IF s \notin created \/ entered[s] = 0 THEN Skip(m)
  ELSE /\ entered' = [entered EXCEPT ![s] = 0]
       /\ busy' = [busy EXCEPT ![s] = @ + 1]
       /\ Statements(s, draft.run,
                     [draft.enter EXCEPT ![entered[s]] =
                        IF @ = NoEnter THEN @ ELSE [@ EXCEPT !.left = TRUE]])
       /\ UNCHANGED <<created, subs, enterIds, events, skipped>>

\* Event: a record and nothing else.
HandleEvent(m) ==
  /\ events' = events \cup {[asked |-> m.asked, span |-> m.span]}
  /\ UNCHANGED <<created, subs, entered, busy, enterIds, draft, batch, skipped>>

HandleMsg(m) ==
  CASE m.type = "Create" -> HandleCreate(m)
    [] m.type = "Close" -> HandleClose(m)
    [] m.type = "Record" -> HandleRecord(m)
    [] m.type = "Enter" -> HandleEnter(m)
    [] m.type = "Leave" -> HandleLeave(m)
    [] m.type = "Event" -> HandleEvent(m)

Handle ==
  /\ task = "running"
  /\ inbox # <<>>
  /\ HandleMsg(Head(inbox))
  /\ Taken
  /\ TaskStep

\* tracing_span_run.span_id references tracing_span, and the uuid of a "sid" is
\* never put there: a batch with the row of such a span fails.
BatchFails ==
  \E s \in born : app.kinds[s] = "uuid" /\ draft.run[s].made /\ ~rows.run[s].made

\* SqlBatchExecutor::execute: all the statements or none; a failure is logged.
Execute ==
  /\ task = "running"
  /\ batch # {}
  /\ rows' = IF BatchFails THEN rows ELSE draft
  /\ victims' = IF BatchFails THEN victims \cup batch ELSE victims
  /\ draft' = rows'
  /\ batch' = {}
  /\ UNCHANGED <<appVars, stopped, channel, client, lifeVars, inbox, task, created, subs,
                 entered, busy, enterIds, events, skipped, missed>>

\* The channel is closed and empty.  For the spans still there the task writes
\* statements, and returns without running them.
TaskEnds ==
  /\ task = "running"
  /\ lifetime \in {"normal", "exception"}
  /\ inbox = <<>>
  /\ batch = {}
  /\ task' = "finished"
  /\ UNCHANGED <<appVars, stopped, channel, client, lifeVars, inbox, created, subs, entered,
                 busy, enterIds, draft, batch, events, skipped, dbVars, missed>>

-----------------------------------------------------------------------------

Connection == ClientSends \/ ClientPutsStopAside \/ ClientStops
Task == Handle \/ Execute \/ TaskEnds

Next == Application \/ Connection \/ ConnectionBreaks \/ Task

\* The stream is polled and the task runs as long as there is something to do;
\* the application need not do anything.
Spec == Init /\ [][Next]_vars /\ WF_vars(Connection) /\ WF_vars(Task)

-----------------------------------------------------------------------------
(* Properties.                                                             *)

\* Every variable keeps to its type: the enter rows the task makes and the
\* enters it sums are as many as the application's at most.
TypeOK ==
  /\ app \in Apps
  /\ dead \subseteq born /\ born \subseteq Spans
  /\ regParent \in [Spans -> Spans \cup {NoSpan}]
  /\ tlParent \in [Spans -> Spans \cup {NoSpan}]
  /\ inside \in [Threads -> Seq(Open)]
  /\ notes \in 0..MaxNotes
  /\ field \in [Spans -> 0..MaxNotes]
  /\ enters \in 0..MaxEnters
  /\ stopped \in BOOLEAN
  /\ channel \in Seq(Msg \cup {AppStop})
  /\ client \in {"stream", "stopping", "ended"}
  /\ lifetime \in {"on", "normal", "exception", "panicked"}
  /\ running \subseteq born
  /\ refused \subseteq Msg
  /\ inbox \in Seq(Msg \cup [type : {"Event"}, asked : Spans \cup {NoSpan},
                             span : Spans \cup {NoSpan}])
  /\ task \in {"running", "finished"}
  /\ created \subseteq running
  /\ subs \in [Spans -> SUBSET created]
  /\ enterIds \in 0..enters
  /\ entered \in [Spans -> 0..enterIds]
  /\ busy \in [Spans -> 0..enterIds]
  /\ rows \in Rows /\ draft \in Rows
  /\ batch \subseteq Spans
  /\ events \subseteq [asked : Spans \cup {NoSpan}, span : Spans \cup {NoSpan}]
  /\ skipped \subseteq Msg
  /\ shared \subseteq Spans /\ victims \subseteq Spans
  /\ missed \subseteq Spans \cup {NoSpan}

\* The server never refuses what a well-behaved application records, whatever
\* spans its layer hides: the only error there is, is that of a field "sid"
\* that is no uuid (grpc_service.rs:234, 482).
OnlySidRefused ==
  \A m \in refused : m.type = "Create" /\ app.kinds[m.span] = "text"

\* Everything the server was sent is in the rows.
Settled == lifetime \in {"on", "normal"} /\ channel = <<>> /\ inbox = <<>> /\ batch = {}

EnterRows(s) == {e \in 1..MaxEnters : rows.enter[e].span = s}
LeftRows(s) == {e \in EnterRows(s) : rows.enter[e].left}

\* When all is handled the rows say what the application did: a row for each
\* span, closed if and only if the span is, with the last field recorded, its
\* enters left but for those that last, and their number summed; and after a
\* stop in good order this is so for all that was recorded before the request
\* stream ended.  Except where a batch failed or a span was entered by two
\* threads at a time.
RowsAgree ==
  Settled => \A s \in Spans \ (victims \cup missed) :
    LET row == rows.run[s] IN
    /\ row.made <=> s \in {b \in born : ~Hidden(b)}
    /\ row.closed <=> s \in {b \in dead : ~Hidden(b)}
    /\ row.made => row.field = field[s]
    /\ EnableEnter /\ row.made /\ s \notin shared =>
         /\ Cardinality(EnterRows(s) \ LeftRows(s)) =
              Cardinality({t \in Threads : s \in Inside(t)})
         /\ row.closed => row.busy = Cardinality(LeftRows(s))

\* The spans s is under in the layer's messages, s among them.
Above(s) ==
  {a \in Spans : \A S \in SUBSET Spans :
     (s \in S /\ \A c \in S : tlParent[c] # NoSpan => tlParent[c] \in S) => a \in S}

\* A span is marked as ended by exception only if it, or a span above it, was
\* declared a root inside another span: only there does a parent close before
\* its child.  So no span that lives under its parent is ever marked
\* (running_app.rs:431, 813), and a span open when its run ends is not either.
MarkedOnlyUnderRoots ==
  \A s \in Spans : draft.run[s].marked => \E a \in Above(s) : regParent[a] # tlParent[a]

\* The watchers miss no record of a span but a leave of one that two threads
\* were in: the task knows every span the connection let pass, and its event
\* names the span that the layer named unless that one is hidden.
OnlySharedSkipped ==
  /\ \A m \in skipped : m.type = "Leave" /\ m.span \in shared
  /\ \A e \in events : e.span = e.asked \/ (e.span = NoSpan /\ Hidden(e.asked))

\* A guard that stops is heard: the run's task ends, if the connection's task
\* did not panic on a field "sid" that is no text, which leaves the run's task
\* waiting for ever (client.rs:340, grpc_service.rs:116).
StopHandled == stopped ~> task = "finished" \/ lifetime = "panicked"
=============================================================================
