# tracing-live in TLA+

tracing-live collects what Rust applications record with `tracing`. A client
library inside the application sends spans and events over gRPC to a server,
which stores them in PostgreSQL and shows them, also live, in a browser. This
directory holds TLA+ models of the parts whose correctness depends on the order
of things: what is buffered, who holds which channel, what a crash or a broken
connection leaves behind. TLC checks them on small instances and TLAPS proves the
theorems about the record pipeline, the registry, the spans of a run, its recovery, the
client with reconnection and its file, and the page that shows the records, for all values
of the constants.

## The system

    application threads
      TLLayer            an index per record, then the subscriber     crates/core
        |  channel
      client             direct, or through a file with reconnection  libs/client
        |  gRPC stream AppRun, reply ReconnectReply
      app_run            one handler and one task per connection      grpc_service.rs
        |  RunMsg (AppRun, AppStop)       |  AppRunMsg (Record)
      RunningApps        the registry     |                           running_app.rs
        |  spawns, forwards watchers      |
      RunningApp         one task per registered connection           running_app.rs
        |  batch insert                   |  EventService::notify
      PostgreSQL                        browsers (SSE)                web_service.rs

| Component | State it keeps | Operations | What makes it correct | Model |
|---|---|---|---|---|
| Run pipeline, `RunningApp::handle_records` | two record buffers, a delay, the insert statement, notifications, live watchers | receive, time out, flush, notify, swap, end | every record sent is stored once and in order; a watcher sees exactly its records; the task ends | `RunPipeline`, `RunLog` |
| Registry, `RunningApps::handle_records` | one entry (sender and task) per run | AppRun, AppStop, AddRecordWatcher | one task per run, but for one that is told to abort; nothing kept for ever; the registry is not held up | `RunRegistry` |
| Connection, `app_run` | lifetime (sender, running spans), the reply channel | open, reply, receive, end | registers, ends exactly once, in every way it can end | `RunRegistry`, `RunPipeline` |
| `GLOBAL_DATA` | clock offset of each connected run | add, get, remove | knows the runs that live and only those | `RunRegistry` |
| Record file, `RecordsPersistenceToFile` | header, blocks, instances, a dictionary | init, reset, write_frames, iter_from | what was written is read back, in order, after a crash as well | `RecordFile` |
| Reconnecting client | writer and reader task, message queue, reconnect channel | write, read back, reconnect, close | each record reaches the server once, also across reconnections | `ReconnectClient` |
| `TLGuard` | the flag that it has stopped | normal_stop, drop | AppStop is sent once, the client's end awaited | `ReconnectClient` |
| Tracing layer, `TLLayer` | a record index | a message per callback of `tracing` | messages of a span in order, with its parent | `SpanRuns`, `RecordFile` |
| Direct client, `tracing_msg_subscriber` | one channel | send, stop | AppStop is the last message and arrives | `SpanRuns` |
| Span bookkeeping, `AppRunLifetime::record` and the arms of `RunningApp::handle_records` | running spans, created spans, a batch of statements | create, record, enter, leave, close | rows of spans and enters agree with what was recorded | `SpanRuns` |
| Startup recovery, `TracingService::init` | rows of runs left open | mark at once, mark after 12 s | a dead run gets an end, a good stop stands | `RunRecovery` |
| Record ids, span definitions, running spans of a run that comes back | a counter, a table, a cache | next, find or insert, load | ids are unique, one row per definition, rows name their records | `RunRecovery` |
| Record filter (SQL and live) | none | list_records, filter | both select the same records | `RecordFilter` |
| Web subscription and the page it feeds | a listing, a subscription, a window of rows | list, subscribe, fetch, append | every record is shown once, or within reach | `RecordView` |
| Web endpoints, settings, related events, value conversion, instrumented futures, rendering, examples | none that outlives a request, or generated | | | not modelled |

What is hard to test in this code, at its lines, is the list "hazards" of
`PROJECT.json`.

## Modules

`RunLog` is the abstract specification of the records of a run: they are
accepted one by one, stored in that order in bounded batches, and a run that ends
in good order has them all.

`RunPipeline` is the task of a run. A record is its place in the order in which it was
sent to the task's channel. `fill` and `flush` are the program counters of
`future_1` and `future_2`, which run interleaved at their awaits; `buf1` and `buf2`
are `buf_records_1` and `buf_records_2`; `senders` says who still holds a sender of
the channel (the connection's lifetime, the registry's entry), as the channel is
closed when nobody does. The actions:

| Action | Code |
|---|---|
| `Send`, `LifetimeEnds` | grpc_service.rs 882-943 |
| `ForwardWatcher`, `RegistryDrops`, `Abort` | running_app.rs 392-410, 378-385, 200-206 |
| `RecvFirst`, `RecvEof`, `RecvMore`, `StopFilling` | future_1, running_app.rs 572-610, with `pre_handle_msg` 525-546 |
| `PrepareFlush`, `InsertRows`, `InsertFails`, `Notify` | future_2, running_app.rs 611-1034; tracing_service.rs 74-98; event_service.rs 24-44 |
| `Swap` | running_app.rs 1036-1046 |

The stretch of future_2 without an await is one action. The statements on spans run
beside the insert and their failure is only logged, so they are left out; what
remains of spans is `Orphan`, the records that hit one of the `continue`s and are
stored but not forwarded. A browser's channel is taken to be unbounded, which that of
`records_subscribe` is.

`RunRegistry` is the registry with the connections that feed it. `conn[c]` is the
server's side of a connection, `entry[r]` the connection registered for a run,
`task[c]` the life of the task that `RunPipeline` models in full, `awaiting` the
task the registry stands waiting for. `Open` is app_run to its first await after the
lifetime was made, `Reply` and `Refuse` the two ways on for a reconnecting client,
`Close` and `Panic` the ends of the connection's task, with and without an AppStop. The
registry stops at its awaits, so an arm of `handle_records` is several actions, between
which its message stays at the head of `msgs` and `step` says how far it is:

| Arm | Actions | Code, in running_app.rs unless named |
|---|---|---|
| AppRun | `HandleAppRun` (the rows) or `RejectAppRun`, `Tell`, `SpawnTask`, `InsertEntry` | 227-344 |
| AppStop | `HandleAppStop` (the row), `Tell`, `StopTold`, or `HandleAppStopUnsaved`; `Awaited` | 345-391 |
| AddRecordWatcher | `HandleAddRecordWatcher` | 392-412 |

`Tell` is one turn of `EventService::notify` (event_service.rs 29-45); it waits for a node
page (`PageReads`, `PageLeaves`) whose channel is full. A task is spawned before its entry
is put in, which drops the entry of the connection before and tells the task of that
one to abort: the two execute side by side until the older one comes to an await
(`"aborting"`, `TaskAborts`). What the model cannot know is how early a client comes back after its
connection broke: the constant `Reconnects` holds the cases, and each behaviour
follows one of them ("overlap": the server has not noticed yet; "closed": the old
connection's task is over; "settled": the registry has handled its AppStop as well).

`RecordFile` is the client's file. A header is modelled with what can be reached
from it, so what was written without a later header write is not in the file, and how
far a frame or a footer was written makes no difference. The header is written in four
places, each a state of its own (`HeaderWrites`): by `init` (`Start`, `Opened`), twice where
the file is begun anew with a dictionary (`MakeDictionary`, `Reset`,
`DictionaryWritten`), and at the end of a batch (`UpdateHeader`, `EndWrite`). It is written
field by field over the one before, so `Crash`, which may come between any two writes, may
in these states leave it torn. What is read from a torn header is not modelled: such a file
is taken for lost and not opened again. `Arriving` is the order in which records reach the writer: each of `Threads`
threads takes an index and sends the record later.

`ReconnectClient` is the client that keeps its records in that file, over an
abstract form of it: one thread records, so the file holds `1..last`, and `ReadFrom`
says what reading from a record gives, as far as `RecordFile`'s `ReadsBack` promises
it, and where the assertion of `iter_from` fails. A record is its `record_index`.

| State | Actions | Code, in reconnect_and_persistence.rs unless named |
|---|---|---|
| `recorded`, `stopAt` | `OnMsg`, `NormalStop` | the application; client.rs 63-91 |
| `writer`, `batch`, `last`, `toWriter` | `WriterRecv`, `WriterCollect`, `WriterWrite` | the writer task |
| `reader`, `toSend`, `recordMsgs` | `ReaderNewRecord`, `ReaderReConnect` and `ReaderAwaits`, `ReaderSend`, `ReaderClose` to `ReaderEnds` | the reader task |
| `stream`, `msgs` | `StreamRecv`, `StreamClose`, `StreamDrain` | the request stream and the queue it takes from |
| `main`, `reconnects`, `replySender`, `answers` | `MainServed` to `MainRestart` | the loop around the calls |
| `server`, `wire`, `replies`, `received` | `ServerFirst`, `ServerReplies`, `ServerServes`, `ServerGivesUp` | app_run of grpc_service.rs, as the client sees it |
| `conn`, `breaks` | `Break` | the network (not in the repository) |

Each task stops at its awaits and nowhere else, with one exception: what `send_msgs`
puts into the queue under the file's lock is put there record by record, as the
request stream runs on another thread. A ReConnect that the reader waits for stays
at the head of `recordMsgs` in the model; in the code it has been taken, and its
receiver lives as long. A Close that the reader has not taken when an assertion fails in it
stays in `recordMsgs`, and with it the oneshot that the request stream waits for, so
`StreamDrain` asks that the Close was taken (`CloseAnswered`). A request stream is polled by tonic only while its connection
stands and has room (`Window`); a broken connection loses what is on it.

`SpanRuns` follows the spans of a run from the threads of the application to the rows of
the database. The record pipeline's order is taken from `RunPipeline`, so a queue of
messages is enough between the connection and the task.

| State | Actions | Code |
|---|---|---|
| `born`, `dead`, `regParent`, `tlParent`, `inside` | `NewSpan`, `RecordField`, `RecordEvent`, `Enter`, `Exit`, `Close` | the callbacks of `TLLayer`, tracing_layer.rs 225-352; when a span closes is the Registry's matter (`regParent`, not in the repository) |
| `stopped`, `channel`, `client` | `OnMsg`, `Stop`, `ClientSends`, `ClientPutsStopAside`, `ClientStops` | `MsgReceiverSubscriber` (tonic.rs), `TLGuard` and `tracing_msg_subscriber` (client.rs) |
| `lifetime`, `running`, `refused` | `LifetimeCreate`, `LifetimeEvent`, `LifetimeOther`, `ConnectionBreaks` | `AppRunLifetime`, grpc_service.rs 262-668 |
| `created`, `subs`, `entered`, `busy`, `draft`, `batch` | `HandleCreate` to `HandleEvent`, `TaskEnds` | the arms of `handle_records`, running_app.rs 729-1012, and what follows the loop |
| `rows` | `Execute` | `SqlBatchExecutor::execute`, all statements of a batch or none |

Two parents are kept per span, as the two sides disagree: a span declared a root inside
another one has no parent in the Registry, which may therefore close that other one
first, and has it for parent in the layer's message. `Below` is what
`set_exception_end_for_sub_spans` comes to by recursion, stated as a least set.

`RunRecovery` is the database with what comes and goes around it. Of a run's task it
keeps that a record and the statement on its span are two transactions (`StoreRecord`,
`RunStatement`), of the registry the order of one run's connections, of the client
the script of what it records and where it resumes.

| State | Actions | Code |
|---|---|---|
| `alive`, `link`, `next` | `Connect`, `Record`, `Stop`, `Break` | a client, and app_run as it serves it (grpc_service.rs 310-370, 882-955) |
| `conns`, `cached`, `looking` | `Reply`, `Drop`, `LookUp`, `LookUpInserts`, `Notice` | grpc_service.rs 372-387, 671-772, 853-955; tracing_service.rs 963-974, 1577-1608 |
| `registry`, `appRun` | `HandleAppRun`, `HandleAppStop`, `NextConnection` | running_app.rs 227-391 |
| `records`, `spanRuns` | `Take`, `StoreRecord`, `RunStatement` | running_app.rs 728-864, tracing_service.rs 74-178 |
| `nextId` | `Crash` | lib.rs 32-43, tracing_service.rs 625-628 |
| `init`, `found`, `toMark`, `marked` | `InitFinds` to `InitMarksSpans` | tracing_service.rs 610-751 |

It assumes that a client comes back only after the server has noticed the end of its
connection, that all spans of an application have one key, and that a client whose
call was dropped before it was answered does not come back (that is `ReconnectClient`'s
finding `FirstIsAppStart`). The server's own run has no network.

`RecordFilter` is the record filter, which the code has twice: `SqlSelects` is the
select of `list_records`, `LiveSelects` is `TracingRecordVariant::filter`. They agree
on what a tree of a run asks for (`FiltersAgree` in `MCRecordView`, over bounded filters and records), and
not elsewhere:

* a search is ignored live;
* in the database, one level alone excludes records without a level, several do not;
* the bounds of a time are strict in the database and inclusive live;
* of several targets the database wants any, the live filter all;
* an empty list of runs, nodes or builds selects nothing live and everything in the
  database, which does not look at nodes and builds if there is a run;
* what a record lacks (a span, a target, a level) is not held against it live.

`RecordView` puts the two together: a page lists records, subscribes, and fetches pages
before and after its window of `2 * Count` rows.

| State | Actions | Code |
|---|---|---|
| `channel`, `filling`, `joining`, `batch`, `did`, `told` | `RunRecords`, `Receive`, `Swap`, `InsertRows`, `UpdateSpans`, `Notify` | the run's task (as `RunPipeline` has it), running_app.rs 569-1046 |
| `registry`, `telling`, `page` | `OtherStarts`, `HandleAppRun`, `TellPage`, `TellView`, `HandleAddRecordWatcher`, `PageReads`, `PageLeaves` | the registry's own event service, running_app.rs 227-316, 392-412; event_service.rs; `node_page_subscribe` |
| `request`, `source` | `ServeList`, `ServeLookUp`, `SubscribeList`, `Subscribe` | `list_tree_records` (two queries, one after the other), `records_subscribe` |
| `shown`, `isEnd`, `noOlder` | `FirstArrives`, `FetchMore`, `MoreArrives`, `FetchOlder`, `OlderArrives`, `EventAppends`, `EventChanges` | use_records_live.ts 44-253 |

The view keeps one filter, its run does not end, and its event stream does not break. A listing
without a cursor is ordered by the records' times and cut there (`LastPages`, the rows of one
time in any order), one with a cursor goes by id (`PageAfter`, `PageBefore`). The layer takes
a record's time before its index (tracing_layer.rs 253-295), so with several threads a record
of an earlier time may have a later id. Its constants are what a page asks for and a run sends:
`IsPageFilter` is what `recordsRequest` makes (use_records_live.ts 52-87), but for the lists of
builds and nodes, which events heed and the listings of a run do not; `IsRunRecord` and
`ClosesSpan` say that a record has a time, one of a span or an event a level, that 0 is the id of no
span, and that a close comes after its span, with its level and parent
(grpc_service.rs 209-250, 507-514).

`RunPipelineProofs`, `RunRegistryProofs`, `RunReconnectProofs`, `SpanRunsProofs`,
`RunRecoveryProofs`, `ReconnectClientProofs`, `RecordFileProofs` and `RecordViewProofs` hold
the theorems. `MC...` modules give the constants values.

A definition that follows a comment "Mutant:" is a plausible slip in the definition
below it. No specification uses it; putting it in that definition's place breaks
the property `PROJECT.json` names, which shows that the property depends on the code.

## Runs

| Run | Instance | Shows |
|---|---|---|
| `run_pipeline` | 3 records, one orphan, 2 watchers with different filters, a buffer full at 2 | type, order and completeness of rows, live feeds, no record left in memory, the task ends, watchers let in, `RunLog` implemented |
| `run_pipeline_bind` | 4 records, 23 parameters at 8 a row | a full buffer makes too large a statement (finding) |
| `run_registry` | a run of two connections, a node page that holds one event, another browser, all three kinds of reconnection | types, which tasks execute side by side, nothing discarded, `GLOBAL_DATA`, the run's row, when the registry is held up |
| `record_file` | blocks of 3, records to 7, two runs, two threads | reading back, and what stays through kills and later runs |
| `record_file_read` | the same, one thread | reading from a middle block fails an assertion (finding) |
| `record_file_order` | the same, two threads | a record of a closed block fails an assertion (finding) |
| `reconnect_client` | four records in blocks of two; two connections break | no gap and nothing lost while a connection stands, the two unwraps of the client, its end |
| `reconnect_client_start` | the same | a call begins without AppStart (finding) |
| `reconnect_client_resume` | the same, one block, one message on the wire | a reply names a later record than was stored (finding) |
| `span_runs` | two threads; three spans, or two and two enters, or fields and events, or a hidden span or one with a field `sid` | what the rows say when all is handled, what is refused, marked or kept from watchers, and that a stop is heard |
| `run_recovery` | an application that connects twice with a crash; one beside the server's own run with a crash; two runs of one application | record ids, records stored twice, which row names which record, which runs are marked or stay open, span definitions |
| `record_view` | up to four records of a run, also out of the order of their times, or two other applications that start, five filters, a window of two, a node page that holds one event | each record shown once and in order, six races by which a record or a close is missed and no other, when a subscription is let in |

Why the bounds are enough. Two full buffers and a rest need three records when a
buffer is full at two; that is one batch being filled, one being stored, and one
stored. Two watchers are needed for one to be let in while the other is served. A
run must connect twice for its connections to meet. The registry keeps what it knows of runs
apart, and what they share is the queue: what the registry's wait for one run costs the others,
the messages of the second connection and of the browsers suffer too. The theorems cover any
number of runs; liveness is checked for one. One node page that
holds one event is full while the AppStop of the run is to be told. Blocks of three records make
three blocks of seven: the first, which is rewritten, one in the middle, and the
current one; two runs make the file one that was closed and reopened. The client's four records
make a full first block, a second one and the beginning of a third, as reading is different in
the first, a middle and the current block; that is needed while a connection
stands. Two connections break where one record is made, so that a ReConnect can meet
another; one where two are. A window of two lets AppStart and a record be lost
together. The id of a row is ahead of its record's index by one at least, as
AppStart's row has an id too; by more where other runs or nodes store rows.

In `span_runs` three spans are a parent, a child and a span between or below; two enters
are needed for one span with two threads inside. The numbers do not come together (see
`MCSpanRuns`): enters need no third span, and fields neither. In `run_recovery` a run must
connect twice for one connection to meet the rows of another; one crash lies before,
in or after the marking of another start, and a span, an event and its close can
be cut between any two. Two runs are needed for two look-ups to cross. In
`record_view` a window of two with pages of one is left on both sides by four records, and one
of them with an earlier time than the one before it falls out of reach of a listing by time. Without
any one of the six races in the property TLC finds it violated, so all six happen in this instance.

Fairness. The pipeline and the registry run on tokio tasks that are polled for as long
as they can go on, and their timers fire: each step of a task is weakly fair. The
database answers, one way or the other (an insert that fails instead is always
possible). In these models nothing is assumed of clients, browsers or the network. In
`ReconnectClient` the tasks of the client and the server's handler are weakly fair, and so
is what a standing network delivers, for the same reasons; nothing is assumed of
the application, of how often the network breaks or of whether the server gives up.
In `SpanRuns` the request stream is polled and the run's task runs; in `RunRecovery` the
server's tasks do, and clients may stay away for ever; in `RecordView` run task,
registry and the server's answers are fair, and a first answer arrives, while nothing is assumed of
the user, the node page or the other applications.

Where the system may stop, `CHECK_DEADLOCK FALSE` says so: a server whose clients have
all gone, a file nobody opens again. The pipeline has an explicit action for rest
and is checked for deadlock.

## What the violations show

* `BindParamsFit`: `pre_handle_msg` counts a buffer as full one record later than
  main.rs computed, so with the default setting 4096 rows of 8 parameters exceed
  32767.
* `LaterBlocksAreNext`: `blocks_from` walks to the first block of the run unless the wanted
  one is the current one, and `iter_from` then asserts that the blocks are numbered from
  the wanted one.
* `NextBlockAtMost`: records of two threads can change places at a block boundary,
  which `write_frames` takes to be impossible; its caller holds a Mutex.
* `FirstIsAppStart`: when a call fails the loop calls again without a new AppStart; if the
  failed call's stream had taken the AppStart from the queue, the server's handler
  panics at the message that comes first in its place.
* `ReconnectResumes`: the reply to a client that comes back carries the id of a row where
  the client expects a record index. Ids are ahead of indices, so records are skipped.

`ClientEnds` names three cases in which the client does not end. `StopLost`: AppStop was in the
emptied queue or on a connection that broke, and nobody sends it again. `Starved`: a call
waits for an AppStart that another call took along, or that is behind AppStop in the queue;
the stream then keeps AppStop back until the reader closes, the reader waits for
a reply and the server for AppStart. `CloseUnheard`: an assertion failed in the reader before it
took the Close, and the stream waits for the answer to it.

Properties that hold with an exception name it, and the exception is real. `OneTaskPerRun`: a
task that was told to abort, or is about to be, executes beside the one that takes over, until
its next await. `NothingDiscarded` and `GlobalsReleased`: a connection that was refused after
its AppRun was sent, or whose task panicked, sends no AppStop, so its task stays until another
connection replaces it, and `GLOBAL_DATA` keeps the run; as it does when the AppRun could not be
written. `EveryMessageHandled`: the registry waits for a full node page that stays open and does
not read, and for the task of a connection that lives on. `CommittedStays`: a kill in the middle
of a header may lose the file. `StoredOnce`: a run
that came back while an older task of it held records is told a number from before them
and sends them again. `DefinitionOnce`: two look-ups of one key that cross insert it
twice. `RowNamesItsRecord`: a crash between a batch of statements and the records
leaves rows without their record, or without their close. `GoodStopStands`: a run that
stops between the look of `init` that found it open and its mark is marked though it stopped well; any other run
that was marked while it lived is set right by its stop. `DeadRunsEnd`: a call dropped
before it was answered leaves a row open as long as the server runs. `OnlySidRefused` and `StopHandled`: the
field `sid` ends a connection, or its task with no AppStop sent. `RowsAgree`: with a
`sid` that is a uuid a whole batch of statements is lost, as the uuid is not put into `tracing_span`;
and of a span that two threads are in, one enter's row is never left.
`MarkedOnlyUnderRoots`: a root declared inside another span is marked as ended by exception when that one closes.
`ShownOnce`: the registry subscribes a view with the default filter, so an AppStart of any run is appended to it;
a record that a listing brought comes again when its event does; and an event knows nothing of a
search, so a record that the search would leave out is appended, and may come after later ones
that were listed; and two records that are not in the order of their times may stand in either order.
`MissedOnlyByRaces` names six:

1. a record stored after the listing and before the run's task lets the subscription in;
2. an event that arrives while the last records are on their way, which they lack;
3. a record that leaves the window while older ones are on their way;
4. a record told before it is stored, when records after it are listed in between;
5. a close that is heard before a listing brings its span, still open;
6. a record of an earlier time and a later id than another: the first listing goes by time and
   leaves it out, or shows it between rows, and no cursor, which goes by id, comes back to it.

What the loop of the task does after its end, writing statements for the spans still
created (running_app.rs 1068-1081), is never executed; `TaskEnds` has it as no change.

## Proofs

`RunPipelineProofs` proves, from `ConstantsAssumption` alone:

* `TypeCorrect`: `Spec => []TypeOK`.
* `Invariance`: `Spec => []IInv`. `StoredInOrder` is not inductive: what is stored next
  is in the statement, before that in a buffer, in the other buffer, in the channel. The
  invariant says that these five, in this order, are consecutive stretches
  of the order of sending, that a flush under way has emptied its buffer, and what
  the end of the channel implies for both. Each step hands a stretch to its
  neighbour (the lemmas `Follows...` and `Carries...`).
* `RowsInOrder`, `FinishedComplete`: `StoredInOrder` and `NothingLost` from it.
* `Refinement`: the specification implies `RunLog`'s, with `InsertRows` as `Store`, the last `Swap` as
  `Finish`, failure and abort as `Break`, and everything else as a stutter.

The same module goes on from that invariant to the watchers:

* `FeedInvariance`: `Spec => []FInv`. A watcher is in one place at a time: its request
  waits in the channel, is set aside, or is served (`WhereInv`). What the loop is about to
  tell (`dtos`) is the last stretch of the rows stored and in the statement, so that all
  before it has been told (`DtosInv`), and a watcher served has got the records from its
  request up to that one (`FeedInv`).
* `FeedIsComplete`: `FeedComplete` from it.

`RunRegistryProofs` proves, again from `ConstantsAssumption` alone, for any runs, any
number of connections of each and every choice of `Reconnects`:

* `TypeCorrect`: `Spec => []TypeOK`.
* `Invariance`: `Spec => []IInv`. `MsgInv`: the AppRun of a connection is in the channel
  once at most, and while it is the connection has no task, or the registry is putting it
  in. `TaskInv`: a task that runs and was not told to abort is registered, awaited or about
  to be put in, and a run is not registered and awaited at once; it is inductive only with
  `MsgInv`, or a connection could be handled twice and its running task orphaned.
  `GlobalsInv`: a run that `GLOBAL_DATA` knows is awaited, or an AppStop in the
  channel will find it registered (an AppRun before it, or the entry there is), or a
  connection of it lives and it is or will be registered; else one was refused, panicked or was
  rejected. The lemmas `WaitingAppend` and `WaitingTail` say what a message sent or
  handled does to what waits.
* `GlobalsLetGo`: `GlobalsReleased` from it.

`RunReconnectProofs` goes on from that invariant, for clients that come back when the
server's side of the old connection is over (`Reconnects` "closed" or "settled"):

* `ReconnectInvariance`: `Spec => []RInv`. The AppRuns of a run wait in the order of its
  connections (`InTurn`), the AppStop of a connection that ended waits before the AppRun
  of a later one (`StopsInTurn`), and only the latest connection lives (`LatestLives`).
  When the registry has dealt with the old connection as well, nothing waits that
  would end a run that lives (`Unthreatened`).
* `DiscardsNothing`: `NothingDiscarded` from it: a connection that another replaces
  has not ended with an AppStop, which would have come first, and does not live, so it was refused
  or its task panicked.
* `OneTask`: `OneTaskPerRun` from it, for all clients. The tasks of a run begin in the order of its
  connections (`TasksInTurn`), so the one that is registered or about to be is the latest,
  and what executes beside it was told to abort.
* `LiveRunsKnown`: `LiveRunsAreGlobal` from it.
* `EndsInvariance`, `RowsTell`: `Spec => []LInv` and `RowTellsLastEnd` from it. The AppStop
  of the last connection that ended waits, or the row tells that end (`RowInv`): each
  AppStop is written when it is handled, and the last is handled last.

`SpanRunsProofs` proves, from `ConstantsAssumption` alone, for any threads, spans and
applications:

* `Invariance`: `Spec => []IInv`. What messages tell of the spans is a view: which are
  created, closed and entered, the last field of each, the number of enters. There are
  three of them: what the task was told, what the connection took and what the application
  sent. The messages in the task's channel lead from the first to the second, those in the
  client's from the second to the third (`Run`), and each fits the view before it (`Fits`):
  a creation comes once and before all else said of its span, a close last, and after that
  of each span that the Registry and the layer both have it as the parent of; between, a
  span that one thread at a time is in is entered and left in turn. The first view is the
  task's lists of spans and enters (`TaskInv`) and its rows (`ToldInv`), the second the
  running spans of the connection (`TakenInv`), the third what the application did
  (`SentInv`), except for spans of which a message was lost. So a message that enters a
  channel is checked against the application, one that leaves it against what it
  finds, and nothing is said of the messages between but that they are a run: the lemmas
  `RunAppend` and `RunTail` say that a run stays one at both ends, `RunGrown` that it stays one
  while the application goes on, and `Untouched` that messages of other spans say
  nothing of a span, which is how a connection that breaks loses only what it names.
* `TypeCorrect`: `TypeOK` from it. The task knows only spans that the connection knows, and an
  enter row is one that the application's enters allow for.
* `NothingElseRefused`, `WatchersMissOnlyShared`: `OnlySidRefused` and `OnlySharedSkipped`: a
  message that fits finds its span.
* `MarksOnlyUnderRoots`: `MarkedOnlyUnderRoots`. The walk of
  `set_exception_end_for_sub_spans` stays within the spans that are a root inside another
  span or under one (`BelowIsRooted`): that set is closed under the lists of sub-spans, and the
  walk's is the least such. It never comes back to the span it started from
  (`BelowIsYounger`): a span is younger than its parent.
* `RowsSayWhatHappened`: `RowsAgree`. When the channels and the batch are empty the three views
  are one, and the rows are its record. `RowsInv` says what a batch may change, so that a
  batch that fails leaves the rows of all other spans as they were told.

`RunRecoveryProofs` proves, from `ConstantsAssumption` alone, for any runs, connections,
crashes and records:

* `Invariance`: `Spec => []IInv`. The invariant follows a record from the connection that
  numbers it, through the channel and its task, to the database. `Order`: the registry
  deals with the connections of a run in turn, and only the latest is used. `IdsInv`:
  an id in use belongs to one record, which is stored or held by one connection; it
  stands on the generator being above all of them while the server runs, and on a crash
  leaving of them only what is stored, which the next start looks at. `IndexInv`: an id
  is above its record's index, and the ids of a connection are above those of the
  connections before it, so the number a client that comes back is told is never
  below what was stored. `OnceInv`: of a run that is not behind no record in hand is
  stored, and only one connection has any. `RowsInv`, `NamesInv`: the row of a span is
  claimed by one connection, which has the records that the row lacks, or a crash
  tore it. `MarksInv`: what is known of a run when the registry has dealt with its
  AppStop. `DefsInv`: definitions and look-ups under way are counted against the
  look-ups that crossed.
* `TypeCorrect`, `RecordIdsHold`, `StoredOnceHolds`, `RowNamesItsRecordHolds`,
  `GoodStopStandsHolds`, `DefinitionOnceHolds`: all safety properties of the run `run_recovery`
  from it.

`ReconnectClientProofs` proves, from `ConstantsAssumption` alone, for any size of a block and
of the wire's window, any number of records and of broken connections:

* `Invariance`: `Spec => []IInv`. `WriterInv`: batch and channel have what the file lacks, in
  order, and the writer is told to end only behind the records until the stop.
  `StartInv`: of an AppStart there is one, in the queue or on the wire, and from the ReConnect
  to the reply the main loop holds a reconnect_sender; a failed call keeps both, which
  is why the unwrap never fails though a call may begin without AppStart.
  `StopInv`: AppStop is in the queue, or the request stream keeps it back, or the reader
  has Close, or is done with it. `FirstInv` is about the first connection: `Chain`
  says that each record on the wire, in the queue or in what the reader has read is
  behind all those before it, which the server has or which are ahead of it
  (`Follow`; records come twice, and what is read last may start again from an earlier one);
  `Told` that what is written and not sent is known to the reader, unless its reading
  will fail (`Doomed`); `Drained` and `StopIsLast` that AppStop goes behind all that. Each
  step moves a record from one of these places to the next (the lemmas `Chain...`); what
  one reading adds is `ReadFromIs`, which needs the first, a middle and the current block
  told apart.
* `TypeCorrect`, `NoGapsHold`, `StopIsComplete`, `ReplyFindsItsSender`,
  `CloseFindsItsReader`: all safety properties of the run `reconnect_client` from it.

`RecordFileProofs` proves, from `ConstantsAssumption` alone, for any size of a block, number
of threads (below the size of a block), records and runs of one file:

* `Invariance`: `Spec => []IInv`. `Holds`: each record of the run is in the block and at
  the place that its index gives, the current block is that of the last record, and
  before there is a dictionary there is no other; it is said of the file when no
  write is in progress and else of the header in memory, and of a torn header nothing. `Follows`: a write in progress goes
  on from the file as to the runs before. `Committed`: what was written for good is of
  runs until now. That the file is begun anew with a block that is not empty
  (`FullBlockIs`; the new header's last place would not exist) rests on `Threads` being below
  the size of a block: no record of the second block can come first.
* `TypeCorrect`, `CommittedStaysHolds` from it.
* `ReadsBackHolds`: `ReadsBack` from it. The i-th of a set of numbers is the one with i - 1 of
  them below it, so a sequence that has the numbers of a set in ascending order is
  `Ordered` of it (`OrderedUnique`, `OrderedIs`, by counting ranks); what is read of one
  block is such a sequence, and those of the blocks, each beyond the ones before, put one
  after another are one again (`EnumeratesConcat`, `FlattenIs`). The recursive function in
  `FlattenSeq` is shown to be this one by its first difference from it.

`RecordViewProofs` proves, from `CountAssumption`, `CasesAssumption` and `StartAssumption`, for
every filter of a page, script of the run, number of other starts, window and capacity:

* `FiltersOfPageAgree`: of what an event appends, the live filter lets through what the
  listing selects but for the search. Levels, parents and kinds are tested by two pieces of code
  in different ways (`SqlSelects`, `LiveSelects`) that disagree for filters no page makes.
* `ViewTyped`: `Spec => []TypeOK` (types, the window's bound, the registry's and the listing's
  phases), which no run lists.
* `ViewInvariant`: `Spec => [](InTime => Inv)`, where `InTime` says that the records the view is to
  show came in the order of their times, as those of one thread do. A step never makes that true
  again (`InTimeBefore`), so the invariant may assume it. Neither property is inductive: that nothing
  is missing when all is quiet rests on where each record is before. `LogInv` and `TaskInv` follow the
  records through the task (stored, batch, buffer, channel, in this order), `PhaseInv` says
  what a listing and a subscription under way leave alone. `StreamInv`: events come in order and
  only of what was not listed before; once the view is watched, what is neither seen nor
  heard nor lost is in the stream or not yet told. `ListInv`: the rows under way are all
  that is selected up to the last of them, from the cursor or from where the page was cut.
  `OrderInv`: what is shown rises but for what a listing brought early, and only what is early
  is yet to come as an event. `GapInv`: a record that is not shown is beyond a button that
  works, still to come, or gone (`EdgeGap`, `HoleGap`, `HeardGap`), and while a page is on its
  way what it will close is known (`OlderGap`, `MoreGap`). `CloseInv`: no row shown, listed or
  in the stream says that a span runs whose close was taken into account.
* `ShowsOnceInOrder`: `Spec => [](InTime => ShownOnce)` from `OrderInv`.
* `MissesOnlyByRaces`: `Spec => [](InTime => MissedOnlyByRaces)` from `GapInv` and `CloseInv`: the
  first five races are all there are for such records. That of records out of the order of their
  times only those themselves are missed by the sixth is model-checked.

The attempt corrected the model twice. `ShownOnce` had no exemption for what a search would
leave out: an order of steps with a search set breaks it, which TLC then found as well. And
`shifted`, which notes what left the window while older records were on their way, has to
count rows: a record shown twice may leave with one of its rows and stay with the other.

That the bounds fall as records are made (`MaxBreaks`, in `ConstantsAssumption`) says how the
runs are bounded, and a bound that is the same for all records satisfies it.

Sets of natural numbers have a least element (`MinIs`, `MaxIs`, from the library's well-founded
induction), which stands in for induction where a proof needs it: the largest record the
server has, the largest record index of a run, the first end in a batch.

Model-checked only: the liveness properties and `ENABLED`, which are out of the prover's reach, and
`ShownOnce` and `MissedOnlyByRaces` for records that are not in the order of their times. Every other
invariant and action property that a passing run checks is proved.

## Not modelled

* Web endpoints, the settings and the mapping of errors: each is one request and
  one answer, with at most a row behind it.
* Related events: FIELD_DATA_IS_CONTAINS_RELATED is looked for in the fields of records and
  never put there, so the listings never have any.
* Conversion of values, the wire format and generated code: without state. A message is
  its kind, its span and its parent; a record what the filters ask of it.
* Instrumented futures and streams, the panic hook: they make tracing events around a
  poll and keep nothing after it.
* Of the frontend, everything but the store of records: rendering, and the generated
  client of the interface.
* Examples.
* What a torn header of the record file is read as: its fields may be of two writes, and what they
  point to is read as a footer, a block or a dictionary all the same.
* Times, but for the order of a page's first listing. Clock offsets are kept and sent as they come; the stop time that `init` sets
  is that of the last record of any of the runs it found (tracing_service.rs 643-650,
  679-687), which `RunRecovery`'s marks do not tell apart.
* Queries by field and the statistics: reads whose answer is computed by the database.
* The kind DataUpdate, which is written "DATE_UPDATE" and read "DATA_UPDATE" (record.rs 54,
  73): the server makes no such record, nor any update of data for the browser.
* The `record_id` that a close is given for its span's page, which is the
  record's index (running_app.rs 740, 857): the pages do not look at it.

## Plan

Done: `RunPipeline`, `RunRegistry`, `RunRecovery`, `SpanRuns`, `ReconnectClient`, `RecordFile`
and `RecordView`, all of whose safety properties are proved; `RecordFilter`.

Left:

1. The order of arrival that `RecordFile` has, put before `ReconnectClient`'s writer:
   NewRecord carries the index of the first record of a batch, not of its least one
   (reconnect_and_persistence.rs 103).
2. An abstract `Delivery`, exactly once and in order, which client, reply and pipeline
   would implement if the reply told a record's index.
