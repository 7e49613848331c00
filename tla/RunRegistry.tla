---------------------------- MODULE RunRegistry -----------------------------
(***************************************************************************)
(* The registry of running applications: RunningApps::handle_records of    *)
(* bins/server/src/running_app.rs, one task that handles the RunMsg        *)
(* messages one after the other, together with what sends them, the gRPC   *)
(* handler app_run of grpc_service.rs (one instance per connection) and    *)
(* the web handlers that subscribe to records.  A message stays at the     *)
(* head of the channel while the registry is at it.                        *)
(*                                                                         *)
(* A run connects once and, when its connection breaks, again.  Each       *)
(* connection brings its own channel and, once registered, its own task;   *)
(* RunPipeline models that task, here only its life and who holds a sender *)
(* of its channel matter.  What the client can see of the server's side of *)
(* an old connection when it opens the next is a parameter: Reconnects.    *)
(***************************************************************************)
EXTENDS Naturals, Sequences, FiniteSets

CONSTANTS
  Runs,          \* application runs (run_id)
  MaxConns,      \* MaxConns[r]: bound on the connections of r (model checking only)
  Watchers,      \* browsers that subscribe
  Pages,         \* those that do so by node_page_subscribe
  PageCap,       \* capacity of the channel to a node page
  Reconnects     \* when clients may reconnect: see MayReconnect

ASSUME ConstantsAssumption ==
  /\ MaxConns \in [Runs -> Nat]
  /\ Reconnects \subseteq {"settled", "closed", "overlap"}
  /\ Pages \subseteq Watchers /\ PageCap \in Nat \ {0}

Conns == UNION {{r} \X (1..MaxConns[r]) : r \in Runs}

VARIABLES
  reconnects,   \* the element of Reconnects that this behaviour follows
  conn,         \* conn[c]: the server's side of connection c
  msgs,         \* the channel of RunMsg values
  step,         \* how far the registry is with its head: "take", "tell" or "insert"
  entry,        \* entry[r]: the connection registered for r in running_apps, or 0
  task,         \* task[c]: the task of connection c
  awaiting,     \* the connections (at most one) whose task the registry awaits
  globals,      \* the runs in GLOBAL_DATA
  run,          \* run[r]: the row of app_run and how it says the run ended
  unsaved,      \* the runs whose stop could not be written to their row
  subscribed,   \* the watchers that subscribed
  attached,     \* attached[c]: the watchers forwarded to the task of c
  listeners,    \* the registry's event_service: watchers in order of subscription
  told,         \* how many of them were told of the message at the head
  waiting,      \* waiting[p]: how many events wait for node page p
  left          \* the node pages that were closed

connVars  == <<reconnects, conn, subscribed>>
entryVars == <<entry, awaiting, attached>>
rowVars   == <<run, unsaved>>
tellVars  == <<step, told, waiting>>
pageVars  == <<listeners, left>>
vars == <<reconnects, conn, msgs, entry, task, awaiting, globals, run, unsaved,
          subscribed, attached, step, told, waiting, listeners, left>>

AppRun(c) == [type |-> "AppRun", conn |-> c]
AppStop(c, how) == [type |-> "AppStop", conn |-> c, how |-> how]
AddRecordWatcher(w) == [type |-> "AddRecordWatcher", watcher |-> w]

Ends == {"normal", "exception"}
RunMsg == [type : {"AppRun"}, conn : Conns]
            \cup [type : {"AppStop"}, conn : Conns, how : Ends]
            \cup [type : {"AddRecordWatcher"}, watcher : Watchers]

Init ==
  /\ reconnects \in Reconnects
  /\ conn = [c \in Conns |-> "none"]
  /\ msgs = <<>>
  /\ entry = [r \in Runs |-> 0]
  /\ task = [c \in Conns |-> "none"]
  /\ awaiting = {}
  /\ globals = {}
  /\ run = [r \in Runs |-> "absent"]
  /\ unsaved = {}
  /\ subscribed = {}
  /\ attached = [c \in Conns |-> {}]
  /\ step = "take" /\ told = 0 /\ listeners = <<>>
  /\ waiting = [p \in Pages |-> 0] /\ left = {}

-----------------------------------------------------------------------------
(* The connections.                                                        *)

\* The ends of a connection of which the registry is not told.
Silent == {"refused", "panicked"}
Over == Ends \cup Silent

\* How many connections the run has opened.
Opened(r) == Cardinality({k \in 1..MaxConns[r] : conn[<<r, k>>] # "none"})

\* Some message of the run waits for the registry, or the registry for its task.
Pending(r) ==
  \/ \E i \in 1..Len(msgs) : msgs[i].type # "AddRecordWatcher" /\ msgs[i].conn[1] = r
  \/ \E c \in awaiting : c[1] = r

\* When a client whose k-th connection broke may open the next: at any time, as
\* the client can notice before the server does ("overlap"); only once the
\* server's task of the old connection is over ("closed"); or only once the
\* registry has also handled its AppStop ("settled").  A client that sent
\* AppStop does not come back.
MayReconnect(r, k) ==
  /\ conn[<<r, k>>] # "normal"
  /\ reconnects \in {"closed", "settled"} => conn[<<r, k>>] \in Over
  /\ reconnects = "settled" => ~Pending(r)

\* Mutant: GLOBAL_DATA is filled by the first connection only.
OpenOnceGlobal(r) ==
  LET k == Opened(r) + 1 IN
  /\ k <= MaxConns[r]
  /\ k > 1 => MayReconnect(r, k - 1)
  /\ globals' = IF k = 1 THEN globals \cup {r} ELSE globals
  /\ msgs' = Append(msgs, AppRun(<<r, k>>))
  /\ conn' = [conn EXCEPT ![<<r, k>>] = IF k = 1 THEN "open" ELSE "replying"]
  /\ UNCHANGED <<reconnects, subscribed, task, entryVars, rowVars, tellVars, pageVars>>

\* app_run up to its first await after AppRunLifetime::new: GLOBAL_DATA knows
\* the run and RunMsg::AppRun is sent.  A first connection goes on to spawn its
\* task at once; a reconnecting one has the last record index to query first.
Open(r) ==
  LET k == Opened(r) + 1 IN
  /\ k <= MaxConns[r]
  /\ k > 1 => MayReconnect(r, k - 1)
  /\ globals' = globals \cup {r}
  /\ msgs' = Append(msgs, AppRun(<<r, k>>))
  /\ conn' = [conn EXCEPT ![<<r, k>>] = IF k = 1 THEN "open" ELSE "replying"]
  /\ UNCHANGED <<reconnects, subscribed, task, entryVars, rowVars, tellVars, pageVars>>

\* The reconnect reply is sent and the connection's task spawned ...
Reply(c) ==
  /\ conn[c] = "replying"
  /\ conn' = [conn EXCEPT ![c] = "open"]
  /\ UNCHANGED <<reconnects, subscribed, msgs, task, globals, entryVars, rowVars, tellVars,
                 pageVars>>

\* ... or the query fails, or finds no record, or the client's going away cancels
\* the handler: the lifetime is dropped and no AppStop is ever sent.
Refuse(c) ==
  /\ conn[c] = "replying"
  /\ conn' = [conn EXCEPT ![c] = "refused"]
  /\ UNCHANGED <<reconnects, subscribed, msgs, task, globals, entryVars, rowVars, tellVars,
                 pageVars>>

\* The connection's task ends: with the client's AppStop, which only its latest
\* connection can carry, or because the stream breaks off, a record is refused
\* or the run's task is gone.  app_stop consumes the lifetime, and with it the
\* sender, before the AppStop is sent.
Close(c, how) ==
  /\ conn[c] = "open"
  /\ how = "normal" => c[2] = Opened(c[1])
  /\ conn' = [conn EXCEPT ![c] = how]
  /\ msgs' = Append(msgs, AppStop(c, how))
  /\ UNCHANGED <<reconnects, subscribed, task, globals, entryVars, rowVars, tellVars, pageVars>>

\* The connection's task panics at what it is sent, or at the end of app_stop: the
\* lifetime is dropped, and no AppStop is ever sent.
Panic(c) ==
  /\ conn[c] = "open"
  /\ conn' = [conn EXCEPT ![c] = "panicked"]
  /\ UNCHANGED <<reconnects, subscribed, msgs, task, globals, entryVars, rowVars, tellVars,
                 pageVars>>

\* A browser opens its event stream.
Subscribe(w) ==
  /\ w \notin subscribed
  /\ subscribed' = subscribed \cup {w}
  /\ msgs' = Append(msgs, AddRecordWatcher(w))
  /\ UNCHANGED <<reconnects, conn, task, globals, entryVars, rowVars, tellVars, pageVars>>
-----------------------------------------------------------------------------
(* The registry.                                                           *)

Registered(r) == entry[r] # 0

\* The next message, when the registry is done with the one before and its task.
Takes(type) ==
  /\ awaiting = {} /\ step = "take"
  /\ msgs # <<>> /\ Head(msgs).type = type

\* The message at the head is dealt with.
Done ==
  /\ msgs' = Tail(msgs)
  /\ step' = "take" /\ told' = 0

\* The rows of the run are written, or for a reconnecting run found; then the
\* subscribers are to be told.
HandleAppRun ==
  /\ Takes("AppRun")
  /\ LET c == Head(msgs).conn
     IN /\ c[2] > 1 => run[c[1]] # "absent"
        /\ run' = IF c[2] = 1 THEN [run EXCEPT ![c[1]] = "running"] ELSE run
  /\ step' = "tell"
  /\ UNCHANGED <<connVars, msgs, task, globals, entryVars, unsaved, told, waiting, pageVars>>

\* Mutant: the entry is put in although the rows were not written.
RejectAppRunRegistering ==
  /\ Takes("AppRun")
  /\ Done
  /\ task' = [task EXCEPT ![Head(msgs).conn] = "rejected"]
  /\ entry' = [entry EXCEPT ![Head(msgs).conn[1]] = Head(msgs).conn[2]]
  /\ UNCHANGED <<connVars, globals, awaiting, attached, rowVars, waiting, pageVars>>

\* A statement fails, or the reconnecting run has no row: the channel is
\* dropped with the message, and nothing is registered.
RejectAppRun ==
  /\ Takes("AppRun")
  /\ Done
  /\ task' = [task EXCEPT ![Head(msgs).conn] = "rejected"]
  /\ UNCHANGED <<connVars, globals, entryVars, rowVars, waiting, pageVars>>

\* The send to the subscriber waits: only a node page's channel has a bound.
Full(p) == p \in Pages \ left /\ waiting[p] = PageCap

\* EventService::notify: one subscriber after the other is told, and those that
\* are gone are passed over, as clear_disconnected would.
Tell ==
  /\ step = "tell" /\ told < Len(listeners)
  /\ LET p == listeners[told + 1] IN
     /\ ~Full(p)
     /\ waiting' = IF p \in Pages \ left THEN [waiting EXCEPT ![p] = @ + 1] ELSE waiting
  /\ told' = told + 1
  /\ UNCHANGED <<connVars, msgs, task, globals, entryVars, rowVars, step, pageVars>>

\* All are told of the message at the head.
AllTold(type) ==
  /\ step = "tell" /\ told = Len(listeners)
  /\ Head(msgs).type = type

\* After an AppRun the run's task is spawned, and runs at once ...
SpawnTask ==
  /\ AllTold("AppRun")
  /\ task' = [task EXCEPT ![Head(msgs).conn] = "running"]
  /\ step' = "insert"
  /\ UNCHANGED <<connVars, msgs, globals, entryVars, rowVars, told, waiting, pageVars>>

\* Mutant: the task of an entry that is replaced goes on.
ReplacedTask(d, c) == FALSE

\* The running task whose entry connection c takes over: dropping the entry
\* tells it to abort.
Replaced(d, c) ==
  /\ d[1] = c[1] /\ entry[d[1]] = d[2]
  /\ task[d] = "running"

\* ... before its entry is put in, which drops the one that is there.
InsertEntry ==
  /\ step = "insert"
  /\ Done
  /\ LET c == Head(msgs).conn
     IN /\ task' = [d \in Conns |-> IF Replaced(d, c) THEN "aborting" ELSE task[d]]
        /\ entry' = [entry EXCEPT ![c[1]] = c[2]]
  /\ UNCHANGED <<connVars, globals, awaiting, attached, rowVars, waiting, pageVars>>

\* Mutant: an entry is left in place when the stop could not be written.
RemoveEntryIfSaved(r) ==
  IF r \in unsaved' THEN UNCHANGED <<entry, awaiting>>
  ELSE /\ awaiting' = IF Registered(r) THEN {<<r, entry[r]>>} ELSE {}
       /\ entry' = [entry EXCEPT ![r] = 0]

\* Mutant: the task is awaited while the entry still holds a sender.
AwaitBeforeRemove(r) ==
  /\ awaiting' = IF Registered(r) THEN {<<r, entry[r]>>} ELSE {}
  /\ UNCHANGED entry

\* The entry of the run, whichever connection put it in, is removed, its sender
\* dropped and its task awaited.  Without an entry the message is done, and
\* GLOBAL_DATA keeps what it has.
RemoveEntry(r) ==
  /\ awaiting' = IF Registered(r) THEN {<<r, entry[r]>>} ELSE {}
  /\ entry' = [entry EXCEPT ![r] = 0]

\* Mutant: only the first stop of a run is written.
SaveFirstStop(r, how) ==
  /\ run[r] # "absent"
  /\ IF run[r] = "running" THEN /\ run' = [run EXCEPT ![r] = how]
                                /\ unsaved' = unsaved \ {r}
     ELSE UNCHANGED rowVars

\* The stop is written to the run's row, whatever the row says.
SaveStop(r, how) ==
  /\ run[r] # "absent"
  /\ run' = [run EXCEPT ![r] = how]
  /\ unsaved' = unsaved \ {r}

\* AppStop: the row is updated; then the subscribers are to be told ...
HandleAppStop ==
  /\ Takes("AppStop")
  /\ SaveStop(Head(msgs).conn[1], Head(msgs).how)
  /\ step' = "tell"
  /\ UNCHANGED <<connVars, msgs, task, globals, entryVars, told, waiting, pageVars>>

\* ... and after that the entry is removed.
StopTold ==
  /\ AllTold("AppStop")
  /\ Done
  /\ UNCHANGED <<connVars, task, globals, attached, rowVars, waiting, pageVars>>
  /\ RemoveEntry(Head(msgs).conn[1])

\* The statement fails, or finds no row: nobody is told, and the entry removed.
HandleAppStopUnsaved ==
  /\ Takes("AppStop")
  /\ Done
  /\ LET r == Head(msgs).conn[1] IN unsaved' = unsaved \cup {r} /\ RemoveEntry(r)
  /\ UNCHANGED <<connVars, task, globals, attached, run, waiting, pageVars>>

\* Mutant: GLOBAL_DATA is left alone when the task panicked or was aborted.
AwaitedFinished ==
  \E c \in awaiting :
    /\ task[c] # "running"
    /\ awaiting' = {}
    /\ globals' = IF task[c] = "finished" THEN globals \ {c[1]} ELSE globals
    /\ UNCHANGED <<connVars, msgs, task, entry, attached, rowVars, tellVars, pageVars>>

\* The awaited task is over, in whatever way.
Awaited ==
  \E c \in awaiting :
    /\ task[c] # "running"
    /\ awaiting' = {}
    /\ globals' = globals \ {c[1]}
    /\ UNCHANGED <<connVars, msgs, task, entry, attached, rowVars, tellVars, pageVars>>

\* The subscription goes to the tasks registered now, and to the registry's own.
HandleAddRecordWatcher ==
  /\ Takes("AddRecordWatcher")
  /\ Done
  /\ LET w == Head(msgs).watcher IN
     /\ attached' = [c \in Conns |->
                       IF entry[c[1]] = c[2] THEN attached[c] \cup {w} ELSE attached[c]]
     /\ listeners' = Append(listeners, w)
  /\ UNCHANGED <<connVars, task, globals, entry, awaiting, rowVars, waiting, left>>

\* A node page takes its next event, or is closed.
PageReads(p) ==
  /\ waiting[p] > 0
  /\ waiting' = [waiting EXCEPT ![p] = @ - 1]
  /\ UNCHANGED <<connVars, msgs, task, globals, entryVars, rowVars, step, told, pageVars>>

PageLeaves(p) ==
  /\ p \in subscribed \ left
  /\ left' = left \cup {p}
  /\ waiting' = [waiting EXCEPT ![p] = 0]
  /\ UNCHANGED <<connVars, msgs, task, globals, entryVars, rowVars, step, told, listeners>>
-----------------------------------------------------------------------------
(* The tasks of the runs (RunPipeline).                                    *)

\* The lifetime of the connection, its AppRun until it is dealt with, or the
\* registry's entry holds a sender.
HasSender(c) ==
  \/ conn[c] \in {"replying", "open"}
  \/ \E i \in 1..Len(msgs) : msgs[i].type = "AppRun" /\ msgs[i].conn = c
  \/ entry[c[1]] = c[2]

\* The task executes: one that is told to abort does so until its next await.
Executes(c) == task[c] \in {"running", "aborting"}

\* handle_records stores what is left and returns once no sender is left.
TaskFinishes(c) ==
  /\ Executes(c) /\ ~HasSender(c)
  /\ task' = [task EXCEPT ![c] = "finished"]
  /\ UNCHANGED <<connVars, msgs, globals, entryVars, rowVars, tellVars, pageVars>>

\* An insert fails and the task panics.
TaskFails(c) ==
  /\ Executes(c)
  /\ task' = [task EXCEPT ![c] = "failed"]
  /\ UNCHANGED <<connVars, msgs, globals, entryVars, rowVars, tellVars, pageVars>>

\* The task comes to an await after it was told to abort, and is dropped.
TaskAborts(c) ==
  /\ task[c] = "aborting"
  /\ task' = [task EXCEPT ![c] = "aborted"]
  /\ UNCHANGED <<connVars, msgs, globals, entryVars, rowVars, tellVars, pageVars>>

Registry ==
  \/ HandleAppRun \/ RejectAppRun \/ SpawnTask \/ InsertEntry
  \/ HandleAppStop \/ StopTold \/ HandleAppStopUnsaved \/ Awaited
  \/ Tell \/ HandleAddRecordWatcher

Next ==
  \/ Registry
  \/ \E r \in Runs : Open(r)
  \/ \E c \in Conns : \/ Reply(c) \/ Refuse(c) \/ Panic(c)
                      \/ TaskFinishes(c) \/ TaskFails(c) \/ TaskAborts(c)
                      \/ \E how \in Ends : Close(c, how)
  \/ \E w \in Watchers : Subscribe(w)
  \/ \E p \in Pages : PageReads(p) \/ PageLeaves(p)

Spec == Init /\ [][Next]_vars

\* The registry's task and the runs' tasks are polled for ever.  Nothing is
\* assumed of the clients and the node pages.
FairSpec == Spec /\ WF_vars(Registry) /\ \A c \in Conns : WF_vars(TaskFinishes(c))
-----------------------------------------------------------------------------
Live(c) == conn[c] \in {"replying", "open"}

\* Nothing of the run is under way.
Rests(r) ==
  /\ \A k \in 1..MaxConns[r] : ~Live(<<r, k>>)
  /\ msgs = <<>> /\ awaiting = {}

\* The task of c was spawned, and its entry is not yet put in.
Inserts(c) == step = "insert" /\ Head(msgs).conn = c

\* The variables keep to their types; connections open in order, the registry
\* awaits one task at most, it tells of an AppRun or AppStop and inserts for an
\* AppRun, and the task of an entry has been started and was neither told to
\* abort nor found finished.
TypeOK ==
  /\ reconnects \in Reconnects
  /\ conn \in [Conns -> {"none", "replying", "open"} \cup Over]
  /\ \A c \in Conns : conn[c] # "none" <=> c[2] <= Opened(c[1])
  /\ msgs \in Seq(RunMsg)
  /\ \A r \in Runs : entry[r] \in 0..MaxConns[r]
  /\ task \in [Conns -> {"none", "running", "finished", "failed", "aborting", "aborted", "rejected"}]
  /\ \A r \in Runs : Registered(r) => task[<<r, entry[r]>>] \in {"running", "failed"}
  /\ awaiting \subseteq Conns /\ Cardinality(awaiting) <= 1
  /\ globals \subseteq Runs
  /\ run \in [Runs -> {"absent", "running"} \cup Ends]
  /\ unsaved \subseteq Runs
  /\ subscribed \subseteq Watchers
  /\ attached \in [Conns -> SUBSET Watchers]
  /\ step \in {"take", "tell", "insert"}
  /\ step = "tell" => msgs # <<>> /\ Head(msgs).type \in {"AppRun", "AppStop"}
  /\ step = "insert" => msgs # <<>> /\ Head(msgs).type = "AppRun"
  /\ listeners \in Seq(Watchers) /\ told \in 0..Len(listeners)
  /\ waiting \in [Pages -> 0..PageCap] /\ left \subseteq Pages

\* However the connections of a run overlap, a task that executes beside that of a
\* later connection was told to abort, or is about to be: the registry has spawned
\* the later one and not put it in yet (running_app.rs:324-336).  And if clients
\* come back only after the server's side of the old connection is over, no task
\* executes beside a later one unless its connection was refused or panicked.
OneTaskPerRun ==
  \A c, d \in Conns :
    c[1] = d[1] /\ c[2] < d[2] /\ Executes(c) /\ Executes(d) =>
      /\ task[c] = "aborting" \/ Inserts(d)
      /\ reconnects # "overlap" => conn[c] \in Silent

\* When clients come back only after the server's side of the old connection
\* is over, a task is aborted, and the records it has buffered lost with it,
\* only if its connection was refused after it had been registered, or its
\* connection's task panicked: then no AppStop told the registry.
NothingDiscarded ==
  reconnects # "overlap" =>
    \A c \in Conns : task[c] \in {"aborting", "aborted"} => conn[c] \in Silent

\* When nothing of a run is under way, GLOBAL_DATA has let go of it, unless a
\* connection of the run was refused, panicked or could not be registered: those
\* are the paths on which app_run and the registry end without removing it.
GlobalsReleased ==
  \A r \in Runs :
    Rests(r) /\ r \in globals =>
      \E k \in 1..MaxConns[r] : conn[<<r, k>>] \in Silent \/ task[<<r, k>>] = "rejected"

\* While a connection lives GLOBAL_DATA knows the clock of its run, when clients
\* come back only after the registry has dealt with the old connection: the
\* time of an exceptional end is computed from it.
LiveRunsAreGlobal ==
  reconnects = "settled" => \A c \in Conns : Live(c) => c[1] \in globals

\* How the last connection of the run that ended did end.
LastEnd(r) ==
  LET ended == {k \in 1..MaxConns[r] : conn[<<r, k>>] \in Ends}
  IN conn[<<r, CHOOSE k \in ended : \A j \in ended : j <= k>>]

\* When nothing of a run is under way, its row tells how its last connection
\* that sent an AppStop ended, not how one before it did, unless the row could
\* not be written.
RowTellsLastEnd ==
  \A r \in Runs :
    reconnects # "overlap" /\ Rests(r) /\ run[r] # "absent" /\ r \notin unsaved =>
      \/ \A k \in 1..MaxConns[r] : conn[<<r, k>>] \notin Ends
      \/ run[r] = LastEnd(r)

\* The registry works off its messages, whatever becomes of the tasks it awaits.
\* It can be held up in two ways: by a node page that stays open and does not
\* read what it is told (web_service.rs:163), and, when connections overlap, by
\* the task that it awaits of a connection that lives on.
EveryMessageHandled ==
  \/ []<>(msgs = <<>> /\ awaiting = {})
  \/ <>[](step = "tell" /\ told < Len(listeners) /\ Full(listeners[told + 1]))
  \/ reconnects = "overlap" /\ <>[](\E c \in awaiting : Live(c))
=============================================================================
