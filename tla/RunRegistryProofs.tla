------------------------- MODULE RunRegistryProofs --------------------------
(***************************************************************************)
(* What RunRegistry keeps for any number of runs, connections and browsers *)
(* and for every assumption on when clients come back.                     *)
(*                                                                         *)
(* The inductive invariant has three parts beside the types: a connection  *)
(* whose AppRun waits for the registry has no task yet, or it was spawned  *)
(* and is about to be put in (MsgInv); a task that runs and was not told   *)
(* to abort is registered, awaited or about to be put in (TaskInv); and a  *)
(* run that GLOBAL_DATA knows has something under way that will remove it, *)
(* unless a connection of it was refused, panicked or was rejected         *)
(* (GlobalsInv).                                                           *)
(***************************************************************************)
EXTENDS RunRegistry, TLAPS, FiniteSetTheorems, SequenceTheorems

ConnStates == {"none", "replying", "open"} \cup Over
TaskStates == {"none", "running", "finished", "failed", "aborting", "aborted", "rejected"}

Typed ==
  /\ reconnects \in Reconnects
  /\ conn \in [Conns -> ConnStates]
  /\ msgs \in Seq(RunMsg)
  /\ entry \in [Runs -> Nat] /\ \A r \in Runs : entry[r] <= MaxConns[r]
  /\ task \in [Conns -> TaskStates]
  /\ awaiting \subseteq Conns
  /\ \A c, d \in awaiting : c = d
  /\ globals \subseteq Runs
  /\ run \in [Runs -> {"absent", "running"} \cup Ends]
  /\ unsaved \subseteq Runs
  /\ subscribed \subseteq Watchers
  /\ attached \in [Conns -> SUBSET Watchers]
  /\ step \in {"take", "tell", "insert"}
  /\ listeners \in Seq(Watchers) /\ told \in Nat /\ told <= Len(listeners)
  /\ waiting \in [Pages -> 0..PageCap] /\ left \subseteq Pages

\* The registry is at the message at the head, and awaits no task.
StepInv ==
  /\ step # "take" => msgs # <<>> /\ awaiting = {}
  /\ step = "tell" => Head(msgs).type \in {"AppRun", "AppStop"}
  /\ step = "insert" => Head(msgs).type = "AppRun"

\* The connections of a run are opened one after the other.
InOrder ==
  \A r \in Runs : \A k \in 1..MaxConns[r] : conn[<<r, k>>] # "none" <=> k <= Opened(r)

AppRunAt(i, r)  == msgs[i].type = "AppRun" /\ msgs[i].conn[1] = r
AppStopAt(i, r) == msgs[i].type = "AppStop" /\ msgs[i].conn[1] = r

\* The AppRun of a connection is sent once, and its task starts when it is handled.
MsgInv ==
  /\ \A i \in 1..Len(msgs) : msgs[i].type = "AppRun" =>
       /\ conn[msgs[i].conn] # "none"
       /\ task[msgs[i].conn] = "none" \/ Inserts(msgs[i].conn)
  /\ \A i, j \in 1..Len(msgs) :
       msgs[i].type = "AppRun" /\ msgs[j].type = "AppRun" /\ msgs[i].conn = msgs[j].conn => i = j
  /\ \A c \in Conns : conn[c] = "none" => task[c] = "none"

\* A task that runs is registered, awaited or about to be put in, of which a
\* connection is one only, and a run is not registered and awaited at once.
TaskInv ==
  /\ \A r \in Runs : Registered(r) => task[<<r, entry[r]>>] \in {"running", "failed"}
  /\ \A c \in Conns : task[c] = "running" => entry[c[1]] = c[2] \/ c \in awaiting \/ Inserts(c)
  /\ \A c \in awaiting : entry[c[1]] = 0
  /\ \A c \in Conns : Inserts(c) => task[c] \in {"running", "failed"} /\ entry[c[1]] # c[2]

Spoiled(r) ==
  \E k \in 1..MaxConns[r] : conn[<<r, k>>] \in Silent \/ task[<<r, k>>] = "rejected"
Awaits(r)  == \E c \in awaiting : c[1] = r
HasLive(r) == \E k \in 1..MaxConns[r] : Live(<<r, k>>)

\* The run is registered, or will be when its message is handled.
Coming(r) == Registered(r) \/ \E j \in 1..Len(msgs) : AppRunAt(j, r)

\* An AppStop of the run will be handled, and will find the run registered.
Stopping(r) ==
  \E i \in 1..Len(msgs) :
    AppStopAt(i, r) /\ (Registered(r) \/ \E j \in 1..i - 1 : AppRunAt(j, r))

GlobalsInv ==
  \A r \in globals :
    Spoiled(r) \/ Awaits(r) \/ Stopping(r) \/ (HasLive(r) /\ Coming(r))

IInv == Typed /\ StepInv /\ InOrder /\ MsgInv /\ TaskInv /\ GlobalsInv

-----------------------------------------------------------------------------
\* A connection is a run and the number of one of its connections.
LEMMA ConnsAre ==
  /\ \A c \in Conns : c[1] \in Runs /\ c[2] \in 1..MaxConns[c[1]] /\ c = <<c[1], c[2]>>
  /\ \A r \in Runs : \A k \in 1..MaxConns[r] : <<r, k>> \in Conns
  BY DEF Conns

LEMMA MaxConnsType == \A r \in Runs : MaxConns[r] \in Nat
  BY ConstantsAssumption

LEMMA PagesType == Pages \subseteq Watchers /\ PageCap \in Nat \ {0}
  BY ConstantsAssumption

\* What each kind of message carries.
LEMMA MessageKinds ==
  ASSUME NEW m \in RunMsg
  PROVE  \/ m.type = "AppRun" /\ m.conn \in Conns
         \/ m.type = "AppStop" /\ m.conn \in Conns /\ m.how \in Ends
         \/ m.type = "AddRecordWatcher" /\ m.watcher \in Watchers
  BY DEF RunMsg

LEMMA MessagesAre ==
  /\ \A c \in Conns : AppRun(c) \in RunMsg /\ AppRun(c).type = "AppRun" /\ AppRun(c).conn = c
  /\ \A c \in Conns, how \in Ends :
       /\ AppStop(c, how) \in RunMsg
       /\ AppStop(c, how).type = "AppStop" /\ AppStop(c, how).conn = c
  /\ \A w \in Watchers : /\ AddRecordWatcher(w) \in RunMsg
                          /\ AddRecordWatcher(w).type = "AddRecordWatcher"
  BY DEF RunMsg, AppRun, AppStop, AddRecordWatcher

\* The message at the head and the messages that are left.
LEMMA QueueTail ==
  ASSUME NEW q \in Seq(RunMsg), q # <<>>
  PROVE  /\ Head(q) \in RunMsg /\ Head(q) = q[1]
         /\ Tail(q) \in Seq(RunMsg)
         /\ Len(q) \in Nat \ {0} /\ Len(Tail(q)) = Len(q) - 1
         /\ \A i \in 1..Len(Tail(q)) : Tail(q)[i] = q[i + 1] /\ i + 1 \in 2..Len(q)
         /\ \A i \in 2..Len(q) : Tail(q)[i - 1] = q[i] /\ i - 1 \in 1..Len(Tail(q))
  BY HeadTailProperties, EmptySeq

LEMMA QueueAppend ==
  ASSUME NEW q \in Seq(RunMsg), NEW m \in RunMsg
  PROVE  /\ Append(q, m) \in Seq(RunMsg)
         /\ Len(q) \in Nat /\ Len(Append(q, m)) = Len(q) + 1
         /\ \A i \in 1..Len(q) : Append(q, m)[i] = q[i] /\ i \in 1..Len(q) + 1
         /\ Append(q, m)[Len(q) + 1] = m
         /\ \A i \in 1..Len(q) + 1 : i \in 1..Len(q) \/ i = Len(q) + 1
         /\ q # <<>> => Append(q, m) # <<>> /\ Head(Append(q, m)) = Head(q)
  BY AppendProperties, LenProperties, HeadTailProperties, EmptySeq

LEMMA MessageAt ==
  ASSUME NEW q \in Seq(RunMsg), NEW i \in 1..Len(q)
  PROVE  q[i] \in RunMsg
  BY ElementOfSeq

-----------------------------------------------------------------------------
LEMMA InitInv == Init => IInv
<1> SUFFICES ASSUME Init PROVE IInv
  OBVIOUS
<1>1. Typed
  BY MaxConnsType, PagesType, EmptySeq DEF Init, Typed, ConnStates, TaskStates, Over, Ends
<1>s. StepInv
  BY DEF Init, StepInv
<1>2. InOrder
  <2> SUFFICES ASSUME NEW r \in Runs, NEW k \in 1..MaxConns[r]
               PROVE  conn[<<r, k>>] # "none" <=> k <= Opened(r)
    BY DEF InOrder
  <2>1. {j \in 1..MaxConns[r] : conn[<<r, j>>] # "none"} = {}
    BY ConnsAre DEF Init
  <2>2. Opened(r) = 0
    BY <2>1, FS_EmptySet DEF Opened
  <2> QED BY <2>2, ConnsAre, MaxConnsType DEF Init
<1>3. MsgInv
  BY EmptySeq DEF Init, MsgInv
<1>4. TaskInv
  BY DEF Init, TaskInv, Registered, Inserts
<1>5. GlobalsInv
  BY DEF Init, GlobalsInv
<1> QED BY <1>1, <1>s, <1>2, <1>3, <1>4, <1>5 DEF IInv

-----------------------------------------------------------------------------
(* What the steps do to the variables that the invariant is about.         *)

\* The registry is at a message and not done with it ...
Begins == HandleAppRun \/ HandleAppStop \/ Tell

\* ... or done with an AppStop, written or not.
Removes == StopTold \/ HandleAppStopUnsaved

PageSteps == \E p \in Pages : PageReads(p) \/ PageLeaves(p)

LEMMA BeginsDoes ==
  ASSUME StepInv, Begins
  PROVE  /\ UNCHANGED <<reconnects, conn, subscribed, msgs, task, globals, entry, awaiting, attached,
                        listeners, left>>
         /\ step \in {"take", "tell"} /\ step' = "tell"
         /\ msgs # <<>> /\ awaiting = {} /\ Head(msgs).type \in {"AppRun", "AppStop"}
<1>1. CASE HandleAppRun \/ HandleAppStop
  BY <1>1 DEF HandleAppRun, HandleAppStop, Takes, connVars, entryVars, pageVars
<1>2. CASE Tell
  BY <1>2 DEF Tell, StepInv, connVars, entryVars, pageVars
<1> QED BY <1>1, <1>2 DEF Begins

LEMMA RemovesDoes ==
  ASSUME StepInv, Removes
  PROVE  /\ UNCHANGED <<reconnects, conn, subscribed, task, globals, attached, waiting, listeners,
                        left>>
         /\ msgs # <<>> /\ Head(msgs).type = "AppStop" /\ awaiting = {} /\ step # "insert"
         /\ msgs' = Tail(msgs) /\ step' = "take" /\ told' = 0
         /\ LET r == Head(msgs).conn[1] IN
            /\ awaiting' = IF Registered(r) THEN {<<r, entry[r]>>} ELSE {}
            /\ entry' = [entry EXCEPT ![r] = 0]
<1>1. CASE StopTold
  BY <1>1 DEF StopTold, AllTold, Done, RemoveEntry, StepInv, connVars, pageVars
<1>2. CASE HandleAppStopUnsaved
  BY <1>2 DEF HandleAppStopUnsaved, Takes, Done, RemoveEntry, connVars, pageVars
<1> QED BY <1>1, <1>2 DEF Removes

LEMMA PageStepsDo ==
  ASSUME PageSteps
  PROVE  UNCHANGED <<reconnects, conn, subscribed, msgs, task, globals, entry, awaiting, attached,
                     run, unsaved, step, told, listeners>>
  BY DEF PageSteps, PageReads, PageLeaves, connVars, entryVars, rowVars, pageVars

LEMMA SpawnTaskDoes ==
  ASSUME Typed, StepInv, SpawnTask
  PROVE  /\ UNCHANGED <<reconnects, conn, subscribed, msgs, globals, entry, awaiting, attached,
                        listeners, left>>
         /\ step = "tell" /\ step' = "insert" /\ msgs # <<>> /\ awaiting = {}
         /\ Head(msgs).type = "AppRun" /\ Head(msgs).conn \in Conns
         /\ task' = [task EXCEPT ![Head(msgs).conn] = "running"]
<1>1. msgs # <<>> /\ awaiting = {} /\ step = "tell" /\ Head(msgs).type = "AppRun"
  BY DEF SpawnTask, AllTold, StepInv
<1>2. Head(msgs).conn \in Conns
  BY <1>1, QueueTail, MessageKinds DEF Typed
<1> QED BY <1>1, <1>2 DEF SpawnTask, connVars, entryVars, pageVars

LEMMA InsertEntryDoes ==
  ASSUME Typed, StepInv, InsertEntry
  PROVE  LET c == Head(msgs).conn IN
         /\ UNCHANGED <<reconnects, conn, subscribed, globals, awaiting, attached, listeners, left>>
         /\ step = "insert" /\ step' = "take" /\ msgs # <<>> /\ awaiting = {}
         /\ Head(msgs).type = "AppRun" /\ c \in Conns /\ msgs' = Tail(msgs)
         /\ task' = [d \in Conns |-> IF Replaced(d, c) THEN "aborting" ELSE task[d]]
         /\ entry' = [entry EXCEPT ![c[1]] = c[2]]
<1>1. msgs # <<>> /\ awaiting = {} /\ step = "insert" /\ Head(msgs).type = "AppRun"
  BY DEF InsertEntry, StepInv
<1>2. Head(msgs).conn \in Conns
  BY <1>1, QueueTail, MessageKinds DEF Typed
<1> QED BY <1>1, <1>2 DEF InsertEntry, Done, connVars, pageVars

LEMMA RejectAppRunDoes ==
  ASSUME Typed, RejectAppRun
  PROVE  LET c == Head(msgs).conn IN
         /\ UNCHANGED <<reconnects, conn, subscribed, globals, entry, awaiting, attached, run, unsaved,
                        listeners, left>>
         /\ step = "take" /\ step' = "take" /\ msgs # <<>> /\ awaiting = {}
         /\ Head(msgs).type = "AppRun" /\ c \in Conns /\ msgs' = Tail(msgs)
         /\ task' = [task EXCEPT ![c] = "rejected"]
<1>1. msgs # <<>> /\ awaiting = {} /\ step = "take" /\ Head(msgs).type = "AppRun"
  BY DEF RejectAppRun, Takes
<1>2. Head(msgs).conn \in Conns
  BY <1>1, QueueTail, MessageKinds DEF Typed
<1> QED
  BY <1>1, <1>2 DEF RejectAppRun, Done, connVars, entryVars, rowVars, pageVars

LEMMA AddWatcherDoes ==
  ASSUME Typed, HandleAddRecordWatcher
  PROVE  /\ UNCHANGED <<reconnects, conn, subscribed, globals, entry, task, awaiting, run, unsaved>>
         /\ step = "take" /\ step' = "take" /\ msgs # <<>> /\ awaiting = {}
         /\ Head(msgs).type = "AddRecordWatcher" /\ Head(msgs).watcher \in Watchers
         /\ msgs' = Tail(msgs)
<1>1. /\ msgs # <<>> /\ awaiting = {} /\ step = "take"
      /\ Head(msgs).type = "AddRecordWatcher"
  BY DEF HandleAddRecordWatcher, Takes
<1>2. Head(msgs).watcher \in Watchers
  BY <1>1, QueueTail, MessageKinds DEF Typed
<1> QED BY <1>1, <1>2 DEF HandleAddRecordWatcher, Done, connVars, rowVars

\* The steps of the tasks.
TaskSteps == \E c \in Conns : TaskFinishes(c) \/ TaskFails(c) \/ TaskAborts(c)

LEMMA TaskStepsDo ==
  ASSUME NEW c \in Conns, TaskFinishes(c) \/ TaskFails(c) \/ TaskAborts(c)
  PROVE  /\ UNCHANGED <<reconnects, conn, subscribed, msgs, globals, entry, awaiting, attached, run,
                        unsaved, step, told, waiting, listeners, left>>
         /\ Executes(c)
         /\ \E state \in {"finished", "failed", "aborted"} : task' = [task EXCEPT ![c] = state]
  BY DEF TaskFinishes, TaskFails, TaskAborts, Executes, connVars, entryVars, rowVars, tellVars,
         pageVars

\* The steps of a connection after it opened that send nothing.
LEMMA ConnStepsDo ==
  ASSUME NEW c \in Conns, Reply(c) \/ Refuse(c) \/ Panic(c)
  PROVE  /\ UNCHANGED <<reconnects, subscribed, msgs, task, globals, entry, awaiting, attached, run,
                        unsaved, step, told, waiting, listeners, left>>
         /\ \/ conn[c] = "replying" /\ conn' = [conn EXCEPT ![c] = "open"]
            \/ /\ Live(c)
               /\ \E end \in Silent : conn' = [conn EXCEPT ![c] = end]
  BY DEF Reply, Refuse, Panic, Live, Silent, entryVars, rowVars, tellVars, pageVars

\* The steps that send.
LEMMA SendingSteps ==
  /\ \A r \in Runs : Open(r) =>
       /\ UNCHANGED <<reconnects, subscribed, task, entry, awaiting, attached, run, unsaved, step, told,
                      waiting, listeners, left>>
       /\ msgs' = Append(msgs, AppRun(<<r, Opened(r) + 1>>))
       /\ globals' = globals \cup {r}
  /\ \A c \in Conns, how \in Ends : Close(c, how) =>
       /\ UNCHANGED <<reconnects, subscribed, task, globals, entry, awaiting, attached, run, unsaved,
                      step, told, waiting, listeners, left>>
       /\ msgs' = Append(msgs, AppStop(c, how))
       /\ conn[c] = "open" /\ conn' = [conn EXCEPT ![c] = how]
  /\ \A w \in Watchers : Subscribe(w) =>
       /\ UNCHANGED <<reconnects, conn, task, globals, entry, awaiting, attached, run, unsaved, step,
                      told, waiting, listeners, left>>
       /\ msgs' = Append(msgs, AddRecordWatcher(w))
       /\ subscribed' = subscribed \cup {w}
  BY DEF Open, Close, Subscribe, entryVars, rowVars, tellVars, pageVars

\* The kinds of steps.
LEMMA NextIs ==
  ASSUME [Next]_vars
  PROVE  \/ UNCHANGED vars
         \/ Begins \/ SpawnTask \/ InsertEntry \/ RejectAppRun \/ Removes \/ Awaited
         \/ HandleAddRecordWatcher
         \/ \E r \in Runs : Open(r)
         \/ \E c \in Conns : Reply(c) \/ Refuse(c) \/ Panic(c)
         \/ \E c \in Conns : TaskFinishes(c) \/ TaskFails(c) \/ TaskAborts(c)
         \/ \E c \in Conns, how \in Ends : Close(c, how)
         \/ \E w \in Watchers : Subscribe(w)
         \/ PageSteps
  BY DEF Next, Registry, Begins, Removes, PageSteps

-----------------------------------------------------------------------------
(* Each part of the invariant is kept by every step.                       *)

\* The connection that opens next.
LEMMA NextConn ==
  ASSUME NEW r \in Runs, Opened(r) + 1 <= MaxConns[r], InOrder
  PROVE  /\ Opened(r) \in Nat
         /\ Opened(r) + 1 \in 1..MaxConns[r]
         /\ <<r, Opened(r) + 1>> \in Conns
         /\ conn[<<r, Opened(r) + 1>>] = "none"
<1> DEFINE S == {k \in 1..MaxConns[r] : conn[<<r, k>>] # "none"}
<1>1. MaxConns[r] \in Nat
  BY MaxConnsType
<1>2. IsFiniteSet(S)
  <2>1. IsFiniteSet(1..MaxConns[r])
    BY <1>1, FS_Interval
  <2> QED BY <2>1, FS_Subset, S \subseteq 1..MaxConns[r]
<1>3. Opened(r) \in Nat
  BY <1>2, FS_CardinalityType DEF Opened
<1>4. Opened(r) + 1 \in 1..MaxConns[r]
  BY <1>1, <1>3
<1>5. <<r, Opened(r) + 1>> \in Conns
  BY <1>4, ConnsAre
<1>6. conn[<<r, Opened(r) + 1>>] # "none" <=> Opened(r) + 1 <= Opened(r)
  BY <1>4 DEF InOrder
<1> QED BY <1>3, <1>4, <1>5, <1>6

LEMMA TypedStep == IInv /\ [Next]_vars => Typed'
<1> SUFFICES ASSUME IInv, [Next]_vars PROVE Typed'
  OBVIOUS
<1> USE DEF Typed, ConnStates, TaskStates, Over, Ends, Silent
<1>t. Typed /\ StepInv
  BY DEF IInv
<1>m. ASSUME msgs # <<>>
      PROVE  /\ Head(msgs) \in RunMsg /\ Tail(msgs) \in Seq(RunMsg)
             /\ Head(msgs).type = "AppStop" => Head(msgs).how \in Ends
             /\ Head(msgs).type \in {"AppRun", "AppStop"} =>
                  /\ Head(msgs).conn \in Conns
                  /\ Head(msgs).conn[1] \in Runs /\ Head(msgs).conn[2] \in Nat
                  /\ Head(msgs).conn[2] <= MaxConns[Head(msgs).conn[1]]
  <2>1. Head(msgs) \in RunMsg /\ Tail(msgs) \in Seq(RunMsg)
    BY <1>t, <1>m, QueueTail
  <2>2. /\ Head(msgs).type = "AppStop" => Head(msgs).how \in Ends
        /\ Head(msgs).type \in {"AppRun", "AppStop"} => Head(msgs).conn \in Conns
    BY <2>1, MessageKinds
  <2> QED BY <2>1, <2>2, ConnsAre
<1>1. CASE UNCHANGED vars
  BY <1>1, <1>t DEF vars
<1>2. ASSUME NEW r \in Runs, Open(r) PROVE Typed'
  <2> DEFINE c == <<r, Opened(r) + 1>>
  <2>1. c \in Conns
    BY <1>2, NextConn DEF Open, IInv
  <2>2. msgs' \in Seq(RunMsg)
    BY <1>2, <1>t, <2>1, MessagesAre, QueueAppend DEF Open
  <2>3. conn' \in [Conns -> ConnStates]
    BY <1>2, <1>t, <2>1 DEF Open
  <2>4. globals' \subseteq Runs
    BY <1>2, <1>t DEF Open
  <2> QED BY <1>2, <1>t, <2>2, <2>3, <2>4, SendingSteps
<1>3. ASSUME NEW c \in Conns, Reply(c) \/ Refuse(c) \/ Panic(c) PROVE Typed'
  <2>1. conn' \in [Conns -> ConnStates]
    BY <1>3, <1>t, ConnStepsDo
  <2> QED BY <1>3, <1>t, <2>1, ConnStepsDo
<1>4. ASSUME NEW c \in Conns, NEW how \in Ends, Close(c, how) PROVE Typed'
  <2>1. msgs' \in Seq(RunMsg)
    BY <1>4, <1>t, MessagesAre, QueueAppend DEF Close
  <2>2. conn' \in [Conns -> ConnStates]
    BY <1>4, <1>t, SendingSteps
  <2> QED BY <1>4, <1>t, <2>1, <2>2, SendingSteps
<1>5. ASSUME NEW w \in Watchers, Subscribe(w) PROVE Typed'
  <2>1. msgs' \in Seq(RunMsg)
    BY <1>5, <1>t, MessagesAre, QueueAppend DEF Subscribe
  <2> QED BY <1>5, <1>t, <2>1, SendingSteps
<1>6. ASSUME NEW c \in Conns, TaskFinishes(c) \/ TaskFails(c) \/ TaskAborts(c) PROVE Typed'
  <2>1. task' \in [Conns -> TaskStates]
    BY <1>6, <1>t, TaskStepsDo
  <2> QED BY <1>6, <1>t, <2>1, TaskStepsDo
<1>7. CASE Begins
  <2>1. run' \in [Runs -> {"absent", "running"} \cup Ends] /\ unsaved' \subseteq Runs
    <3>1. CASE HandleAppRun
      BY <1>t, <3>1 DEF HandleAppRun
    <3>2. CASE HandleAppStop
      <4>1. msgs # <<>> /\ Head(msgs).type = "AppStop"
        BY <3>2 DEF HandleAppStop, Takes
      <4> QED BY <1>t, <1>m, <3>2, <4>1 DEF HandleAppStop, SaveStop
    <3>3. CASE Tell
      BY <1>t, <3>3 DEF Tell, rowVars
    <3> QED BY <1>7, <3>1, <3>2, <3>3 DEF Begins
  <2>2. waiting' \in [Pages -> 0..PageCap] /\ told' \in Nat /\ told' <= Len(listeners)
    <3>1. CASE HandleAppRun \/ HandleAppStop
      BY <1>t, <3>1 DEF HandleAppRun, HandleAppStop
    <3>2. CASE Tell
      <4> DEFINE q == listeners[told + 1]
      <4>1. told \in Nat /\ Len(listeners) \in Nat /\ told < Len(listeners) /\ told' = told + 1
        BY <1>t, <3>2, LenProperties DEF Tell
      <4>2. CASE q \in Pages \ left
        <5>1. waiting' = [waiting EXCEPT ![q] = waiting[q] + 1] /\ waiting[q] # PageCap
          BY <3>2, <4>2 DEF Tell, Full
        <5>2. waiting[q] \in 0..PageCap /\ q \in Pages
          BY <1>t, <4>2
        <5>3. waiting[q] + 1 \in 0..PageCap
          BY <5>1, <5>2, PagesType
        <5>4. waiting' \in [Pages -> 0..PageCap]
          BY <1>t, <5>1, <5>3
        <5> QED BY <4>1, <5>4
      <4>3. CASE q \notin Pages \ left
        BY <1>t, <3>2, <4>1, <4>3 DEF Tell
      <4> QED BY <4>2, <4>3
    <3> QED BY <1>7, <3>1, <3>2 DEF Begins
  <2> QED BY <1>t, <1>7, <2>1, <2>2, BeginsDoes
<1>8. CASE SpawnTask
  <2>1. task' \in [Conns -> TaskStates]
    BY <1>8, <1>t, SpawnTaskDoes
  <2> QED BY <1>8, <1>t, <2>1, SpawnTaskDoes DEF SpawnTask, rowVars
<1>9. CASE InsertEntry
  <2>1. task' \in [Conns -> TaskStates] /\ msgs' \in Seq(RunMsg)
    BY <1>9, <1>m, <1>t, InsertEntryDoes
  <2>2. entry' \in [Runs -> Nat] /\ \A r \in Runs : entry'[r] <= MaxConns[r]
    BY <1>9, <1>m, <1>t, InsertEntryDoes
  <2> QED
    BY <1>9, <1>t, <2>1, <2>2, InsertEntryDoes, LenProperties DEF InsertEntry, Done, rowVars
<1>10. CASE RejectAppRun
  <2>1. task' \in [Conns -> TaskStates] /\ msgs' \in Seq(RunMsg)
    BY <1>10, <1>m, <1>t, RejectAppRunDoes
  <2> QED BY <1>10, <1>t, <2>1, RejectAppRunDoes, LenProperties DEF RejectAppRun, Done
<1>11. CASE Removes
  <2> DEFINE r == Head(msgs).conn[1]
  <2>1. r \in Runs /\ msgs' \in Seq(RunMsg)
    BY <1>11, <1>m, <1>t, RemovesDoes
  <2>2. run' \in [Runs -> {"absent", "running"} \cup Ends] /\ unsaved' \subseteq Runs
    BY <1>11, <1>t, <2>1 DEF Removes, StopTold, HandleAppStopUnsaved, rowVars
  <2>3. entry' \in [Runs -> Nat] /\ \A q \in Runs : entry'[q] <= MaxConns[q]
    <3>1. entry' = [entry EXCEPT ![r] = 0]
      BY <1>11, <1>t, RemovesDoes
    <3> QED BY <1>t, <2>1, <3>1, MaxConnsType
  <2>4. Registered(r) => <<r, entry[r]>> \in Conns
    <3>1. Registered(r) => entry[r] \in 1..MaxConns[r]
      BY <1>t, <2>1, MaxConnsType DEF Registered
    <3> QED BY <2>1, <3>1, ConnsAre
  <2>5. awaiting' \subseteq Conns /\ \A x, y \in awaiting' : x = y
    BY <1>11, <1>t, <2>4, RemovesDoes
  <2> QED BY <1>11, <1>t, <2>1, <2>2, <2>3, <2>5, RemovesDoes, LenProperties
<1>12. CASE Awaited
  BY <1>12, <1>t DEF Awaited, connVars, rowVars, tellVars, pageVars
<1>13. CASE HandleAddRecordWatcher
  <2>1. Head(msgs).watcher \in Watchers /\ msgs' \in Seq(RunMsg)
    BY <1>13, <1>m, <1>t, AddWatcherDoes
  <2>2. attached' \in [Conns -> SUBSET Watchers]
    BY <1>13, <1>t, <2>1 DEF HandleAddRecordWatcher
  <2>3. listeners' \in Seq(Watchers) /\ told' = 0 /\ waiting' = waiting /\ left' = left
    BY <1>13, <1>t, <2>1, AppendProperties DEF HandleAddRecordWatcher, Done
  <2> QED BY <1>13, <1>t, <2>1, <2>2, <2>3, AddWatcherDoes, LenProperties
<1>14. CASE PageSteps
  <2>1. PICK q \in Pages : PageReads(q) \/ PageLeaves(q)
    BY <1>14 DEF PageSteps
  <2>2. waiting' \in [Pages -> 0..PageCap] /\ left' \subseteq Pages
    <3>1. waiting[q] \in 0..PageCap
      BY <1>t
    <3>2. CASE PageReads(q)
      <4>1. waiting' = [waiting EXCEPT ![q] = waiting[q] - 1] /\ waiting[q] > 0 /\ left' = left
        BY <3>2 DEF PageReads, pageVars
      <4>2. waiting[q] - 1 \in 0..PageCap
        BY <3>1, <4>1, PagesType
      <4> QED BY <1>t, <4>1, <4>2
    <3>3. CASE PageLeaves(q)
      BY <1>t, <3>3, PagesType DEF PageLeaves
    <3> QED BY <2>1, <3>2, <3>3
  <2> QED BY <1>14, <1>t, <2>2, PageStepsDo
<1> QED
  BY <1>1, <1>2, <1>3, <1>4, <1>5, <1>6, <1>7, <1>8, <1>9, <1>10, <1>11, <1>12, <1>13, <1>14, NextIs

\* A message that is sent leaves the one at the head there.
LEMMA HeadStays ==
  ASSUME Typed, NEW m \in RunMsg, msgs' = Append(msgs, m), step' = step, awaiting' = awaiting,
         StepInv
  PROVE  /\ StepInv'
         /\ \A c \in Conns : Inserts(c)' <=> Inserts(c)
<1>1. msgs # <<>> => msgs' # <<>> /\ Head(msgs') = Head(msgs)
  BY QueueAppend DEF Typed
<1> QED BY <1>1 DEF StepInv, Inserts

LEMMA StepInvStep == IInv /\ [Next]_vars => StepInv'
<1> SUFFICES ASSUME IInv, [Next]_vars PROVE StepInv'
  OBVIOUS
<1>t. Typed /\ StepInv
  BY DEF IInv
<1>1. CASE UNCHANGED <<msgs, step, awaiting>>
  BY <1>1, <1>t DEF StepInv
<1>2. ASSUME NEW r \in Runs, Open(r) PROVE StepInv'
  <2>1. AppRun(<<r, Opened(r) + 1>>) \in RunMsg
    BY <1>2, NextConn, MessagesAre DEF Open, IInv
  <2> QED BY <1>t, <1>2, <2>1, SendingSteps, HeadStays
<1>3. ASSUME NEW c \in Conns, NEW how \in Ends, Close(c, how) PROVE StepInv'
  BY <1>t, <1>3, MessagesAre, SendingSteps, HeadStays
<1>4. ASSUME NEW w \in Watchers, Subscribe(w) PROVE StepInv'
  BY <1>t, <1>4, MessagesAre, SendingSteps, HeadStays
<1>5. CASE Begins
  BY <1>t, <1>5, BeginsDoes DEF StepInv
<1>6. CASE SpawnTask
  BY <1>t, <1>6, SpawnTaskDoes DEF StepInv
<1>7. CASE InsertEntry \/ RejectAppRun \/ Removes \/ HandleAddRecordWatcher
  BY <1>t, <1>7, InsertEntryDoes, RejectAppRunDoes, RemovesDoes, AddWatcherDoes DEF StepInv
<1>8. CASE Awaited
  BY <1>t, <1>8 DEF Awaited, StepInv, tellVars
<1> QED
  BY <1>1, <1>2, <1>3, <1>4, <1>5, <1>6, <1>7, <1>8, NextIs, ConnStepsDo, TaskStepsDo, PageStepsDo
     DEF vars

\* The steps that leave every connection opened or not as it was.
LEMMA OpenedStays ==
  ASSUME \A c \in Conns : conn'[c] # "none" <=> conn[c] # "none",
         NEW r \in Runs
  PROVE  Opened(r)' = Opened(r)
<1>1. {k \in 1..MaxConns[r] : conn'[<<r, k>>] # "none"}
        = {k \in 1..MaxConns[r] : conn[<<r, k>>] # "none"}
  BY ConnsAre
<1> QED BY <1>1 DEF Opened

\* Only Open opens a connection.
LEMMA OnlyOpenOpens ==
  ASSUME IInv, [Next]_vars, \A r \in Runs : ~Open(r)
  PROVE  \A c \in Conns : conn'[c] # "none" <=> conn[c] # "none"
<1>t. conn \in [Conns -> ConnStates] /\ Typed /\ StepInv
  BY DEF IInv, Typed
<1>1. ASSUME NEW c \in Conns, Reply(c) \/ Refuse(c) \/ Panic(c)
      PROVE  \A d \in Conns : conn'[d] # "none" <=> conn[d] # "none"
  BY <1>t, <1>1, ConnStepsDo DEF Live, Silent
<1>2. ASSUME NEW c \in Conns, NEW how \in Ends, Close(c, how)
      PROVE  \A d \in Conns : conn'[d] # "none" <=> conn[d] # "none"
  BY <1>t, <1>2, SendingSteps DEF Ends
<1>3. CASE UNCHANGED conn
  BY <1>3
<1>4. CASE Begins \/ SpawnTask \/ InsertEntry \/ RejectAppRun \/ Removes \/ HandleAddRecordWatcher
  BY <1>t, <1>3, <1>4, BeginsDoes, SpawnTaskDoes, InsertEntryDoes, RejectAppRunDoes, RemovesDoes,
     AddWatcherDoes
<1>5. CASE Awaited
  BY <1>3, <1>5 DEF Awaited, connVars
<1> QED
  BY <1>1, <1>2, <1>3, <1>4, <1>5, NextIs, SendingSteps, TaskStepsDo, PageStepsDo DEF vars

LEMMA InOrderStep == IInv /\ [Next]_vars => InOrder'
<1> SUFFICES ASSUME IInv, [Next]_vars, NEW r \in Runs, NEW k \in 1..MaxConns[r]
             PROVE  conn'[<<r, k>>] # "none" <=> k <= Opened(r)'
  BY DEF InOrder
<1>0. /\ MaxConns[r] \in Nat /\ <<r, k>> \in Conns
      /\ conn[<<r, k>>] # "none" <=> k <= Opened(r)
      /\ conn \in [Conns -> ConnStates]
  BY MaxConnsType, ConnsAre DEF IInv, InOrder, Typed
<1>1. CASE \A q \in Runs : ~Open(q)
  BY <1>0, <1>1, OnlyOpenOpens, OpenedStays
<1>2. ASSUME NEW q \in Runs, Open(q) PROVE conn'[<<r, k>>] # "none" <=> k <= Opened(r)'
  <2> DEFINE n == Opened(q) + 1
  <2>1. n \in 1..MaxConns[q] /\ Opened(q) \in Nat /\ <<q, n>> \in Conns
    BY <1>2, NextConn DEF Open, IInv
  <2>2. conn'[<<q, n>>] # "none" /\ \A c \in Conns : c # <<q, n>> => conn'[c] = conn[c]
    BY <1>2, <1>0, <2>1 DEF Open
  <2>3. CASE q = r
    <3>1. \A j \in 1..MaxConns[r] : conn'[<<r, j>>] # "none" <=> j <= n
      <4> SUFFICES ASSUME NEW j \in 1..MaxConns[r]
                   PROVE  conn'[<<r, j>>] # "none" <=> j <= n
        OBVIOUS
      <4>1. conn[<<r, j>>] # "none" <=> j <= Opened(r)
        BY DEF IInv, InOrder
      <4>2. CASE j = n
        BY <4>2, <2>2, <2>3, <2>1
      <4>3. CASE j # n
        BY <4>1, <4>3, <2>1, <2>2, <2>3, ConnsAre, <1>0
      <4> QED BY <4>2, <4>3
    <3>2. {j \in 1..MaxConns[r] : conn'[<<r, j>>] # "none"} = 1..n
      BY <3>1, <2>1, <2>3, <1>0
    <3>3. Opened(r)' = n
      <4>1. Cardinality(1..n) = n
        BY <2>1, FS_Interval
      <4> QED BY <3>2, <4>1 DEF Opened
    <3> QED BY <3>1, <3>3
  <2>4. CASE q # r
    <3>1. \A j \in 1..MaxConns[r] : conn'[<<r, j>>] = conn[<<r, j>>]
      BY <2>2, <2>4, ConnsAre
    <3>2. Opened(r)' = Opened(r)
      <4>1. {j \in 1..MaxConns[r] : conn'[<<r, j>>] # "none"}
              = {j \in 1..MaxConns[r] : conn[<<r, j>>] # "none"}
        BY <3>1
      <4> QED BY <4>1 DEF Opened
    <3> QED BY <3>1, <3>2, <1>0
  <2> QED BY <2>3, <2>4
<1> QED BY <1>1, <1>2

\* A message is sent: an AppRun only for a connection that opens with it.
LEMMA MsgInvAppend ==
  ASSUME Typed, StepInv, MsgInv, NEW m \in RunMsg, msgs' = Append(msgs, m), task' = task,
         step' = step, awaiting' = awaiting,
         \A d \in Conns : conn[d] # "none" => conn'[d] # "none",
         m.type = "AppRun" => conn[m.conn] = "none" /\ conn'[m.conn] # "none"
  PROVE  MsgInv'
<1>1. /\ Len(msgs') = Len(msgs) + 1 /\ Len(msgs) \in Nat
      /\ \A i \in 1..Len(msgs) : msgs'[i] = msgs[i]
      /\ msgs'[Len(msgs) + 1] = m
      /\ \A i \in 1..Len(msgs') : i \in 1..Len(msgs) \/ i = Len(msgs) + 1
  BY QueueAppend DEF Typed
<1>2. \A i \in 1..Len(msgs) : msgs[i].type = "AppRun" =>
        /\ msgs[i].conn \in Conns /\ conn[msgs[i].conn] # "none"
        /\ task[msgs[i].conn] = "none" \/ Inserts(msgs[i].conn)
  BY MessageAt, MessageKinds DEF Typed, MsgInv
<1>3. m.type = "AppRun" => m.conn \in Conns /\ task[m.conn] = "none"
  BY MessageKinds DEF MsgInv
<1>h. \A c \in Conns : Inserts(c)' <=> Inserts(c)
  BY HeadStays
<1>4. \A i \in 1..Len(msgs') : msgs'[i].type = "AppRun" =>
        /\ conn'[msgs'[i].conn] # "none"
        /\ task'[msgs'[i].conn] = "none" \/ Inserts(msgs[i].conn)'
  <2> SUFFICES ASSUME NEW i \in 1..Len(msgs'), msgs'[i].type = "AppRun"
               PROVE  /\ conn'[msgs'[i].conn] # "none"
                      /\ task'[msgs'[i].conn] = "none" \/ Inserts(msgs[i].conn)'
    OBVIOUS
  <2>1. CASE i \in 1..Len(msgs)
    <3>1. msgs'[i] = msgs[i]
      BY <1>1, <2>1
    <3>2. PICK d \in Conns : d = msgs[i].conn
      BY <1>2, <2>1, <3>1
    <3>3. conn[d] # "none" /\ (task[d] = "none" \/ Inserts(d))
      BY <1>2, <2>1, <3>1, <3>2
    <3>4. Inserts(d) => Inserts(d)'
      BY <1>h
    <3> QED BY <3>1, <3>2, <3>3, <3>4 DEF Inserts
  <2>2. CASE i = Len(msgs) + 1
    BY <1>1, <1>3, <2>2
  <2> QED BY <1>1, <2>1, <2>2
<1>5. \A i, j \in 1..Len(msgs') :
        msgs'[i].type = "AppRun" /\ msgs'[j].type = "AppRun" /\ msgs'[i].conn = msgs'[j].conn => i = j
  BY <1>1, <1>2, <1>3 DEF MsgInv
<1>6. \A c \in Conns : conn'[c] = "none" => task'[c] = "none"
  BY DEF MsgInv
<1> QED BY <1>4, <1>5, <1>6 DEF MsgInv

\* The message at the head is done with: only its task has started.
LEMMA MsgInvTail ==
  ASSUME Typed, StepInv, MsgInv, msgs # <<>>, msgs' = Tail(msgs), conn' = conn,
         \A d \in Conns :
           task[d] = "none" /\ (Head(msgs).type = "AppRun" => d # Head(msgs).conn) => task'[d] = "none"
  PROVE  MsgInv'
<1>1. /\ Head(msgs) = msgs[1] /\ 1 \in 1..Len(msgs)
      /\ \A i \in 1..Len(msgs') : msgs'[i] = msgs[i + 1] /\ i + 1 \in 2..Len(msgs)
      /\ \A i \in 1..Len(msgs') : i + 1 \in 1..Len(msgs) /\ i + 1 # 1 /\ i \in Int
  BY QueueTail DEF Typed
<1>2. \A i \in 1..Len(msgs) : msgs[i].type = "AppRun" =>
        /\ msgs[i].conn \in Conns /\ conn[msgs[i].conn] # "none"
        /\ task[msgs[i].conn] = "none" \/ Inserts(msgs[i].conn)
  BY MessageAt, MessageKinds DEF Typed, MsgInv
<1>3. \A i \in 1..Len(msgs') : msgs'[i].type = "AppRun" =>
        conn'[msgs'[i].conn] # "none" /\ task'[msgs'[i].conn] = "none"
  <2> SUFFICES ASSUME NEW i \in 1..Len(msgs'), msgs'[i].type = "AppRun"
               PROVE  conn'[msgs'[i].conn] # "none" /\ task'[msgs'[i].conn] = "none"
    OBVIOUS
  <2>1. Head(msgs).type = "AppRun" => msgs[i + 1].conn # Head(msgs).conn
    BY <1>1 DEF MsgInv
  <2>2. ~Inserts(msgs[i + 1].conn)
    BY <2>1 DEF Inserts, StepInv
  <2> QED BY <1>1, <1>2, <2>1, <2>2
<1>4. \A i, j \in 1..Len(msgs') :
        msgs'[i].type = "AppRun" /\ msgs'[j].type = "AppRun" /\ msgs'[i].conn = msgs'[j].conn => i = j
  <2> SUFFICES ASSUME NEW i \in 1..Len(msgs'), NEW j \in 1..Len(msgs'),
                      msgs'[i].type = "AppRun", msgs'[j].type = "AppRun", msgs'[i].conn = msgs'[j].conn
               PROVE  i = j
    OBVIOUS
  <2>1. i + 1 = j + 1
    BY <1>1 DEF MsgInv
  <2> QED BY <2>1, <1>1
<1>5. \A c \in Conns : conn'[c] = "none" => task'[c] = "none"
  BY <1>1, <1>2 DEF MsgInv
<1> QED BY <1>3, <1>4, <1>5 DEF MsgInv

\* The messages stay, and what has started or is about to be put in.
LEMMA MsgInvStill ==
  ASSUME Typed, StepInv, MsgInv, msgs' = msgs,
         \A d \in Conns : conn[d] # "none" <=> conn'[d] # "none",
         \A d \in Conns : task[d] = "none" =>
           task'[d] = "none" \/ (step' = "insert" /\ d = Head(msgs).conn /\ conn[d] # "none"),
         step = "insert" => step' = "insert"
  PROVE  MsgInv'
<1>1. \A i \in 1..Len(msgs) : msgs[i].type = "AppRun" => msgs[i].conn \in Conns
  BY MessageAt, MessageKinds DEF Typed
<1>2. \A d \in Conns : step' = "insert" /\ d = Head(msgs).conn <=> Inserts(d)'
  BY DEF Inserts
<1>3. \A i \in 1..Len(msgs') : msgs'[i].type = "AppRun" =>
        /\ conn'[msgs'[i].conn] # "none"
        /\ task'[msgs'[i].conn] = "none" \/ Inserts(msgs[i].conn)'
  <2> SUFFICES ASSUME NEW i \in 1..Len(msgs), msgs[i].type = "AppRun"
               PROVE  /\ conn'[msgs[i].conn] # "none"
                      /\ task'[msgs[i].conn] = "none" \/ Inserts(msgs[i].conn)'
    OBVIOUS
  <2>1. PICK d \in Conns : d = msgs[i].conn
    BY <1>1
  <2>2. conn[d] # "none" /\ (task[d] = "none" \/ Inserts(d))
    BY <2>1 DEF MsgInv
  <2>3. conn'[d] # "none" /\ (task'[d] = "none" \/ (step' = "insert" /\ d = Head(msgs).conn))
    BY <2>2 DEF Inserts
  <2> QED BY <2>1, <2>3 DEF Inserts
<1>4. \A c \in Conns : conn'[c] = "none" => task'[c] = "none"
  BY DEF MsgInv
<1>5. \A i, j \in 1..Len(msgs') :
        msgs'[i].type = "AppRun" /\ msgs'[j].type = "AppRun" /\ msgs'[i].conn = msgs'[j].conn => i = j
  BY DEF MsgInv
<1> QED BY <1>3, <1>4, <1>5 DEF MsgInv

LEMMA MsgInvStep == IInv /\ [Next]_vars => MsgInv'
<1> SUFFICES ASSUME IInv, [Next]_vars PROVE MsgInv'
  OBVIOUS
<1>t. Typed /\ MsgInv /\ InOrder /\ StepInv
  BY DEF IInv
<1>1. CASE UNCHANGED <<msgs, conn, task, step>>
  BY <1>1, <1>t DEF MsgInv, Inserts
<1>2. ASSUME NEW r \in Runs, Open(r) PROVE MsgInv'
  <2> DEFINE c == <<r, Opened(r) + 1>>
  <2>1. c \in Conns /\ conn[c] = "none"
    BY <1>2, <1>t, NextConn DEF Open
  <2>2. conn'[c] # "none" /\ \A d \in Conns : d # c => conn'[d] = conn[d]
    BY <1>2, <1>t, <2>1 DEF Open, Typed
  <2>3. AppRun(c) \in RunMsg /\ AppRun(c).conn = c
    BY <2>1, MessagesAre
  <2>4. msgs' = Append(msgs, AppRun(c)) /\ task' = task /\ step' = step /\ awaiting' = awaiting
    BY <1>2, SendingSteps
  <2> QED BY <1>t, <2>1, <2>2, <2>3, <2>4, MsgInvAppend
<1>3. ASSUME NEW c \in Conns, Reply(c) \/ Refuse(c) \/ Panic(c) PROVE MsgInv'
  <2>1. msgs' = msgs /\ task' = task /\ step' = step
    BY <1>3, ConnStepsDo
  <2>2. \A d \in Conns : conn'[d] # "none" <=> conn[d] # "none"
    BY <1>3, <1>t, ConnStepsDo DEF Typed, Live, Silent
  <2> QED BY <1>t, <2>1, <2>2, MsgInvStill
<1>4. ASSUME NEW c \in Conns, NEW how \in Ends, Close(c, how) PROVE MsgInv'
  <2>1. \A d \in Conns : conn[d] # "none" => conn'[d] # "none"
    BY <1>4, <1>t, SendingSteps DEF Typed, Ends
  <2>2. AppStop(c, how) \in RunMsg /\ AppStop(c, how).type = "AppStop"
    BY MessagesAre
  <2> QED BY <1>4, <1>t, <2>1, <2>2, MsgInvAppend, SendingSteps
<1>5. ASSUME NEW w \in Watchers, Subscribe(w) PROVE MsgInv'
  <2>1. AddRecordWatcher(w) \in RunMsg /\ AddRecordWatcher(w).type = "AddRecordWatcher"
    BY MessagesAre
  <2> QED BY <1>5, <1>t, <2>1, MsgInvAppend, SendingSteps
<1>6. ASSUME NEW c \in Conns, TaskFinishes(c) \/ TaskFails(c) \/ TaskAborts(c) PROVE MsgInv'
  <2>1. msgs' = msgs /\ conn' = conn /\ step' = step
    BY <1>6, TaskStepsDo
  <2>2. \A d \in Conns : task[d] = "none" => task'[d] = "none"
    BY <1>6, <1>t, TaskStepsDo DEF Typed, Executes
  <2> QED BY <1>t, <2>1, <2>2, MsgInvStill
<1>7. CASE SpawnTask
  <2>1. msgs' = msgs /\ conn' = conn /\ step # "insert"
    BY <1>7, <1>t, SpawnTaskDoes
  <2>2. conn[Head(msgs).conn] # "none" /\ step' = "insert"
    <3>1. 1 \in 1..Len(msgs) /\ Head(msgs) = msgs[1] /\ msgs[1].type = "AppRun"
      BY <1>7, <1>t, SpawnTaskDoes, QueueTail DEF Typed
    <3> QED BY <3>1, <1>7, <1>t, SpawnTaskDoes DEF MsgInv
  <2>3. \A d \in Conns : task[d] = "none" => task'[d] = "none" \/ d = Head(msgs).conn
    BY <1>7, <1>t, SpawnTaskDoes DEF Typed
  <2> QED BY <1>t, <2>1, <2>2, <2>3, MsgInvStill
<1>8. CASE InsertEntry
  <2>1. \A d \in Conns : task[d] = "none" => task'[d] = "none"
    BY <1>8, <1>t, InsertEntryDoes DEF Replaced
  <2> QED BY <1>8, <1>t, <2>1, InsertEntryDoes, MsgInvTail
<1>9. CASE RejectAppRun
  <2>1. \A d \in Conns : task[d] = "none" /\ d # Head(msgs).conn => task'[d] = "none"
    BY <1>9, <1>t, RejectAppRunDoes DEF Typed
  <2> QED BY <1>9, <1>t, <2>1, RejectAppRunDoes, MsgInvTail
<1>10. CASE Removes \/ HandleAddRecordWatcher
  BY <1>10, <1>t, RemovesDoes, AddWatcherDoes, MsgInvTail
<1>11. CASE Begins
  <2>1. msgs' = msgs /\ conn' = conn /\ task' = task /\ step # "insert"
    BY <1>11, <1>t, BeginsDoes
  <2> QED BY <1>t, <2>1, MsgInvStill
<1>12. CASE Awaited
  BY <1>1, <1>12 DEF Awaited, connVars, tellVars
<1> QED
  BY <1>1, <1>2, <1>3, <1>4, <1>5, <1>6, <1>7, <1>8, <1>9, <1>10, <1>11, <1>12, NextIs, PageStepsDo
     DEF vars

LEMMA TaskInvStep == IInv /\ [Next]_vars => TaskInv'
<1> SUFFICES ASSUME IInv, [Next]_vars PROVE TaskInv'
  OBVIOUS
<1>t. Typed /\ MsgInv /\ TaskInv /\ StepInv
  BY DEF IInv
<1>r. \A r \in Runs : Registered(r) => <<r, entry[r]>> \in Conns
  <2> SUFFICES ASSUME NEW r \in Runs, Registered(r) PROVE <<r, entry[r]>> \in Conns
    OBVIOUS
  <2>1. entry[r] \in 1..MaxConns[r]
    BY <1>t, MaxConnsType DEF Typed, Registered
  <2> QED BY <2>1, ConnsAre
<1>m. ASSUME msgs # <<>>, Head(msgs).type \in {"AppRun", "AppStop"}
      PROVE  Head(msgs).conn \in Conns
  BY <1>t, <1>m, QueueTail, MessageKinds DEF Typed
<1>n. ASSUME msgs # <<>>, Head(msgs).type = "AppRun"
      PROVE  /\ task[Head(msgs).conn] = "none" \/ step = "insert"
             /\ 1 \in 1..Len(msgs) /\ msgs[1] = Head(msgs)
  BY <1>t, <1>n, QueueTail DEF Typed, MsgInv, Inserts
<1>i. \A c : Inserts(c) <=> step = "insert" /\ c = Head(msgs).conn
  BY DEF Inserts
<1>1. ASSUME UNCHANGED <<entry, task, awaiting>>, \A c \in Conns : Inserts(c)' <=> Inserts(c)
      PROVE  TaskInv'
  BY <1>1, <1>t DEF TaskInv, Registered
<1>2. ASSUME NEW c \in Conns, TaskFinishes(c) \/ TaskFails(c) \/ TaskAborts(c) PROVE TaskInv'
  <2>1. /\ entry' = entry /\ awaiting' = awaiting /\ Executes(c)
        /\ \A d \in Conns : Inserts(d)' <=> Inserts(d)
    BY <1>2, TaskStepsDo DEF Inserts
  <2>2. /\ task'[c] \in {"finished", "failed", "aborted"}
        /\ \A d \in Conns : d # c => task'[d] = task[d]
    BY <1>2, <1>t, TaskStepsDo DEF Typed
  <2>3. Inserts(c) \/ entry[c[1]] = c[2] => task'[c] = "failed"
    <3>1. ASSUME Inserts(c) PROVE HasSender(c) /\ task[c] # "aborting"
      BY <1>n, <1>t, <3>1 DEF Inserts, HasSender, StepInv, TaskInv
    <3>2. ASSUME entry[c[1]] = c[2] PROVE HasSender(c) /\ task[c] # "aborting"
      <4>1. c[1] \in Runs /\ c = <<c[1], c[2]>> /\ c[2] # 0
        BY ConnsAre, MaxConnsType
      <4> QED BY <1>t, <3>2, <4>1 DEF HasSender, TaskInv, Registered
    <3>3. CASE TaskFails(c)
      BY <1>t, <3>3 DEF TaskFails, Typed
    <3> QED BY <1>2, <3>1, <3>2, <3>3 DEF TaskFinishes, TaskAborts
  <2>4. \A r \in Runs : Registered(r)' => task'[<<r, entry'[r]>>] \in {"running", "failed"}
    <3> SUFFICES ASSUME NEW r \in Runs, Registered(r)
                 PROVE  task'[<<r, entry[r]>>] \in {"running", "failed"}
      BY <2>1 DEF Registered
    <3>1. <<r, entry[r]>> \in Conns /\ task[<<r, entry[r]>>] \in {"running", "failed"}
      BY <1>t, <1>r DEF TaskInv
    <3> QED BY <2>2, <2>3, <3>1
  <2>5. \A d \in Conns : Inserts(d)' => task'[d] \in {"running", "failed"} /\ entry'[d[1]] # d[2]
    BY <1>t, <2>1, <2>2, <2>3 DEF TaskInv
  <2>6. /\ \A d \in Conns : task'[d] = "running" =>
             entry'[d[1]] = d[2] \/ d \in awaiting' \/ Inserts(d)'
        /\ \A d \in awaiting' : entry'[d[1]] = 0
    BY <1>t, <2>1, <2>2 DEF TaskInv
  <2> QED BY <2>4, <2>5, <2>6 DEF TaskInv
<1>3. CASE SpawnTask
  <2> DEFINE c == Head(msgs).conn
  <2>1. /\ c \in Conns /\ awaiting' = awaiting /\ entry' = entry /\ step = "tell"
        /\ task[c] = "none" /\ c[1] \in Runs /\ c = <<c[1], c[2]>> /\ c[2] # 0
    BY <1>3, <1>t, <1>n, SpawnTaskDoes, ConnsAre, MaxConnsType
  <2>2. task'[c] = "running" /\ \A d \in Conns : d # c => task'[d] = task[d]
    BY <1>3, <1>t, SpawnTaskDoes DEF Typed
  <2>3. \A d \in Conns : ~Inserts(d) /\ (Inserts(d)' <=> d = c)
    BY <1>3, <1>t, SpawnTaskDoes DEF Inserts
  <2> HIDE DEF c
  <2>4. entry[c[1]] # c[2]
    BY <1>t, <2>1 DEF TaskInv, Registered
  <2>5. \A r \in Runs : Registered(r)' => task'[<<r, entry'[r]>>] \in {"running", "failed"}
    BY <1>t, <1>r, <2>1, <2>2 DEF TaskInv, Registered
  <2>6. \A d \in Conns : task'[d] = "running" =>
          entry'[d[1]] = d[2] \/ d \in awaiting' \/ Inserts(d)'
    BY <1>t, <2>1, <2>2, <2>3 DEF TaskInv
  <2> QED BY <1>t, <2>1, <2>2, <2>3, <2>4, <2>5, <2>6 DEF TaskInv
<1>4. CASE InsertEntry
  <2> DEFINE c == Head(msgs).conn
  <2>1. /\ c \in Conns /\ awaiting = {} /\ awaiting' = {} /\ step = "insert" /\ step' = "take"
        /\ entry' = [entry EXCEPT ![c[1]] = c[2]]
        /\ task' = [d \in Conns |-> IF Replaced(d, c) THEN "aborting" ELSE task[d]]
    BY <1>4, <1>t, InsertEntryDoes
  <2>2. c[1] \in Runs /\ c[2] # 0 /\ c = <<c[1], c[2]>>
    BY <2>1, ConnsAre, MaxConnsType
  <2>3. task[c] \in {"running", "failed"} /\ entry[c[1]] # c[2]
    BY <1>t, <2>1 DEF TaskInv, Inserts
  <2>4. \A d \in Conns : (Inserts(d) => d = c) /\ ~Inserts(d)'
    BY <2>1 DEF Inserts
  <2> HIDE DEF c
  <2>5. \A r \in Runs : Registered(r)' => task'[<<r, entry'[r]>>] \in {"running", "failed"}
    <3> SUFFICES ASSUME NEW r \in Runs, entry'[r] # 0
                 PROVE  task'[<<r, entry'[r]>>] \in {"running", "failed"}
      BY DEF Registered
    <3>1. CASE r = c[1]
      <4>1. <<r, entry'[r]>> = c /\ ~Replaced(c, c)
        BY <3>1, <2>1, <2>2, <2>3, <1>t DEF Typed, Replaced
      <4> QED BY <4>1, <2>1, <2>3
    <3>2. CASE r # c[1]
      <4>1. entry'[r] = entry[r] /\ Registered(r)
        BY <3>2, <2>1, <1>t DEF Typed, Registered
      <4>2. <<r, entry[r]>> \in Conns /\ ~Replaced(<<r, entry[r]>>, c)
        BY <4>1, <3>2, <1>r DEF Replaced
      <4> QED BY <4>1, <4>2, <2>1, <1>t DEF TaskInv
    <3> QED BY <3>1, <3>2
  <2>6. \A d \in Conns : task'[d] = "running" => entry'[d[1]] = d[2]
    <3> SUFFICES ASSUME NEW d \in Conns, task'[d] = "running"
                 PROVE  entry'[d[1]] = d[2]
      OBVIOUS
    <3>1. d[1] \in Runs
      BY ConnsAre
    <3>2. CASE d = c
      BY <3>2, <2>1, <2>2, <1>t DEF Typed
    <3>3. CASE d # c
      <4>1. task[d] = "running" /\ ~Replaced(d, c)
        BY <2>1
      <4>2. entry[d[1]] = d[2]
        BY <3>3, <4>1, <2>1, <2>4, <1>t DEF TaskInv
      <4>3. d[1] # c[1]
        BY <4>1, <4>2 DEF Replaced
      <4> QED BY <4>2, <4>3, <3>1, <2>1, <1>t DEF Typed
    <3> QED BY <3>2, <3>3
  <2> QED BY <2>1, <2>4, <2>5, <2>6 DEF TaskInv
<1>5. CASE RejectAppRun
  <2>1. /\ task' = [task EXCEPT ![Head(msgs).conn] = "rejected"]
        /\ entry' = entry /\ awaiting' = awaiting
        /\ Head(msgs).conn \in Conns /\ task[Head(msgs).conn] = "none"
        /\ \A d \in Conns : ~Inserts(d) /\ ~Inserts(d)'
    BY <1>5, <1>t, <1>n, RejectAppRunDoes DEF Inserts
  <2> QED BY <1>t, <1>r, <2>1 DEF TaskInv, Registered, Typed
<1>6. CASE Removes
  <2> DEFINE r == Head(msgs).conn[1]
  <2>1. /\ r \in Runs /\ awaiting = {} /\ task' = task
        /\ awaiting' = IF Registered(r) THEN {<<r, entry[r]>>} ELSE {}
        /\ entry' = [entry EXCEPT ![r] = 0]
        /\ \A d \in Conns : ~Inserts(d) /\ ~Inserts(d)'
    BY <1>6, <1>t, <1>m, ConnsAre, RemovesDoes DEF Inserts
  <2>2. \A q \in Runs : Registered(q)' => task'[<<q, entry'[q]>>] \in {"running", "failed"}
    BY <1>t, <2>1 DEF Typed, TaskInv, Registered
  <2>3. \A d \in Conns : task'[d] = "running" => entry'[d[1]] = d[2] \/ d \in awaiting'
    <3> SUFFICES ASSUME NEW d \in Conns, task[d] = "running"
                 PROVE  entry'[d[1]] = d[2] \/ d \in awaiting'
      BY <2>1
    <3>1. entry[d[1]] = d[2] /\ d[1] \in Runs /\ d = <<d[1], d[2]>> /\ d[2] # 0
      BY <1>t, <2>1, ConnsAre, MaxConnsType DEF TaskInv
    <3> QED BY <3>1, <2>1, <1>t DEF Typed, Registered
  <2>4. \A d \in awaiting' : entry'[d[1]] = 0
    BY <1>t, <2>1 DEF Typed
  <2> QED BY <2>1, <2>2, <2>3, <2>4 DEF TaskInv
<1>7. CASE Awaited
  <2>1. PICK c \in awaiting : task[c] # "running" /\ awaiting' = {}
    BY <1>7 DEF Awaited
  <2>2. /\ task' = task /\ entry' = entry /\ \A d \in awaiting : d = c
        /\ \A d \in Conns : Inserts(d)' <=> Inserts(d)
    BY <1>7, <1>t DEF Awaited, Typed, tellVars, Inserts
  <2> QED BY <2>1, <2>2, <1>t DEF TaskInv, Registered
<1>8. CASE Begins
  BY <1>1, <1>8, <1>t, BeginsDoes DEF Inserts
<1>9. CASE HandleAddRecordWatcher
  BY <1>1, <1>9, <1>t, AddWatcherDoes DEF Inserts
<1>10. ASSUME NEW m \in RunMsg, msgs' = Append(msgs, m),
              UNCHANGED <<entry, task, awaiting, step>>
       PROVE  TaskInv'
  BY <1>1, <1>10, <1>t, HeadStays
<1>11. ASSUME NEW r \in Runs, Open(r) PROVE TaskInv'
  <2>1. AppRun(<<r, Opened(r) + 1>>) \in RunMsg
    BY <1>11, NextConn, MessagesAre DEF Open, IInv
  <2> QED BY <1>10, <1>11, <2>1, SendingSteps
<1>12. CASE \E c \in Conns, how \in Ends : Close(c, how)
  BY <1>10, <1>12, SendingSteps, MessagesAre
<1>13. CASE \E w \in Watchers : Subscribe(w)
  BY <1>10, <1>13, SendingSteps, MessagesAre
<1>14. ASSUME NEW c \in Conns, Reply(c) \/ Refuse(c) \/ Panic(c) PROVE TaskInv'
  BY <1>1, <1>14, ConnStepsDo DEF Inserts
<1>15. CASE PageSteps \/ UNCHANGED vars
  BY <1>1, <1>15, PageStepsDo DEF Inserts, vars
<1> QED
  BY <1>2, <1>3, <1>4, <1>5, <1>6, <1>7, <1>8, <1>9, <1>11, <1>12, <1>13, <1>14, <1>15, NextIs

\* A connection that was refused, panicked or was rejected remains so.
LEMMA SpoiledStays ==
  ASSUME IInv, [Next]_vars, NEW r \in Runs, Spoiled(r)
  PROVE  Spoiled(r)'
<1>1. PICK k \in 1..MaxConns[r] : conn[<<r, k>>] \in Silent \/ task[<<r, k>>] = "rejected"
  BY DEF Spoiled
<1> DEFINE c == <<r, k>>
<1>2. c \in Conns /\ Typed /\ StepInv /\ MsgInv
  BY ConnsAre DEF IInv
<1>s. SUFFICES conn'[c] \in Silent \/ task'[c] = "rejected"
  BY DEF Spoiled
<1> HIDE DEF c
<1>3. ASSUME conn[c] \in Silent PROVE conn'[c] \in Silent
  <2>1. ASSUME NEW q \in Runs, Open(q) PROVE conn'[c] \in Silent
    <3>1. conn[<<q, Opened(q) + 1>>] = "none"
      BY <2>1, NextConn DEF Open, IInv
    <3> QED BY <3>1, <2>1, <1>2, <1>3 DEF Open, Typed, Silent
  <2>2. ASSUME NEW d \in Conns, Reply(d) \/ Refuse(d) \/ Panic(d) PROVE conn'[c] \in Silent
    BY <1>2, <1>3, <2>2, ConnStepsDo DEF Live, Silent, Typed
  <2>3. ASSUME NEW d \in Conns, NEW how \in Ends, Close(d, how) PROVE conn'[c] \in Silent
    BY <1>2, <1>3, <2>3, SendingSteps DEF Silent, Typed
  <2>4. CASE UNCHANGED conn
    BY <1>3, <2>4
  <2>5. CASE Begins \/ SpawnTask \/ InsertEntry \/ RejectAppRun \/ Removes \/ HandleAddRecordWatcher
    BY <1>2, <2>4, <2>5, BeginsDoes, SpawnTaskDoes, InsertEntryDoes, RejectAppRunDoes, RemovesDoes,
       AddWatcherDoes
  <2>6. CASE Awaited
    BY <2>4, <2>6 DEF Awaited, connVars
  <2> QED
    BY <2>1, <2>2, <2>3, <2>4, <2>5, <2>6, NextIs, SendingSteps, TaskStepsDo, PageStepsDo DEF vars
<1>4. ASSUME task[c] = "rejected" PROVE task'[c] = "rejected"
  <2>1. ASSUME NEW d \in Conns, TaskFinishes(d) \/ TaskFails(d) \/ TaskAborts(d)
        PROVE  task'[c] = "rejected"
    BY <1>2, <1>4, <2>1, TaskStepsDo DEF Executes, Typed
  <2>2. CASE SpawnTask
    <3>1. 1 \in 1..Len(msgs) /\ msgs[1] = Head(msgs) /\ ~Inserts(Head(msgs).conn)
      BY <1>2, <2>2, SpawnTaskDoes, QueueTail DEF Typed, Inserts
    <3>2. Head(msgs).conn # c
      BY <1>2, <1>4, <2>2, <3>1, SpawnTaskDoes DEF MsgInv
    <3> QED BY <1>2, <1>4, <2>2, <3>2, SpawnTaskDoes DEF Typed
  <2>3. CASE InsertEntry
    BY <1>2, <1>4, <2>3, InsertEntryDoes DEF Replaced
  <2>4. CASE RejectAppRun
    BY <1>2, <1>4, <2>4, RejectAppRunDoes DEF Typed
  <2>5. CASE UNCHANGED task
    BY <1>4, <2>5
  <2>6. CASE Begins \/ Removes \/ HandleAddRecordWatcher
    BY <1>2, <2>5, <2>6, BeginsDoes, RemovesDoes, AddWatcherDoes
  <2>7. CASE Awaited
    BY <2>5, <2>7 DEF Awaited
  <2> QED
    BY <2>1, <2>2, <2>3, <2>4, <2>5, <2>6, <2>7, NextIs, SendingSteps, ConnStepsDo, PageStepsDo
       DEF vars
<1> QED BY <1>1, <1>3, <1>4 DEF c

\* A further message changes nothing for those that wait.
LEMMA WaitingAppend ==
  ASSUME Typed, NEW m \in RunMsg, msgs' = Append(msgs, m), entry' = entry, NEW r \in Runs
  PROVE  (Coming(r) => Coming(r)') /\ (Stopping(r) => Stopping(r)')
<1>1. /\ Len(msgs') = Len(msgs) + 1 /\ Len(msgs) \in Nat
      /\ \A i \in 1..Len(msgs) : msgs'[i] = msgs[i] /\ i \in 1..Len(msgs')
  BY QueueAppend DEF Typed
<1>2. Registered(r)' <=> Registered(r)
  BY DEF Registered
<1>3. Coming(r) => Coming(r)'
  BY <1>1, <1>2 DEF Coming, AppRunAt
<1>4. ASSUME Stopping(r) PROVE Stopping(r)'
  <2>1. PICK i \in 1..Len(msgs) :
          AppStopAt(i, r) /\ (Registered(r) \/ \E j \in 1..i - 1 : AppRunAt(j, r))
    BY <1>4 DEF Stopping
  <2>2. i \in 1..Len(msgs') /\ AppStopAt(i, r)'
    BY <2>1, <1>1 DEF AppStopAt
  <2>3. ASSUME NEW j \in 1..i - 1, AppRunAt(j, r) PROVE AppRunAt(j, r)'
    BY <2>3, <1>1 DEF AppRunAt
  <2> QED BY <2>1, <2>2, <2>3, <1>2 DEF Stopping
<1> QED BY <1>3, <1>4

\* Handling the message at the head changes nothing for a run it is not for,
\* and nothing for a run that is not registered if it is an AppStop.
LEMMA WaitingTail ==
  ASSUME Typed, msgs # <<>>, msgs' = Tail(msgs), NEW r \in Runs, entry'[r] = entry[r],
         ~AppRunAt(1, r), AppStopAt(1, r) => ~Registered(r)
  PROVE  (Coming(r) => Coming(r)') /\ (Stopping(r) => Stopping(r)')
<1>1. /\ Len(msgs) \in Nat
      /\ \A i \in 2..Len(msgs) : msgs'[i - 1] = msgs[i] /\ i - 1 \in 1..Len(msgs')
  BY QueueTail DEF Typed
<1>2. Registered(r)' <=> Registered(r)
  BY DEF Registered
<1>3. ASSUME NEW j \in 1..Len(msgs), AppRunAt(j, r)
      PROVE  j \in 2..Len(msgs) /\ AppRunAt(j - 1, r)'
  <2>1. j # 1
    BY <1>3
  <2>2. j \in 2..Len(msgs)
    BY <2>1, <1>1
  <2> QED BY <2>2, <1>1, <1>3 DEF AppRunAt
<1>4. Coming(r) => Coming(r)'
  BY <1>1, <1>2, <1>3 DEF Coming
<1>5. ASSUME Stopping(r) PROVE Stopping(r)'
  <2>1. PICK i \in 1..Len(msgs) :
          AppStopAt(i, r) /\ (Registered(r) \/ \E j \in 1..i - 1 : AppRunAt(j, r))
    BY <1>5 DEF Stopping
  <2>2. i # 1
    BY <2>1
  <2>3. i \in 2..Len(msgs)
    BY <2>2, <1>1
  <2>4. i - 1 \in 1..Len(msgs') /\ AppStopAt(i - 1, r)'
    BY <2>1, <2>3, <1>1 DEF AppStopAt
  <2>5. ASSUME NEW j \in 1..i - 1, AppRunAt(j, r)
        PROVE  j - 1 \in 1..(i - 1) - 1 /\ AppRunAt(j - 1, r)'
    <3>1. j \in 1..Len(msgs)
      BY <2>3, <1>1
    <3>2. j \in 2..Len(msgs) /\ AppRunAt(j - 1, r)'
      BY <3>1, <2>5, <1>3
    <3> QED BY <3>2, <2>3, <1>1
  <2> QED BY <2>1, <2>4, <2>5, <1>2 DEF Stopping
<1> QED BY <1>4, <1>5

LEMMA GlobalsStep == IInv /\ [Next]_vars => GlobalsInv'
<1> SUFFICES ASSUME IInv, [Next]_vars, NEW r \in globals', ~Spoiled(r)'
             PROVE  Awaits(r)' \/ Stopping(r)' \/ (HasLive(r)' /\ Coming(r)')
  BY DEF GlobalsInv
<1>t. /\ Typed /\ StepInv /\ r \in Runs
      /\ ~Spoiled(r)
  <2>1. Typed /\ StepInv /\ Typed'
    BY TypedStep DEF IInv
  <2>2. r \in Runs
    BY <2>1 DEF Typed
  <2> QED BY <2>1, <2>2, SpoiledStays
<1>g. ASSUME r \in globals
      PROVE  Awaits(r) \/ Stopping(r) \/ (HasLive(r) /\ Coming(r))
  BY <1>t, <1>g DEF IInv, GlobalsInv
<1>m. ASSUME msgs # <<>>, Head(msgs).type \in {"AppRun", "AppStop"}
      PROVE  Head(msgs).conn \in Conns
  BY <1>t, <1>m, QueueTail, MessageKinds DEF Typed
<1>h. ASSUME msgs # <<>>
      PROVE  Head(msgs) = msgs[1]
  BY <1>t, <1>h, QueueTail DEF Typed
<1>1. ASSUME UNCHANGED <<msgs, entry, awaiting, globals>>, HasLive(r) => HasLive(r)'
      PROVE  Awaits(r)' \/ Stopping(r)' \/ (HasLive(r)' /\ Coming(r)')
  BY <1>1, <1>g DEF Awaits, Stopping, Coming, Registered, AppRunAt, AppStopAt
<1>l. conn' = conn => (HasLive(r) => HasLive(r)')
  BY DEF HasLive, Live
<1>2. ASSUME NEW q \in Runs, Open(q)
      PROVE  Awaits(r)' \/ Stopping(r)' \/ (HasLive(r)' /\ Coming(r)')
  <2> DEFINE c == <<q, Opened(q) + 1>>
  <2>1. c \in Conns /\ conn[c] = "none" /\ Opened(q) + 1 \in 1..MaxConns[q]
    BY <1>2, NextConn DEF Open, IInv
  <2>2. /\ conn'[c] \in {"open", "replying"}
        /\ \A d \in Conns : d # c => conn'[d] = conn[d]
    BY <1>2, <1>t, <2>1 DEF Open, Typed
  <2>3. /\ AppRun(c) \in RunMsg /\ AppRun(c).type = "AppRun" /\ AppRun(c).conn = c
        /\ msgs' = Append(msgs, AppRun(c)) /\ entry' = entry /\ awaiting' = awaiting
        /\ globals' = globals \cup {q}
    BY <1>2, <2>1, MessagesAre, SendingSteps
  <2>4. CASE q = r
    <3>1. HasLive(r)'
      BY <2>4, <2>1, <2>2 DEF HasLive, Live
    <3>2. Len(msgs) + 1 \in 1..Len(msgs') /\ msgs'[Len(msgs) + 1] = AppRun(c)
      BY <1>t, <2>3, QueueAppend DEF Typed
    <3>3. PICK n \in 1..Len(msgs') : msgs'[n] = AppRun(c)
      BY <3>2
    <3>4. AppRunAt(n, r)'
      BY <3>3, <2>3, <2>4 DEF AppRunAt
    <3> QED BY <3>1, <3>3, <3>4 DEF Coming
  <2>5. CASE q # r
    <3>1. r \in globals
      BY <2>3, <2>5
    <3>2. HasLive(r) => HasLive(r)'
      BY <2>2, <2>5, <1>t, ConnsAre DEF HasLive, Live
    <3>3. (Coming(r) => Coming(r)') /\ (Stopping(r) => Stopping(r)')
      BY <2>3, <1>t, WaitingAppend
    <3> QED BY <3>1, <3>2, <3>3, <1>g, <2>3 DEF Awaits
  <2> QED BY <2>4, <2>5
<1>3. ASSUME NEW c \in Conns, Reply(c) \/ Refuse(c) \/ Panic(c)
      PROVE  Awaits(r)' \/ Stopping(r)' \/ (HasLive(r)' /\ Coming(r)')
  <2>1. /\ UNCHANGED <<msgs, entry, awaiting, globals>>
        /\ \A d \in Conns : d # c => conn'[d] = conn[d]
        /\ conn'[c] = "open" \/ conn'[c] \in Silent
    BY <1>3, <1>t, ConnStepsDo DEF Typed
  <2>2. c[1] = r => conn'[c] \notin Silent
    BY ConnsAre DEF Spoiled
  <2>3. HasLive(r) => HasLive(r)'
    BY <2>1, <2>2, <1>t, ConnsAre DEF HasLive, Live
  <2> QED BY <1>1, <2>1, <2>3
<1>4. ASSUME NEW c \in Conns, NEW how \in Ends, Close(c, how)
      PROVE  Awaits(r)' \/ Stopping(r)' \/ (HasLive(r)' /\ Coming(r)')
  <2>1. /\ AppStop(c, how) \in RunMsg
        /\ AppStop(c, how).type = "AppStop" /\ AppStop(c, how).conn = c
        /\ msgs' = Append(msgs, AppStop(c, how)) /\ entry' = entry /\ awaiting' = awaiting
        /\ globals' = globals
        /\ \A d \in Conns : d # c => conn'[d] = conn[d]
    BY <1>4, <1>t, MessagesAre, SendingSteps DEF Typed
  <2>2. (Coming(r) => Coming(r)') /\ (Stopping(r) => Stopping(r)')
    BY <2>1, <1>t, WaitingAppend
  <2>3. CASE c[1] # r
    <3>1. HasLive(r) => HasLive(r)'
      BY <2>1, <2>3, <1>t, ConnsAre DEF HasLive, Live
    <3> QED BY <2>1, <2>2, <3>1, <1>g DEF Awaits
  <2>4. CASE c[1] = r
    <3>1. ASSUME Coming(r) PROVE Stopping(r)'
      <4>1. PICK n \in 1..Len(msgs') :
              /\ msgs'[n] = AppStop(c, how) /\ 1..n - 1 = 1..Len(msgs)
              /\ \A i \in 1..Len(msgs) : msgs'[i] = msgs[i]
        <5>1. /\ Len(msgs) \in Nat /\ Len(msgs) + 1 \in 1..Len(msgs')
              /\ msgs'[Len(msgs) + 1] = AppStop(c, how)
              /\ \A i \in 1..Len(msgs) : msgs'[i] = msgs[i]
          BY <1>t, <2>1, QueueAppend DEF Typed
        <5>2. (Len(msgs) + 1) - 1 = Len(msgs)
          BY <5>1
        <5> QED BY <5>1, <5>2
      <4>2. AppStopAt(n, r)'
        BY <4>1, <2>1, <2>4 DEF AppStopAt
      <4>3. ASSUME NEW j \in 1..Len(msgs), AppRunAt(j, r)
            PROVE  j \in 1..n - 1 /\ AppRunAt(j, r)'
        BY <4>1, <4>3 DEF AppRunAt
      <4>4. Registered(r)' <=> Registered(r)
        BY <2>1 DEF Registered
      <4> QED BY <3>1, <4>1, <4>2, <4>3, <4>4 DEF Coming, Stopping
    <3> QED BY <2>1, <2>2, <3>1, <1>g DEF Awaits
  <2> QED BY <2>3, <2>4
<1>5. ASSUME NEW w \in Watchers, Subscribe(w)
      PROVE  Awaits(r)' \/ Stopping(r)' \/ (HasLive(r)' /\ Coming(r)')
  <2>1. /\ AddRecordWatcher(w) \in RunMsg /\ msgs' = Append(msgs, AddRecordWatcher(w))
        /\ entry' = entry /\ awaiting' = awaiting /\ globals' = globals /\ conn' = conn
    BY <1>5, MessagesAre, SendingSteps
  <2>2. (Coming(r) => Coming(r)') /\ (Stopping(r) => Stopping(r)')
    BY <2>1, <1>t, WaitingAppend
  <2> QED BY <2>1, <2>2, <1>g DEF Awaits, HasLive, Live
<1>6. CASE TaskSteps \/ PageSteps \/ Begins \/ SpawnTask \/ UNCHANGED vars
  <2>1. UNCHANGED <<conn, msgs, entry, awaiting, globals>>
    BY <1>6, <1>t, TaskStepsDo, PageStepsDo, BeginsDoes, SpawnTaskDoes DEF vars, TaskSteps
  <2> QED BY <1>1, <1>l, <2>1
<1>7. CASE InsertEntry
  <2> DEFINE c == Head(msgs).conn
  <2>1. /\ msgs # <<>> /\ Head(msgs).type = "AppRun" /\ msgs' = Tail(msgs)
        /\ awaiting = {} /\ globals' = globals /\ conn' = conn
        /\ entry' = [entry EXCEPT ![c[1]] = c[2]]
    BY <1>7, <1>t, InsertEntryDoes
  <2>2. c \in Conns /\ c[1] \in Runs /\ c[2] # 0
    BY <2>1, <1>m, ConnsAre, MaxConnsType
  <2>3. ~Awaits(r) /\ (HasLive(r) => HasLive(r)')
    BY <2>1 DEF Awaits, HasLive, Live
  <2>4. CASE c[1] = r
    <3>1. Registered(r)'
      BY <2>1, <2>2, <2>4, <1>t DEF Registered, Typed
    <3>2. ASSUME Stopping(r) PROVE Stopping(r)'
      <4>1. PICK i \in 1..Len(msgs) : AppStopAt(i, r)
        BY <3>2 DEF Stopping
      <4>2. i # 1
        BY <4>1, <2>1, <1>h DEF AppStopAt
      <4>3. i - 1 \in 1..Len(msgs') /\ msgs'[i - 1] = msgs[i]
        BY <4>2, <2>1, <1>t, QueueTail DEF Typed
      <4> QED BY <4>1, <4>3, <3>1 DEF Stopping, AppStopAt
    <3> QED BY <3>1, <3>2, <2>1, <2>3, <1>g DEF Coming
  <2>5. CASE c[1] # r
    <3>1. entry'[r] = entry[r] /\ ~AppRunAt(1, r) /\ ~AppStopAt(1, r)
      BY <2>1, <2>5, <1>t, <1>h DEF AppRunAt, AppStopAt, Typed
    <3>2. (Coming(r) => Coming(r)') /\ (Stopping(r) => Stopping(r)')
      BY <3>1, <2>1, <1>t, WaitingTail
    <3> QED BY <3>2, <2>1, <2>3, <1>g
  <2> QED BY <2>4, <2>5
<1>8. CASE RejectAppRun
  <2> DEFINE c == Head(msgs).conn
  <2>1. /\ msgs # <<>> /\ Head(msgs).type = "AppRun" /\ msgs' = Tail(msgs)
        /\ awaiting' = awaiting /\ globals' = globals /\ conn' = conn /\ entry' = entry
        /\ task' = [task EXCEPT ![c] = "rejected"]
    BY <1>8, <1>t, RejectAppRunDoes
  <2>2. c \in Conns /\ task'[c] = "rejected"
    BY <2>1, <1>m, <1>t DEF Typed
  <2>3. c[1] # r
    BY <2>2, ConnsAre DEF Spoiled
  <2>4. ~AppRunAt(1, r) /\ ~AppStopAt(1, r)
    BY <2>1, <2>3, <1>h DEF AppRunAt, AppStopAt
  <2>5. (Coming(r) => Coming(r)') /\ (Stopping(r) => Stopping(r)')
    BY <2>1, <2>4, <1>t, WaitingTail
  <2> QED BY <2>1, <2>5, <1>g DEF Awaits, HasLive, Live
<1>9. CASE Removes
  <2> DEFINE q == Head(msgs).conn[1]
  <2>1. /\ msgs # <<>> /\ Head(msgs).type = "AppStop" /\ msgs' = Tail(msgs)
        /\ awaiting = {} /\ globals' = globals /\ conn' = conn
        /\ awaiting' = IF Registered(q) THEN {<<q, entry[q]>>} ELSE {}
        /\ entry' = [entry EXCEPT ![q] = 0]
    BY <1>9, <1>t, RemovesDoes
  <2>2. CASE q = r /\ Registered(r)
    BY <2>1, <2>2 DEF Awaits
  <2>3. CASE ~(q = r /\ Registered(r))
    <3>1. entry'[r] = entry[r]
      BY <2>1, <2>3, <1>t DEF Registered, Typed
    <3>2. ~AppRunAt(1, r) /\ (AppStopAt(1, r) => ~Registered(r))
      BY <2>1, <2>3, <1>h DEF AppRunAt, AppStopAt
    <3>3. (Coming(r) => Coming(r)') /\ (Stopping(r) => Stopping(r)')
      BY <3>1, <3>2, <2>1, <1>t, WaitingTail
    <3> QED BY <3>3, <2>1, <1>g DEF Awaits, HasLive, Live
  <2> QED BY <2>2, <2>3
<1>10. CASE Awaited
  <2>1. PICK c \in awaiting : awaiting' = {} /\ globals' = globals \ {c[1]}
    BY <1>10 DEF Awaited
  <2>2. UNCHANGED <<conn, msgs, entry>> /\ r \in globals /\ r # c[1]
    BY <1>10, <2>1 DEF Awaited, connVars
  <2>3. ~Awaits(r)
    BY <2>1, <2>2, <1>t DEF Awaits, Typed
  <2> QED
    BY <2>2, <2>3, <1>g DEF Stopping, HasLive, Live, Coming, Registered, AppRunAt, AppStopAt
<1>11. CASE HandleAddRecordWatcher
  <2>1. /\ msgs # <<>> /\ Head(msgs).type = "AddRecordWatcher" /\ msgs' = Tail(msgs)
        /\ awaiting' = awaiting /\ globals' = globals /\ conn' = conn /\ entry' = entry
    BY <1>11, <1>t, AddWatcherDoes
  <2>2. ~AppRunAt(1, r) /\ ~AppStopAt(1, r)
    BY <2>1, <1>h DEF AppRunAt, AppStopAt
  <2>3. (Coming(r) => Coming(r)') /\ (Stopping(r) => Stopping(r)')
    BY <2>1, <2>2, <1>t, WaitingTail
  <2> QED BY <2>1, <2>3, <1>g DEF Awaits, HasLive, Live
<1> QED
  BY <1>2, <1>3, <1>4, <1>5, <1>6, <1>7, <1>8, <1>9, <1>10, <1>11, NextIs DEF TaskSteps

-----------------------------------------------------------------------------
\* The invariant holds in every state: whatever connections, browsers, tasks and
\* the registry do, in any order.
THEOREM Invariance == Spec => []IInv
<1>1. IInv /\ [Next]_vars => IInv'
  BY TypedStep, StepInvStep, InOrderStep, MsgInvStep, TaskInvStep, GlobalsStep DEF IInv
<1> QED BY InitInv, <1>1, PTL DEF Spec

\* The variables keep to their types, the registry awaits one task at most, and
\* the task of a registered connection was started and is not over in good order.
THEOREM TypeCorrect == Spec => []TypeOK
<1>1. IInv => TypeOK
  <2> SUFFICES ASSUME IInv PROVE TypeOK
    OBVIOUS
  <2>1. \A c \in Conns : conn[c] # "none" <=> c[2] <= Opened(c[1])
    BY ConnsAre DEF IInv, InOrder
  <2>2. Cardinality(awaiting) <= 1
    <3>1. CASE awaiting = {}
      BY <3>1, FS_EmptySet
    <3>2. ASSUME NEW c \in awaiting PROVE Cardinality(awaiting) <= 1
      <4>1. awaiting = {c}
        BY DEF IInv, Typed
      <4>2. Cardinality({c}) = 1
        BY FS_Singleton
      <4> QED BY <4>1, <4>2
    <3> QED BY <3>1, <3>2
  <2>3. \A r \in Runs : entry[r] \in 0..MaxConns[r]
    BY MaxConnsType DEF IInv, Typed
  <2> QED
    BY <2>1, <2>2, <2>3, LenProperties DEF IInv, Typed, StepInv, TaskInv, TypeOK, ConnStates, TaskStates
<1> QED BY Invariance, <1>1, PTL

\* When nothing of a run is under way GLOBAL_DATA has let go of it, unless a
\* connection of it was refused, panicked or was rejected.
THEOREM GlobalsLetGo == Spec => []GlobalsReleased
<1>1. IInv => GlobalsReleased
  <2> SUFFICES ASSUME IInv, NEW r \in Runs, Rests(r), r \in globals
               PROVE  Spoiled(r)
    BY DEF GlobalsReleased, Spoiled
  <2>1. ~HasLive(r) /\ ~Awaits(r)
    BY DEF Rests, HasLive, Awaits
  <2>2. ~Stopping(r)
    BY EmptySeq DEF Rests, Stopping
  <2> QED BY <2>1, <2>2 DEF IInv, GlobalsInv
<1> QED BY Invariance, <1>1, PTL
=============================================================================
