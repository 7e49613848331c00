------------------------- MODULE RunReconnectProofs -------------------------
(***************************************************************************)
(* What RunRegistry keeps when clients come back late enough: only refused *)
(* and panicked connections have records discarded if the server's side of *)
(* the old connection is over ("closed"), and GLOBAL_DATA knows every run  *)
(* that lives if the registry has dealt with the old connection as well    *)
(* ("settled").                                                            *)
(*                                                                         *)
(* The first rests on the order of messages: the AppRuns of a run wait in  *)
(* the order of its connections, and the AppStop of a connection that      *)
(* ended waits before the AppRun of a later one.  A connection that is     *)
(* replaced has then neither ended nor lives: it was refused or panicked.  *)
(* Tasks start in the same order, so that of two that execute the older is *)
(* the one that is replaced.                                               *)
(*                                                                         *)
(* Also, with the server's side of the old connection over, the row of a   *)
(* run that rests tells how its last connection ended: its last AppStop    *)
(* waits, or the row has it.                                               *)
(***************************************************************************)
EXTENDS RunRegistryProofs

Apart == reconnects # "overlap"

\* The AppRuns of a run wait in the order of its connections, all of them later
\* than the one that is registered.
InTurn ==
  /\ \A i \in 1..Len(msgs) :
       msgs[i].type = "AppRun" => entry[msgs[i].conn[1]] < msgs[i].conn[2]
  /\ \A i, j \in 1..Len(msgs) :
       i < j /\ msgs[i].type = "AppRun" /\ msgs[j].type = "AppRun"
             /\ msgs[i].conn[1] = msgs[j].conn[1]
         => msgs[i].conn[2] < msgs[j].conn[2]

\* An AppStop is of a connection that ended, an awaited task of one that opened.
Spoken ==
  /\ \A i \in 1..Len(msgs) : msgs[i].type = "AppStop" => conn[msgs[i].conn] \in Ends
  /\ \A c \in awaiting : conn[c] # "none"

\* Only the latest connection of a run lives.
LatestLives == Apart => \A c \in Conns : Live(c) => c[2] = Opened(c[1])

\* Connection d is registered, which is place 0, or its AppRun waits at place p.
At(d, p) == \/ p = 0 /\ entry[d[1]] = d[2]
            \/ p \in 1..Len(msgs) /\ msgs[p].type = "AppRun" /\ msgs[p].conn = d

\* An AppStop of the run waits after place p and before the next AppRun.
StopsAfter(r, p) ==
  \E i \in 1..Len(msgs) :
    /\ AppStopAt(i, r) /\ p < i
    /\ \A j \in 1..Len(msgs) : AppRunAt(j, r) /\ p < j => i < j

StopsInTurn ==
  Apart => \A d \in Conns : \A p \in 0..Len(msgs) :
    At(d, p) /\ conn[d] \in Ends => StopsAfter(d[1], p)

\* While a connection lives nothing waits that would end its run.
Unthreatened ==
  reconnects = "settled" =>
    \A c \in Conns : Live(c) =>
      ~Awaits(c[1]) /\ \A i \in 1..Len(msgs) : ~AppStopAt(i, c[1])

\* Tasks start in the order of the connections, and one that is told to abort is
\* older than the one that runs.
TasksInTurn ==
  /\ \A i \in 1..Len(msgs) : msgs[i].type = "AppRun" =>
       \A c \in Conns : c[1] = msgs[i].conn[1] /\ task[c] # "none" => c[2] <= msgs[i].conn[2]
  /\ \A c, d \in Conns :
       c[1] = d[1] /\ task[c] = "aborting" /\ task[d] = "running" => c[2] < d[2]

RInv == /\ IInv
        /\ InTurn /\ Spoken /\ LatestLives /\ StopsInTurn /\ NothingDiscarded
        /\ Unthreatened /\ LiveRunsAreGlobal /\ TasksInTurn

-----------------------------------------------------------------------------
\* A message of a run is of one of its connections.
LEMMA ConnAt ==
  ASSUME Typed, NEW i \in 1..Len(msgs), msgs[i].type \in {"AppRun", "AppStop"}
  PROVE  /\ msgs[i].conn \in Conns /\ msgs[i].conn[1] \in Runs
         /\ msgs[i].conn[2] \in Nat \ {0}
         /\ msgs[i].conn = <<msgs[i].conn[1], msgs[i].conn[2]>>
<1>1. msgs[i].conn \in Conns
  BY MessageAt, MessageKinds DEF Typed
<1>2. QED
  BY <1>1, ConnsAre, MaxConnsType

\* The number of a connection that was opened, and of one that is registered.
LEMMA OpenedNumbers ==
  ASSUME IInv, NEW r \in Runs
  PROVE  /\ Opened(r) \in Nat /\ entry[r] \in Nat /\ entry[r] <= Opened(r)
         /\ \A c \in Conns : conn[c] # "none" /\ c[1] = r => c[2] <= Opened(r)
         /\ entry[r] # 0 => <<r, entry[r]>> \in Conns /\ conn[<<r, entry[r]>>] # "none"
<1>1. Opened(r) \in Nat
  <2>1. IsFiniteSet(1..MaxConns[r])
    BY MaxConnsType, FS_Interval
  <2>2. IsFiniteSet({k \in 1..MaxConns[r] : conn[<<r, k>>] # "none"})
    BY <2>1, FS_Subset, {k \in 1..MaxConns[r] : conn[<<r, k>>] # "none"} \subseteq 1..MaxConns[r]
  <2>3. QED
    BY <2>2, FS_CardinalityType DEF Opened
<1>2. \A c \in Conns : conn[c] # "none" /\ c[1] = r => c[2] <= Opened(r)
  BY ConnsAre DEF IInv, InOrder
<1>3. entry[r] \in Nat /\ entry[r] <= MaxConns[r] /\ MaxConns[r] \in Nat
  BY MaxConnsType DEF IInv, Typed
<1>4. ASSUME entry[r] # 0
      PROVE  <<r, entry[r]>> \in Conns /\ conn[<<r, entry[r]>>] # "none"
  <2>1. <<r, entry[r]>> \in Conns
    BY <1>3, <1>4, ConnsAre
  <2>2. task[<<r, entry[r]>>] # "none"
    BY <1>4 DEF IInv, TaskInv, Registered
  <2>3. QED
    BY <2>1, <2>2 DEF IInv, MsgInv
<1>5. entry[r] <= Opened(r)
  BY <1>1, <1>2, <1>3, <1>4
<1>6. QED
  BY <1>1, <1>2, <1>3, <1>4, <1>5

\* What a step does to the messages and the entries.
AppendStep == \/ \E r \in Runs : Open(r)
              \/ \E c \in Conns, how \in Ends : Close(c, how)
              \/ \E w \in Watchers : Subscribe(w)
TailStep   == InsertEntry \/ RejectAppRun \/ Removes \/ HandleAddRecordWatcher
StillStep  == UNCHANGED <<msgs, entry>>

\* Each step is one of these kinds, and registers or awaits in these ways only.
LEMMA StepKinds ==
  ASSUME IInv, [Next]_vars
  PROVE  /\ AppendStep \/ TailStep \/ StillStep
         /\ reconnects' = reconnects
         /\ ~Removes => awaiting' \subseteq awaiting
         /\ ~Awaited => globals \subseteq globals'
<1>t. IInv /\ Typed /\ StepInv
  BY DEF IInv
<1> USE DEF AppendStep, TailStep, StillStep
<1>1. CASE UNCHANGED vars
  BY <1>1 DEF vars
<1>2. CASE AppendStep
  BY <1>2, SendingSteps
<1>3. CASE InsertEntry
  BY <1>3, <1>t, InsertEntryDoes
<1>4. CASE RejectAppRun
  BY <1>4, <1>t, RejectAppRunDoes
<1>5. CASE Removes
  BY <1>5, <1>t, RemovesDoes
<1>6. CASE HandleAddRecordWatcher
  BY <1>6, <1>t, AddWatcherDoes
<1>7. CASE Awaited
  BY <1>7 DEF Awaited, connVars, tellVars
<1>8. CASE Begins
  BY <1>8, <1>t, BeginsDoes
<1>9. CASE SpawnTask
  BY <1>9, <1>t, SpawnTaskDoes
<1>10. CASE \E c \in Conns : Reply(c) \/ Refuse(c) \/ Panic(c)
  BY <1>10, ConnStepsDo
<1>11. CASE \E c \in Conns : TaskFinishes(c) \/ TaskFails(c) \/ TaskAborts(c)
  BY <1>11, TaskStepsDo
<1>12. CASE PageSteps
  BY <1>12, PageStepsDo
<1>13. QED
  BY <1>1, <1>2, <1>3, <1>4, <1>5, <1>6, <1>7, <1>8, <1>9, <1>10, <1>11, <1>12, NextIs

\* A message is put in at the end.
LEMMA Appended ==
  ASSUME Typed, NEW m \in RunMsg, msgs' = Append(msgs, m)
  PROVE  /\ Len(msgs) \in Nat /\ Len(msgs') = Len(msgs) + 1
         /\ \A i \in 1..Len(msgs) : msgs'[i] = msgs[i] /\ i \in 1..Len(msgs')
         /\ msgs'[Len(msgs')] = m /\ Len(msgs') \in 1..Len(msgs')
         /\ \A i \in 1..Len(msgs') : i \in 1..Len(msgs) \/ i = Len(msgs')
  BY QueueAppend DEF Typed

\* The message at the head is taken out.
LEMMA Taken ==
  ASSUME Typed, StepInv, TailStep
  PROVE  /\ Len(msgs) \in Nat \ {0} /\ Len(msgs') = Len(msgs) - 1 /\ 1 \in 1..Len(msgs)
         /\ \A i \in 1..Len(msgs') : msgs'[i] = msgs[i + 1] /\ i + 1 \in 1..Len(msgs) /\ 1 < i + 1
         /\ \A i \in 1..Len(msgs) : i # 1 => msgs'[i - 1] = msgs[i] /\ i - 1 \in 1..Len(msgs')
         /\ Head(msgs) = msgs[1] /\ awaiting = {}
         /\ UNCHANGED <<conn, globals>>
<1>1. /\ msgs # <<>> /\ msgs' = Tail(msgs) /\ awaiting = {} /\ UNCHANGED <<conn, globals>>
  BY InsertEntryDoes, RejectAppRunDoes, RemovesDoes, AddWatcherDoes DEF TailStep
<1>2. msgs \in Seq(RunMsg)
  BY DEF Typed
<1>3. Len(msgs) \in Nat \ {0} /\ Len(msgs') = Len(msgs) - 1 /\ Head(msgs) = msgs[1]
  BY <1>1, <1>2, QueueTail
<1>4. \A i \in 1..Len(msgs') : msgs'[i] = msgs[i + 1] /\ i + 1 \in 2..Len(msgs)
  BY <1>1, <1>2, QueueTail
<1>5. \A i \in 2..Len(msgs) : msgs'[i - 1] = msgs[i] /\ i - 1 \in 1..Len(msgs')
  BY <1>1, <1>2, QueueTail
<1>6. \A i \in 1..Len(msgs) : i # 1 => i \in 2..Len(msgs)
  BY <1>3
<1>7. QED
  BY <1>1, <1>3, <1>4, <1>5, <1>6

-----------------------------------------------------------------------------
\* Connections are numbered as they open, and AppRun is sent when one opens.
LEMMA InTurnStep ==
  ASSUME RInv, [Next]_vars
  PROVE  InTurn'
<1>t. IInv /\ Typed /\ StepInv /\ InTurn
  BY DEF RInv, IInv
<1>1. ASSUME NEW r \in Runs, Open(r)
      PROVE  InTurn'
  <2> DEFINE n == Opened(r) + 1
             c == <<r, n>>
  <2>1. c \in Conns /\ c[1] = r /\ c[2] = n
    BY <1>t, <1>1, NextConn DEF Open, IInv
  <2>2. /\ AppRun(c) \in RunMsg /\ AppRun(c).type = "AppRun" /\ AppRun(c).conn = c
        /\ msgs' = Append(msgs, AppRun(c)) /\ entry' = entry
    BY <1>1, <2>1, MessagesAre DEF Open, entryVars
  <2>3. entry[r] < n
    <3>1. Opened(r) \in Nat /\ entry[r] \in Nat /\ entry[r] <= Opened(r)
      BY <1>t, OpenedNumbers
    <3>2. QED
      BY <3>1
  <2>4. \A i \in 1..Len(msgs) : msgs[i].type = "AppRun" /\ msgs[i].conn[1] = r
          => msgs[i].conn[2] < n
    <3> SUFFICES ASSUME NEW i \in 1..Len(msgs), msgs[i].type = "AppRun", msgs[i].conn[1] = r
                 PROVE  msgs[i].conn[2] < n
      OBVIOUS
    <3>1. msgs[i].conn \in Conns /\ msgs[i].conn[2] \in Nat /\ conn[msgs[i].conn] # "none"
      BY <1>t, ConnAt DEF IInv, MsgInv
    <3>2. msgs[i].conn[2] <= Opened(r) /\ Opened(r) \in Nat
      BY <1>t, <3>1, OpenedNumbers
    <3>3. QED
      BY <3>1, <3>2
  <2>5. \A i \in 1..Len(msgs') : \/ i \in 1..Len(msgs) /\ msgs'[i] = msgs[i]
                                 \/ i = Len(msgs') /\ msgs'[i] = AppRun(c)
    BY <1>t, <2>2, Appended
  <2>6. Len(msgs) \in Nat /\ Len(msgs') = Len(msgs) + 1
    BY <1>t, <2>2, Appended
  <2>7. \A i \in 1..Len(msgs') :
          msgs'[i].type = "AppRun" => entry'[msgs'[i].conn[1]] < msgs'[i].conn[2]
    BY <1>t, <2>1, <2>2, <2>3, <2>5 DEF InTurn
  <2>8. ASSUME NEW i \in 1..Len(msgs'), NEW j \in 1..Len(msgs'), i < j,
               msgs'[i].type = "AppRun", msgs'[j].type = "AppRun",
               msgs'[i].conn[1] = msgs'[j].conn[1]
        PROVE  msgs'[i].conn[2] < msgs'[j].conn[2]
    <3>1. i \in 1..Len(msgs) /\ msgs'[i] = msgs[i]
      BY <2>5, <2>6, <2>8
    <3>2. CASE j \in 1..Len(msgs) /\ msgs'[j] = msgs[j]
      BY <1>t, <2>8, <3>1, <3>2 DEF InTurn
    <3>3. CASE msgs'[j] = AppRun(c)
      BY <2>1, <2>2, <2>4, <2>8, <3>1, <3>3
    <3>4. QED
      BY <2>5, <3>2, <3>3
  <2>9. QED
    BY <2>7, <2>8 DEF InTurn
<1>2. ASSUME NEW m \in RunMsg, m.type # "AppRun", msgs' = Append(msgs, m), entry' = entry
      PROVE  InTurn'
  <2>1. \A i \in 1..Len(msgs') : msgs'[i].type = "AppRun" => i \in 1..Len(msgs) /\ msgs'[i] = msgs[i]
    BY <1>t, <1>2, Appended
  <2>2. QED
    BY <1>t, <1>2, <2>1 DEF InTurn
<1>3. CASE \E c \in Conns, how \in Ends : Close(c, how)
  <2>1. PICK c \in Conns, how \in Ends : Close(c, how)
    BY <1>3
  <2>2. msgs' = Append(msgs, AppStop(c, how)) /\ entry' = entry
    BY <2>1 DEF Close, entryVars
  <2>3. AppStop(c, how) \in RunMsg /\ AppStop(c, how).type # "AppRun"
    BY MessagesAre
  <2>4. QED
    BY <1>2, <2>2, <2>3
<1>4. CASE \E w \in Watchers : Subscribe(w)
  <2>1. PICK w \in Watchers : Subscribe(w)
    BY <1>4
  <2>2. msgs' = Append(msgs, AddRecordWatcher(w)) /\ entry' = entry
    BY <2>1 DEF Subscribe, entryVars
  <2>3. AddRecordWatcher(w) \in RunMsg /\ AddRecordWatcher(w).type # "AppRun"
    BY MessagesAre
  <2>4. QED
    BY <1>2, <2>2, <2>3
<1>5. CASE TailStep
  <2>1. /\ \A i \in 1..Len(msgs') : msgs'[i] = msgs[i + 1] /\ i + 1 \in 1..Len(msgs) /\ 1 < i + 1
        /\ 1 \in 1..Len(msgs) /\ Head(msgs) = msgs[1]
    BY <1>t, <1>5, Taken
  <2>2. \A i, j \in 1..Len(msgs') : i < j => i + 1 < j + 1
    BY <1>t, <1>5, Taken
  <2>3. \A i, j \in 1..Len(msgs') :
          i < j /\ msgs'[i].type = "AppRun" /\ msgs'[j].type = "AppRun"
                /\ msgs'[i].conn[1] = msgs'[j].conn[1]
            => msgs'[i].conn[2] < msgs'[j].conn[2]
    BY <1>t, <2>1, <2>2 DEF InTurn
  <2>4. ASSUME NEW i \in 1..Len(msgs'), msgs'[i].type = "AppRun"
        PROVE  entry'[msgs'[i].conn[1]] < msgs'[i].conn[2]
    <3>1. /\ msgs[i + 1].type = "AppRun" /\ msgs'[i] = msgs[i + 1]
          /\ entry[msgs[i + 1].conn[1]] < msgs[i + 1].conn[2]
          /\ msgs[i + 1].conn[1] \in Runs /\ msgs[i + 1].conn[2] \in Nat \ {0}
      BY <1>t, <2>1, <2>4, ConnAt DEF InTurn
    <3>2. CASE InsertEntry
      <4>1. /\ msgs[1].type = "AppRun"
            /\ entry' = [entry EXCEPT ![msgs[1].conn[1]] = msgs[1].conn[2]]
        BY <1>t, <2>1, <3>2, InsertEntryDoes
      <4>2. msgs[1].conn[1] = msgs[i + 1].conn[1] => msgs[1].conn[2] < msgs[i + 1].conn[2]
        BY <1>t, <2>1, <3>1, <4>1 DEF InTurn
      <4>3. QED
        BY <1>t, <3>1, <4>1, <4>2 DEF Typed
    <3>3. CASE Removes
      <4>1. entry'[msgs[i + 1].conn[1]] \in {0, entry[msgs[i + 1].conn[1]]}
        BY <1>t, <3>1, <3>3, RemovesDoes DEF Typed
      <4>2. QED
        BY <3>1, <4>1
    <3>4. CASE RejectAppRun \/ HandleAddRecordWatcher
      BY <1>t, <3>1, <3>4, RejectAppRunDoes, AddWatcherDoes
    <3>5. QED
      BY <1>5, <3>2, <3>3, <3>4 DEF TailStep
  <2>5. QED
    BY <2>3, <2>4 DEF InTurn
<1>6. CASE StillStep
  BY <1>t, <1>6 DEF StillStep, InTurn
<1>7. QED
  BY <1>t, <1>1, <1>3, <1>4, <1>5, <1>6, StepKinds DEF AppendStep

\* The other steps leave the connections as they are.
LEMMA ConnStays ==
  ASSUME IInv, [Next]_vars,
         \A r \in Runs : ~Open(r),
         \A d \in Conns : ~(Reply(d) \/ Refuse(d) \/ Panic(d)),
         \A d \in Conns, how \in Ends : ~Close(d, how)
  PROVE  conn' = conn
<1>t. Typed /\ StepInv
  BY DEF IInv
<1>1. CASE UNCHANGED vars
  BY <1>1 DEF vars
<1>2. CASE Awaited
  BY <1>2 DEF Awaited, connVars
<1>3. CASE \E c \in Conns : TaskFinishes(c) \/ TaskFails(c) \/ TaskAborts(c)
  BY <1>3, TaskStepsDo
<1>4. CASE Begins \/ Removes \/ PageSteps
  BY <1>4, <1>t, BeginsDoes, RemovesDoes, PageStepsDo
<1>5. CASE SpawnTask \/ InsertEntry \/ RejectAppRun \/ HandleAddRecordWatcher
  BY <1>5, <1>t, SpawnTaskDoes, InsertEntryDoes, RejectAppRunDoes, AddWatcherDoes
<1>6. CASE \E w \in Watchers : Subscribe(w)
  BY <1>6, SendingSteps
<1>7. QED
  BY <1>1, <1>2, <1>3, <1>4, <1>5, <1>6, NextIs

\* What a connection has come to.
LEMMA ConnStep ==
  ASSUME RInv, [Next]_vars, NEW c \in Conns
  PROVE  /\ conn[c] \in Over => conn'[c] = conn[c]
         /\ conn[c] # "none" => conn'[c] # "none"
         /\ Live(c)' => Live(c) \/ (Open(c[1]) /\ c[2] = Opened(c[1]) + 1)
         /\ conn'[c] \in Ends /\ conn[c] \notin Ends => \E how \in Ends : Close(c, how)
<1>t. IInv /\ Typed /\ StepInv /\ conn \in [Conns -> ConnStates]
  BY DEF RInv, IInv, Typed
<1> DEFINE opens  == Open(c[1]) /\ c[2] = Opened(c[1]) + 1
           closes == \E how \in Ends : Close(c, how)
<1>1. \/ conn'[c] = conn[c]
      \/ conn[c] = "none" /\ conn'[c] \in {"open", "replying"} /\ opens
      \/ conn[c] = "replying" /\ conn'[c] \in {"open", "refused"}
      \/ conn[c] = "open" /\ conn'[c] = "panicked"
      \/ conn[c] = "open" /\ conn'[c] \in Ends /\ closes
  <2>1. CASE \E r \in Runs : Open(r)
    <3>1. PICK r \in Runs : Open(r)
      BY <2>1
    <3>2. <<r, Opened(r) + 1>> \in Conns /\ conn[<<r, Opened(r) + 1>>] = "none"
      BY <1>t, <3>1, NextConn DEF Open, IInv
    <3>3. CASE c = <<r, Opened(r) + 1>>
      <4>1. c[1] = r /\ c[2] = Opened(r) + 1
        BY <3>3
      <4>2. conn'[c] \in {"open", "replying"}
        BY <1>t, <3>1, <3>2, <3>3 DEF Open
      <4>3. QED
        BY <3>1, <3>2, <3>3, <4>1, <4>2
    <3>4. CASE c # <<r, Opened(r) + 1>>
      BY <1>t, <3>1, <3>2, <3>4 DEF Open
    <3>5. QED
      BY <3>3, <3>4
  <2>2. CASE \E d \in Conns : Reply(d) \/ Refuse(d) \/ Panic(d)
    BY <1>t, <2>2 DEF Reply, Refuse, Panic
  <2>3. CASE \E d \in Conns, how \in Ends : Close(d, how)
    <3>1. PICK d \in Conns, how \in Ends : Close(d, how)
      BY <2>3
    <3>2. CASE c = d
      <4>1. conn[c] = "open" /\ conn'[c] = how
        BY <1>t, <3>1, <3>2 DEF Close
      <4>2. QED
        BY <3>1, <3>2, <4>1
    <3>3. CASE c # d
      BY <1>t, <3>1, <3>3 DEF Close
    <3>4. QED
      BY <3>2, <3>3
  <2>4. CASE ~ \/ \E r \in Runs : Open(r)
               \/ \E d \in Conns : Reply(d) \/ Refuse(d) \/ Panic(d)
               \/ \E d \in Conns, how \in Ends : Close(d, how)
    <3>1. conn' = conn
      BY <1>t, <2>4, ConnStays
    <3>2. QED
      BY <3>1
  <2>5. QED
    BY <2>1, <2>2, <2>3, <2>4
<1> HIDE DEF opens, closes
<1>2. /\ conn[c] \in Over => conn'[c] = conn[c]
      /\ conn[c] # "none" => conn'[c] # "none"
      /\ Live(c)' => Live(c) \/ opens
      /\ conn'[c] \in Ends /\ conn[c] \notin Ends => closes
  BY <1>1 DEF Live, Over, Silent, Ends
<1>3. QED
  BY <1>2 DEF opens, closes

\* Nothing speaks of a connection before it opened or stops it before it ended.
LEMMA SpokenStep ==
  ASSUME RInv, [Next]_vars
  PROVE  Spoken'
<1>t. IInv /\ Typed /\ StepInv /\ Spoken
  BY DEF RInv, IInv
<1>1. ASSUME NEW i \in 1..Len(msgs'), msgs'[i].type = "AppStop"
      PROVE  conn'[msgs'[i].conn] \in Ends
  <2>1. ASSUME NEW j \in 1..Len(msgs), msgs'[i] = msgs[j]
        PROVE  conn'[msgs'[i].conn] \in Ends
    BY <1>t, <1>1, <2>1, ConnAt, ConnStep DEF Spoken, Over
  <2>2. CASE \E r \in Runs : Open(r)
    <3>1. PICK r \in Runs : Open(r)
      BY <2>2
    <3>2. <<r, Opened(r) + 1>> \in Conns
      BY <1>t, <3>1, NextConn DEF Open, IInv
    <3>3. i \in 1..Len(msgs) /\ msgs'[i] = msgs[i]
      BY <1>t, <1>1, <3>1, <3>2, Appended, MessagesAre DEF Open
    <3>4. QED
      BY <2>1, <3>3
  <2>3. CASE \E c \in Conns, how \in Ends : Close(c, how)
    <3>1. PICK c \in Conns, how \in Ends : Close(c, how)
      BY <2>3
    <3>2. AppStop(c, how) \in RunMsg /\ AppStop(c, how).conn = c
          /\ msgs' = Append(msgs, AppStop(c, how)) /\ conn'[c] \in Ends
      BY <1>t, <3>1, MessagesAre DEF Close, Typed
    <3>3. (i \in 1..Len(msgs) /\ msgs'[i] = msgs[i]) \/ msgs'[i] = AppStop(c, how)
      BY <1>t, <3>2, Appended
    <3>4. QED
      BY <2>1, <3>2, <3>3
  <2>4. CASE \E w \in Watchers : Subscribe(w)
    <3>1. i \in 1..Len(msgs) /\ msgs'[i] = msgs[i]
      BY <1>t, <1>1, <2>4, Appended, MessagesAre DEF Subscribe
    <3>2. QED
      BY <2>1, <3>1
  <2>5. CASE TailStep
    BY <1>t, <2>1, <2>5, Taken
  <2>6. CASE StillStep
    BY <2>1, <2>6 DEF StillStep
  <2>7. QED
    BY <1>t, <2>2, <2>3, <2>4, <2>5, <2>6, StepKinds DEF AppendStep
<1>2. ASSUME NEW c \in awaiting'
      PROVE  conn'[c] # "none"
  <2>1. CASE c \in awaiting
    BY <1>t, <2>1, ConnStep DEF Spoken, Typed
  <2>2. CASE c \notin awaiting
    <3>1. Removes
      BY <1>2, <1>t, <2>2, StepKinds
    <3>2. Head(msgs).conn[1] \in Runs
      BY <1>t, <3>1, RemovesDoes, Taken, ConnAt DEF TailStep
    <3>3. PICK r \in Runs : entry[r] # 0 /\ c = <<r, entry[r]>>
      BY <1>t, <1>2, <3>1, <3>2, RemovesDoes DEF Registered
    <3>4. QED
      BY <1>t, <3>3, OpenedNumbers, ConnStep
  <2>3. QED
    BY <2>1, <2>2
<1>3. QED
  BY <1>1, <1>2 DEF Spoken

\* How many connections have opened after a step.
LEMMA OpenedStep ==
  ASSUME RInv, [Next]_vars, IInv', NEW r \in Runs
  PROVE  /\ Open(r) => Opened(r)' = Opened(r) + 1
         /\ ~Open(r) => Opened(r)' = Opened(r)
<1>t. IInv /\ Typed /\ StepInv
  BY DEF RInv, IInv
<1>1. MaxConns[r] \in Nat /\ Opened(r) \in Nat
  BY <1>t, MaxConnsType, OpenedNumbers
<1>2. ASSUME Open(r)
      PROVE  Opened(r)' = Opened(r) + 1
  <2> DEFINE n == Opened(r) + 1
  <2>1. n \in 1..MaxConns[r] /\ <<r, n>> \in Conns
    BY <1>t, <1>2, NextConn DEF Open, IInv
  <2>2. \A k \in 1..MaxConns[r] : conn'[<<r, k>>] # "none" <=> k <= n
    <3> SUFFICES ASSUME NEW k \in 1..MaxConns[r]
                 PROVE  conn'[<<r, k>>] # "none" <=> k <= n
      OBVIOUS
    <3>1. conn[<<r, k>>] # "none" <=> k <= Opened(r)
      BY <1>t DEF IInv, InOrder
    <3>2. <<r, k>> \in Conns /\ conn \in [Conns -> ConnStates]
      BY <1>t, ConnsAre DEF Typed
    <3>3. CASE k = n
      BY <1>2, <2>1, <3>2, <3>3 DEF Open
    <3>4. CASE k # n
      BY <1>1, <1>2, <2>1, <3>1, <3>2, <3>4 DEF Open
    <3>5. QED
      BY <3>3, <3>4
  <2>3. {k \in 1..MaxConns[r] : conn'[<<r, k>>] # "none"} = 1..n
    BY <1>1, <2>1, <2>2
  <2>4. Cardinality(1..n) = n
    BY <1>1, FS_Interval
  <2>5. QED
    BY <2>3, <2>4 DEF Opened
<1>3. ASSUME ~Open(r)
      PROVE  Opened(r)' = Opened(r)
  <2>1. \A k \in 1..MaxConns[r] : conn'[<<r, k>>] # "none" <=> conn[<<r, k>>] # "none"
    <3> SUFFICES ASSUME NEW k \in 1..MaxConns[r]
                 PROVE  conn'[<<r, k>>] # "none" <=> conn[<<r, k>>] # "none"
      OBVIOUS
    <3>1. <<r, k>> \in Conns /\ <<r, k>>[1] = r
      BY ConnsAre
    <3>2. CASE \E q \in Runs : Open(q)
      <4>1. PICK q \in Runs : Open(q) /\ q # r
        BY <1>3, <3>2
      <4>2. QED
        BY <1>t, <3>1, <4>1 DEF Open, Typed
    <3>3. CASE \A q \in Runs : ~Open(q)
      BY <1>t, <3>1, <3>3, OnlyOpenOpens
    <3>4. QED
      BY <3>2, <3>3
  <2>2. QED
    BY <2>1 DEF Opened
<1>4. QED
  BY <1>2, <1>3

\* A connection opens when the one before it is over.
LEMMA LatestLivesStep ==
  ASSUME RInv, [Next]_vars, IInv'
  PROVE  LatestLives'
<1> SUFFICES ASSUME Apart, NEW c \in Conns, Live(c)'
             PROVE  c[2] = Opened(c[1])'
  BY StepKinds DEF RInv, LatestLives, Apart
<1>1. c[1] \in Runs /\ c = <<c[1], c[2]>>
  BY ConnsAre
<1>2. CASE Open(c[1]) /\ c[2] = Opened(c[1]) + 1
  BY <1>1, <1>2, OpenedStep
<1>3. CASE Live(c)
  <2>1. c[2] = Opened(c[1])
    BY <1>3 DEF RInv, LatestLives
  <2>2. ~Open(c[1])
    <3> SUFFICES ASSUME Open(c[1]) PROVE FALSE
      OBVIOUS
    <3>1. Opened(c[1]) \in Nat /\ c[2] \in Nat \ {0}
      <4>1. Opened(c[1]) \in Nat
        BY <1>1, OpenedNumbers DEF RInv
      <4>2. QED
        BY <1>1, <4>1, ConnsAre, MaxConnsType
    <3>t. reconnects \in {"closed", "settled"}
      BY ConstantsAssumption DEF RInv, IInv, Typed, Apart
    <3>o. Opened(c[1]) + 1 > 1 /\ (Opened(c[1]) + 1) - 1 = Opened(c[1])
      BY <2>1, <3>1
    <3>2. MayReconnect(c[1], Opened(c[1]))
      BY <3>o DEF Open
    <3>3. conn[c] \in Over
      BY <1>1, <2>1, <3>t, <3>2 DEF MayReconnect
    <3>4. QED
      BY <1>3, <3>3 DEF Live, Over, Silent, Ends
  <2>3. QED
    BY <1>1, <2>1, <2>2, OpenedStep
<1>4. QED
  BY <1>2, <1>3, ConnStep

-----------------------------------------------------------------------------
\* A message put in at the end leaves what stops a connection in its place.
LEMMA StopsAppend ==
  ASSUME Typed, NEW m \in RunMsg, msgs' = Append(msgs, m),
         NEW r \in Runs, NEW p \in 0..Len(msgs), StopsAfter(r, p)
  PROVE  StopsAfter(r, p)'
<1>1. PICK i \in 1..Len(msgs) :
        /\ AppStopAt(i, r) /\ p < i
        /\ \A j \in 1..Len(msgs) : AppRunAt(j, r) /\ p < j => i < j
  BY DEF StopsAfter
<1>2. /\ Len(msgs) \in Nat /\ Len(msgs') = Len(msgs) + 1
      /\ \A j \in 1..Len(msgs) : msgs'[j] = msgs[j] /\ j \in 1..Len(msgs')
      /\ \A j \in 1..Len(msgs') : j \in 1..Len(msgs) \/ j = Len(msgs')
  BY Appended
<1>3. i \in 1..Len(msgs') /\ AppStopAt(i, r)'
  BY <1>1, <1>2 DEF AppStopAt
<1>4. ASSUME NEW j \in 1..Len(msgs'), AppRunAt(j, r)', p < j
      PROVE  i < j
  <2>1. CASE j \in 1..Len(msgs)
    BY <1>1, <1>2, <1>4, <2>1 DEF AppRunAt
  <2>2. CASE j = Len(msgs')
    BY <1>2, <2>2
  <2>3. QED
    BY <1>2, <2>1, <2>2
<1>5. QED
  BY <1>1, <1>3, <1>4 DEF StopsAfter

\* Of the messages behind the head, each comes one place nearer.
LEMMA StopsTail ==
  ASSUME Typed, StepInv, TailStep, NEW r \in Runs, NEW p \in Nat, StopsAfter(r, p),
         p = 0 => ~AppStopAt(1, r)
  PROVE  StopsAfter(r, IF p = 0 THEN 0 ELSE p - 1)'
<1> DEFINE o == IF p = 0 THEN 0 ELSE p - 1
<1>1. PICK i \in 1..Len(msgs) :
        /\ AppStopAt(i, r) /\ p < i
        /\ \A j \in 1..Len(msgs) : AppRunAt(j, r) /\ p < j => i < j
  BY DEF StopsAfter
<1>2. i # 1
  BY <1>1
<1>3. i - 1 \in 1..Len(msgs') /\ AppStopAt(i - 1, r)' /\ o < i - 1
  BY <1>1, <1>2, Taken DEF AppStopAt
<1>4. ASSUME NEW j \in 1..Len(msgs'), AppRunAt(j, r)', o < j
      PROVE  i - 1 < j
  <2>1. j + 1 \in 1..Len(msgs) /\ AppRunAt(j + 1, r) /\ p < j + 1
    BY <1>4, Taken DEF AppRunAt
  <2>2. i < j + 1
    BY <1>1, <2>1
  <2>3. QED
    BY <2>2
<1>5. QED
  BY <1>3, <1>4 DEF StopsAfter

\* The AppStop of a connection is sent before the AppRun of the next one.
LEMMA StopsInTurnStep ==
  ASSUME RInv, [Next]_vars, IInv'
  PROVE  StopsInTurn'
<1> SUFFICES ASSUME Apart, NEW d \in Conns, NEW p \in 0..Len(msgs'), At(d, p)', conn'[d] \in Ends
             PROVE  StopsAfter(d[1], p)'
  BY StepKinds DEF RInv, StopsInTurn, Apart
<1>t. /\ IInv /\ Typed /\ StepInv /\ InTurn
      /\ d[1] \in Runs /\ d[2] \in Nat \ {0} /\ d = <<d[1], d[2]>>
      /\ Len(msgs) \in Nat
  BY ConnsAre, MaxConnsType, LenProperties DEF RInv, IInv, Typed
<1>s. \A q \in 0..Len(msgs) : At(d, q) /\ conn[d] \in Ends => StopsAfter(d[1], q)
  BY DEF RInv, StopsInTurn
<1>1. ASSUME NEW r \in Runs, Open(r)
      PROVE  StopsAfter(d[1], p)'
  <2> DEFINE c == <<r, Opened(r) + 1>>
  <2>1. c \in Conns /\ conn'[c] \notin Ends /\ conn'[d] \in Ends
    BY <1>t, <1>1, NextConn DEF Open, IInv, Typed, Ends
  <2>2. conn[d] \in Ends
    BY <1>t, <1>1, <2>1 DEF Open, Typed
  <2>3. /\ AppRun(c) \in RunMsg /\ AppRun(c).conn = c
        /\ msgs' = Append(msgs, AppRun(c)) /\ entry' = entry
    BY <1>1, <2>1, MessagesAre DEF Open, entryVars
  <2>4. p \in 0..Len(msgs) /\ At(d, p)
    BY <1>t, <2>1, <2>3, Appended DEF At
  <2>5. QED
    BY <1>s, <1>t, <2>2, <2>3, <2>4, StopsAppend
<1>2. ASSUME NEW c \in Conns, NEW how \in Ends, Close(c, how)
      PROVE  StopsAfter(d[1], p)'
  <2>1. /\ AppStop(c, how) \in RunMsg /\ AppStop(c, how).conn = c
        /\ AppStop(c, how).type = "AppStop"
        /\ msgs' = Append(msgs, AppStop(c, how)) /\ entry' = entry
        /\ conn[c] = "open" /\ conn' = [conn EXCEPT ![c] = how]
    BY <1>2, MessagesAre DEF Close, entryVars
  <2>2. p \in 0..Len(msgs) /\ At(d, p)
    BY <1>t, <2>1, Appended DEF At
  <2>3. CASE d # c
    <3>1. conn[d] \in Ends
      BY <1>t, <2>1, <2>3 DEF Typed
    <3>2. QED
      BY <1>s, <1>t, <2>1, <2>2, <3>1, StopsAppend
  <2>4. CASE d = c
    <3>1. d[2] = Opened(d[1])
      BY <2>1, <2>4 DEF RInv, LatestLives, Live
    <3>2. \A j \in 1..Len(msgs) : AppRunAt(j, d[1]) => ~(p < j)
      <4> SUFFICES ASSUME NEW j \in 1..Len(msgs), AppRunAt(j, d[1]), p < j PROVE FALSE
        OBVIOUS
      <4>1. msgs[j].conn[2] <= Opened(d[1]) /\ msgs[j].conn[2] \in Nat /\ Opened(d[1]) \in Nat
        <5>1. msgs[j].type = "AppRun" /\ msgs[j].conn[1] = d[1]
          BY DEF AppRunAt
        <5>2. msgs[j].conn \in Conns /\ conn[msgs[j].conn] # "none" /\ msgs[j].conn[2] \in Nat
          BY <1>t, <5>1, ConnAt DEF IInv, MsgInv
        <5>3. QED
          BY <1>t, <5>1, <5>2, OpenedNumbers
      <4>2. d[2] < msgs[j].conn[2]
        BY <1>t, <2>2 DEF At, InTurn, AppRunAt
      <4>3. QED
        BY <1>t, <3>1, <4>1, <4>2
    <3>3. PICK n \in 1..Len(msgs') : n = Len(msgs') /\ msgs'[n] = AppStop(c, how) /\ p < n
      <4>1. /\ Len(msgs') = Len(msgs) + 1 /\ Len(msgs') \in 1..Len(msgs')
            /\ msgs'[Len(msgs')] = AppStop(c, how)
        BY <1>t, <2>1, Appended
      <4>2. p < Len(msgs')
        BY <1>t, <2>2, <4>1
      <4>3. QED
        BY <4>1, <4>2
    <3>n. AppStopAt(n, d[1])'
      BY <2>1, <2>4, <3>3 DEF AppStopAt
    <3>4. \A j \in 1..Len(msgs') : AppRunAt(j, d[1])' => j \in 1..Len(msgs) /\ AppRunAt(j, d[1])
      BY <1>t, <2>1, Appended DEF AppRunAt
    <3>5. \A j \in 1..Len(msgs') : AppRunAt(j, d[1])' /\ p < j => n < j
      BY <3>2, <3>4
    <3>6. QED
      BY <3>3, <3>n, <3>5 DEF StopsAfter
  <2>5. QED
    BY <2>3, <2>4
<1>3. ASSUME NEW w \in Watchers, Subscribe(w)
      PROVE  StopsAfter(d[1], p)'
  <2>1. /\ AddRecordWatcher(w) \in RunMsg /\ AddRecordWatcher(w).type = "AddRecordWatcher"
        /\ msgs' = Append(msgs, AddRecordWatcher(w)) /\ entry' = entry /\ conn' = conn
    BY <1>3, MessagesAre DEF Subscribe, entryVars
  <2>2. p \in 0..Len(msgs) /\ At(d, p)
    BY <1>t, <2>1, Appended DEF At
  <2>3. QED
    BY <1>s, <1>t, <2>1, <2>2, StopsAppend
<1>4. CASE TailStep
  <2>1. conn[d] \in Ends
    BY <1>t, <1>4, Taken
  <2>2. CASE p # 0
    <3>1. p + 1 \in 0..Len(msgs) /\ At(d, p + 1)
      BY <1>t, <1>4, <2>2, Taken DEF At
    <3>2. StopsAfter(d[1], p + 1) /\ p + 1 \in Nat /\ p + 1 # 0 /\ (p + 1) - 1 = p
      BY <1>s, <2>1, <3>1
    <3>3. StopsAfter(d[1], IF p + 1 = 0 THEN 0 ELSE (p + 1) - 1)'
      BY <1>t, <1>4, <3>2, StopsTail
    <3>4. QED
      BY <3>2, <3>3
  <2>3. CASE p = 0 /\ At(d, 0) /\ ~AppStopAt(1, d[1])
    <3>1. StopsAfter(d[1], 0)
      BY <1>s, <1>t, <2>1, <2>3
    <3>2. StopsAfter(d[1], IF 0 = 0 THEN 0 ELSE 0 - 1)'
      BY <1>t, <1>4, <2>3, <3>1, StopsTail
    <3>3. QED
      BY <2>3, <3>2
  <2>4. CASE p = 0 /\ At(d, 1)
    <3>1. StopsAfter(d[1], 1)
      BY <1>s, <1>t, <1>4, <2>1, <2>4, Taken
    <3>2. StopsAfter(d[1], IF 1 = 0 THEN 0 ELSE 1 - 1)'
      BY <1>t, <1>4, <3>1, StopsTail
    <3>3. QED
      BY <2>4, <3>2
  <2>5. CASE p = 0
    <3>1. entry'[d[1]] = d[2]
      BY <2>5 DEF At
    <3>2. Head(msgs) = msgs[1] /\ 1 \in 1..Len(msgs)
      BY <1>t, <1>4, Taken
    <3>3. CASE InsertEntry
      <4>1. /\ msgs[1].type = "AppRun"
            /\ entry' = [entry EXCEPT ![msgs[1].conn[1]] = msgs[1].conn[2]]
            /\ msgs[1].conn = <<msgs[1].conn[1], msgs[1].conn[2]>>
        BY <1>t, <3>2, <3>3, ConnAt, InsertEntryDoes
      <4>2. CASE msgs[1].conn[1] = d[1]
        <5>1. msgs[1].conn = d
          BY <1>t, <3>1, <4>1, <4>2 DEF Typed
        <5>2. At(d, 1)
          BY <3>2, <4>1, <5>1 DEF At
        <5>3. QED
          BY <2>4, <2>5, <5>2
      <4>3. CASE msgs[1].conn[1] # d[1]
        <5>1. At(d, 0) /\ ~AppStopAt(1, d[1])
          BY <1>t, <3>1, <4>1, <4>3 DEF At, AppStopAt, Typed
        <5>2. QED
          BY <2>3, <2>5, <5>1
      <4>4. QED
        BY <4>2, <4>3
    <3>4. CASE Removes
      <4>1. entry' = [entry EXCEPT ![msgs[1].conn[1]] = 0]
        BY <1>t, <3>2, <3>4, RemovesDoes
      <4>2. msgs[1].conn[1] # d[1]
        BY <1>t, <3>1, <4>1 DEF Typed
      <4>3. At(d, 0) /\ ~AppStopAt(1, d[1])
        BY <1>t, <3>1, <4>1, <4>2 DEF At, AppStopAt, Typed
      <4>4. QED
        BY <2>3, <2>5, <4>3
    <3>5. CASE RejectAppRun \/ HandleAddRecordWatcher
      <4>1. entry' = entry /\ msgs[1].type # "AppStop"
        BY <1>t, <3>2, <3>5, RejectAppRunDoes, AddWatcherDoes
      <4>2. QED
        BY <2>3, <2>5, <3>1, <4>1 DEF At, AppStopAt
    <3>6. QED
      BY <1>4, <3>3, <3>4, <3>5 DEF TailStep
  <2>6. QED
    BY <2>2, <2>5
<1>5. CASE StillStep
  <2>1. conn[d] \in Ends
    BY <1>5, <1>t, ConnStep, Appended, MessagesAre DEF StillStep, Close
  <2>2. p \in 0..Len(msgs) /\ At(d, p)
    BY <1>5 DEF StillStep, At
  <2>3. QED
    BY <1>5, <1>s, <2>1, <2>2 DEF StillStep, StopsAfter, AppStopAt, AppRunAt
<1>6. QED
  BY <1>t, <1>1, <1>2, <1>3, <1>4, <1>5, StepKinds DEF AppendStep

\* A connection that is registered when the next one's task is put in was refused
\* or panicked: had it ended, its AppStop would have come first, and it is not the
\* latest.
LEMMA ReplacedSilent ==
  ASSUME RInv, Apart, step = "insert", NEW d \in Conns, d[1] = Head(msgs).conn[1],
         entry[d[1]] = d[2]
  PROVE  conn[d] \in Silent
<1> DEFINE c == msgs[1].conn
<1>t. /\ IInv /\ Typed /\ StepInv /\ InTurn
      /\ d[1] \in Runs /\ d[2] \in Nat \ {0} /\ d = <<d[1], d[2]>>
  BY ConnsAre, MaxConnsType DEF RInv, IInv
<1>1. /\ Head(msgs) = msgs[1] /\ 1 \in 1..Len(msgs) /\ 0 \in 0..Len(msgs)
      /\ msgs[1].type = "AppRun" /\ c[1] = d[1]
  BY <1>t, QueueTail DEF Typed, StepInv
<1>2. conn[d] \notin Ends
  <2> SUFFICES ASSUME conn[d] \in Ends PROVE FALSE
    OBVIOUS
  <2>1. At(d, 0)
    BY DEF At
  <2>2. StopsAfter(d[1], 0)
    BY <1>1, <2>1 DEF RInv, StopsInTurn
  <2>3. AppRunAt(1, d[1])
    BY <1>1 DEF AppRunAt
  <2>4. QED
    BY <1>1, <2>2, <2>3 DEF StopsAfter
<1>3. ~Live(d)
  <2> SUFFICES ASSUME Live(d) PROVE FALSE
    OBVIOUS
  <2>1. d[2] = Opened(d[1])
    BY DEF RInv, LatestLives
  <2>2. c \in Conns /\ c[2] \in Nat /\ conn[c] # "none"
    BY <1>t, <1>1, ConnAt DEF IInv, MsgInv
  <2>3. c[2] <= Opened(d[1])
    BY <1>t, <1>1, <2>2, OpenedNumbers
  <2>4. d[2] < c[2]
    BY <1>1, <1>t DEF InTurn
  <2>5. QED
    BY <1>t, <2>1, <2>2, <2>3, <2>4
<1>4. conn[d] # "none"
  BY <1>t, OpenedNumbers
<1>5. QED
  BY <1>t, <1>2, <1>3, <1>4 DEF Typed, ConnStates, Over, Live

\* Only putting in an entry tells a task to abort, and only a task that runs.
LEMMA AbortingStep ==
  ASSUME IInv, [Next]_vars, NEW d \in Conns
  PROVE  /\ task'[d] \in {"aborting", "aborted"} =>
              task[d] \in {"aborting", "aborted"} \/ InsertEntry
         /\ task'[d] = "aborting" => task[d] = "aborting" \/ InsertEntry
         /\ task'[d] = "running" => task[d] = "running" \/ SpawnTask
         /\ task'[d] # "none" => task[d] # "none" \/ SpawnTask \/ RejectAppRun
<1>t. Typed /\ StepInv
  BY DEF IInv
<1>1. CASE UNCHANGED task
  BY <1>1
<1>2. CASE InsertEntry \/ SpawnTask
  <2>1. InsertEntry => task'[d] \in {task[d], "aborting"} /\ (task'[d] # task[d] => task[d] = "running")
    BY <1>t, InsertEntryDoes DEF Replaced
  <2>2. SpawnTask => task'[d] \in {task[d], "running"}
    BY <1>t, SpawnTaskDoes DEF Typed
  <2>3. QED
    BY <1>2, <2>1, <2>2
<1>3. CASE RejectAppRun
  <2>1. task'[d] \in {task[d], "rejected"}
    BY <1>t, <1>3, RejectAppRunDoes DEF Typed
  <2>2. QED
    BY <1>3, <2>1
<1>4. CASE \E c \in Conns : TaskFinishes(c) \/ TaskFails(c) \/ TaskAborts(c)
  <2>1. PICK c \in Conns : TaskFinishes(c) \/ TaskFails(c) \/ TaskAborts(c)
    BY <1>4
  <2>2. CASE c = d
    BY <1>t, <2>1, <2>2 DEF TaskFinishes, TaskFails, TaskAborts, Executes, Typed
  <2>3. CASE c # d
    BY <1>t, <2>1, <2>3, TaskStepsDo DEF Typed
  <2>4. QED
    BY <2>2, <2>3
<1>5. CASE UNCHANGED vars \/ Awaited
  BY <1>1, <1>5 DEF vars, Awaited
<1>6. CASE Begins \/ Removes \/ PageSteps \/ HandleAddRecordWatcher
  BY <1>1, <1>6, <1>t, BeginsDoes, RemovesDoes, PageStepsDo, AddWatcherDoes
<1>7. CASE \E c \in Conns : Reply(c) \/ Refuse(c) \/ Panic(c)
  BY <1>1, <1>7, ConnStepsDo
<1>8. CASE AppendStep
  BY <1>1, <1>8, SendingSteps DEF AppendStep
<1>9. QED
  BY <1>2, <1>3, <1>4, <1>5, <1>6, <1>7, <1>8, NextIs DEF AppendStep

LEMMA DiscardStep ==
  ASSUME RInv, [Next]_vars
  PROVE  NothingDiscarded'
<1> SUFFICES ASSUME Apart, NEW d \in Conns, task'[d] \in {"aborting", "aborted"}
             PROVE  conn'[d] \in Silent
  BY StepKinds DEF RInv, NothingDiscarded, Apart
<1>t. IInv /\ Typed /\ StepInv
  BY DEF RInv, IInv
<1>1. CASE task[d] \in {"aborting", "aborted"}
  BY <1>1, ConnStep DEF RInv, NothingDiscarded, Apart, Over
<1>2. CASE task[d] \notin {"aborting", "aborted"}
  <2>1. InsertEntry
    BY <1>t, <1>2, AbortingStep
  <2>2. Replaced(d, Head(msgs).conn) /\ step = "insert" /\ conn' = conn
    BY <1>t, <1>2, <2>1, InsertEntryDoes
  <2>3. QED
    BY <2>2, ReplacedSilent DEF Replaced
<1>3. QED
  BY <1>1, <1>2

\* Tasks start when the AppRun of their connection is dealt with.
LEMMA TasksInTurnStep ==
  ASSUME RInv, [Next]_vars, IInv'
  PROVE  TasksInTurn'
<1>t. IInv /\ Typed /\ StepInv /\ InTurn /\ TasksInTurn
  BY DEF RInv, IInv
<1>n. \A c \in Conns : c[1] \in Runs /\ c[2] \in Nat /\ c = <<c[1], c[2]>>
  BY ConnsAre, MaxConnsType
<1>h. ASSUME step # "take" \/ TailStep
      PROVE  Head(msgs) = msgs[1] /\ 1 \in 1..Len(msgs)
  BY <1>h, <1>t, Taken, QueueTail DEF Typed, StepInv
<1>1. ASSUME NEW i \in 1..Len(msgs), msgs[i].type = "AppRun",
             NEW c \in Conns, c[1] = msgs[i].conn[1], task'[c] # "none"
      PROVE  c[2] <= msgs[i].conn[2] \/ (i = 1 /\ TailStep)
  <2>1. CASE task[c] # "none"
    BY <1>t, <1>1, <2>1 DEF TasksInTurn
  <2>2. CASE task[c] = "none" /\ SpawnTask
    <3>1. c = msgs[1].conn /\ msgs[1].type = "AppRun" /\ 1 \in 1..Len(msgs)
      BY <1>t, <1>h, <1>1, <2>2, SpawnTaskDoes DEF Typed
    <3>2. i = 1 \/ 1 < i
      BY <1>1
    <3>3. 1 < i => c[2] < msgs[i].conn[2]
      BY <1>t, <1>1, <3>1 DEF InTurn
    <3>4. msgs[i].conn[2] \in Nat
      BY <1>t, <1>1, ConnAt
    <3>5. QED
      BY <1>n, <3>1, <3>2, <3>3, <3>4
  <2>3. CASE task[c] = "none" /\ RejectAppRun
    <3>1. c = msgs[1].conn /\ msgs[1].type = "AppRun" /\ 1 \in 1..Len(msgs)
      BY <1>t, <1>h, <1>1, <2>3, RejectAppRunDoes DEF Typed, TailStep
    <3>2. i = 1 \/ 1 < i
      BY <1>1
    <3>3. 1 < i => c[2] < msgs[i].conn[2]
      BY <1>t, <1>1, <3>1 DEF InTurn
    <3>4. msgs[i].conn[2] \in Nat
      BY <1>t, <1>1, ConnAt
    <3>5. QED
      BY <1>n, <2>3, <3>2, <3>3, <3>4 DEF TailStep
  <2>4. QED
    BY <1>t, <1>1, <2>1, <2>2, <2>3, AbortingStep
<1>2. ASSUME NEW i \in 1..Len(msgs'), msgs'[i].type = "AppRun",
             NEW c \in Conns, c[1] = msgs'[i].conn[1], task'[c] # "none"
      PROVE  c[2] <= msgs'[i].conn[2]
  <2>1. CASE AppendStep
    <3>1. ASSUME NEW j \in 1..Len(msgs), msgs'[i] = msgs[j]
          PROVE  c[2] <= msgs'[i].conn[2]
      <4>1. task[c] # "none"
        BY <1>t, <1>2, <2>1, SendingSteps DEF AppendStep
      <4>2. QED
        BY <1>t, <1>2, <3>1, <4>1 DEF TasksInTurn
    <3>2. CASE \E r \in Runs : Open(r)
      <4>1. PICK r \in Runs : Open(r)
        BY <3>2
      <4> DEFINE d == <<r, Opened(r) + 1>>
      <4>2. d \in Conns /\ msgs' = Append(msgs, AppRun(d)) /\ Opened(r) \in Nat
        BY <1>t, <4>1, NextConn, SendingSteps DEF Open, IInv
      <4>3. (i \in 1..Len(msgs) /\ msgs'[i] = msgs[i]) \/ msgs'[i].conn = d
        BY <1>t, <4>2, Appended, MessagesAre
      <4>4. CASE msgs'[i].conn = d
        <5>1. task[c] # "none" /\ c[1] = r
          <6>1. task' = task
            BY <2>1, SendingSteps DEF AppendStep
          <6>2. d[1] = r
            OBVIOUS
          <6>3. QED
            BY <1>2, <4>4, <6>1, <6>2
        <5>2. conn[c] # "none"
          BY <1>t, <5>1 DEF IInv, MsgInv
        <5>3. c[2] <= Opened(r)
          BY <1>t, <5>1, <5>2, OpenedNumbers
        <5>4. QED
          BY <1>n, <4>2, <4>4, <5>3
      <4>5. QED
        BY <3>1, <4>3, <4>4
    <3>3. CASE \E e \in Conns, how \in Ends : Close(e, how)
      <4>1. PICK e \in Conns, how \in Ends : Close(e, how)
        BY <3>3
      <4>2. AppStop(e, how) \in RunMsg /\ AppStop(e, how).type = "AppStop"
            /\ msgs' = Append(msgs, AppStop(e, how))
        BY <4>1, SendingSteps, MessagesAre
      <4>3. i \in 1..Len(msgs) /\ msgs'[i] = msgs[i]
        BY <1>t, <1>2, <4>2, Appended
      <4>4. QED
        BY <3>1, <4>3
    <3>4. CASE \E w \in Watchers : Subscribe(w)
      <4>1. i \in 1..Len(msgs) /\ msgs'[i] = msgs[i]
        BY <1>t, <1>2, <3>4, Appended, MessagesAre, SendingSteps
      <4>2. QED
        BY <3>1, <4>1
    <3>5. QED
      BY <2>1, <3>2, <3>3, <3>4 DEF AppendStep
  <2>2. CASE TailStep
    <3>1. msgs'[i] = msgs[i + 1] /\ i + 1 \in 1..Len(msgs) /\ i + 1 # 1
      BY <1>t, <1>2, <2>2, Taken
    <3>2. QED
      BY <1>1, <1>2, <3>1
  <2>3. CASE StillStep /\ ~TailStep
    BY <1>1, <1>2, <2>3 DEF StillStep
  <2>4. QED
    BY <1>t, <2>1, <2>2, <2>3, StepKinds
<1>3. ASSUME NEW c \in Conns, NEW d \in Conns,
             c[1] = d[1], task'[c] = "aborting", task'[d] = "running"
      PROVE  c[2] < d[2]
  <2>1. CASE SpawnTask
    <3>1. /\ task' = [task EXCEPT ![Head(msgs).conn] = "running"]
          /\ step = "tell" /\ Head(msgs).type = "AppRun" /\ Head(msgs) = msgs[1]
          /\ 1 \in 1..Len(msgs) /\ msgs[1].conn \in Conns
      BY <1>t, <1>h, <2>1, SpawnTaskDoes
    <3>2. task[c] = "aborting" /\ c # msgs[1].conn
      BY <1>t, <1>3, <3>1 DEF Typed
    <3>3. CASE d = msgs[1].conn
      <4>1. c[2] <= d[2]
        BY <1>t, <1>3, <3>1, <3>2, <3>3 DEF TasksInTurn
      <4>2. QED
        BY <1>n, <1>3, <3>2, <3>3, <4>1
    <3>4. CASE d # msgs[1].conn
      <4>1. task[d] = "running"
        BY <1>t, <1>3, <3>1, <3>4 DEF Typed
      <4>2. QED
        BY <1>t, <1>3, <3>2, <4>1 DEF TasksInTurn
    <3>5. QED
      BY <3>3, <3>4
  <2>2. CASE ~SpawnTask
    <3>1. task[d] = "running"
      BY <1>t, <1>3, <2>2, AbortingStep
    <3>2. CASE task[c] = "aborting"
      BY <1>t, <1>3, <3>1, <3>2 DEF TasksInTurn
    <3>3. CASE task[c] # "aborting"
      <4>1. InsertEntry
        BY <1>t, <1>3, <3>3, AbortingStep
      <4>2. /\ Replaced(c, Head(msgs).conn) /\ ~Replaced(d, Head(msgs).conn)
            /\ step = "insert" /\ awaiting = {} /\ Head(msgs) = msgs[1] /\ 1 \in 1..Len(msgs)
            /\ msgs[1].type = "AppRun"
        BY <1>t, <1>h, <1>3, <3>3, <4>1, InsertEntryDoes
      <4>3. d = msgs[1].conn
        <5>1. entry[d[1]] = d[2] \/ d \in awaiting \/ Inserts(d)
          BY <1>t, <1>3, <3>1 DEF IInv, TaskInv
        <5>2. entry[d[1]] # d[2]
          BY <1>3, <3>1, <4>2 DEF Replaced
        <5>3. QED
          BY <4>2, <5>1, <5>2 DEF Inserts
      <4>4. entry[d[1]] < d[2]
        BY <1>t, <4>2, <4>3 DEF InTurn
      <4>5. QED
        BY <1>3, <4>2, <4>4 DEF Replaced
    <3>4. QED
      BY <3>2, <3>3
  <2>3. QED
    BY <2>1, <2>2
<1>4. QED
  BY <1>2, <1>3 DEF TasksInTurn

-----------------------------------------------------------------------------
\* A run whose registry has settled starts anew.
LEMMA UnthreatenedStep ==
  ASSUME RInv, [Next]_vars, IInv', LatestLives'
  PROVE  Unthreatened'
<1> SUFFICES ASSUME reconnects = "settled", NEW c \in Conns, Live(c)'
             PROVE  ~Awaits(c[1])' /\ \A i \in 1..Len(msgs') : ~AppStopAt(i, c[1])'
  BY StepKinds DEF RInv, Unthreatened
<1> DEFINE r == c[1]
<1>t. IInv /\ Typed /\ StepInv /\ Spoken /\ r \in Runs /\ c = <<r, c[2]>> /\ c[2] \in Nat \ {0}
  BY ConnsAre, MaxConnsType DEF RInv, IInv
<1>1. ASSUME Live(c) \/ Open(r)
      PROVE  ~Awaits(r) /\ \A i \in 1..Len(msgs) : ~AppStopAt(i, r)
  <2>1. CASE Live(c)
    BY <2>1 DEF RInv, Unthreatened
  <2>2. CASE Open(r)
    <3>1. CASE Opened(r) = 0
      <4>1. \A d \in Conns : d[1] = r => conn[d] = "none"
        <5> SUFFICES ASSUME NEW d \in Conns, d[1] = r, conn[d] # "none" PROVE FALSE
          OBVIOUS
        <5>1. d[2] <= Opened(r)
          BY <1>t, OpenedNumbers
        <5>2. d[2] \in Nat \ {0}
          BY ConnsAre, MaxConnsType
        <5>3. QED
          BY <3>1, <5>1, <5>2
      <4>2. ~Awaits(r)
        BY <1>t, <4>1 DEF Awaits, Spoken, Typed
      <4>3. \A i \in 1..Len(msgs) : ~AppStopAt(i, r)
        BY <1>t, <4>1, ConnAt DEF AppStopAt, Spoken, Ends
      <4>4. QED
        BY <4>2, <4>3
    <3>2. CASE Opened(r) # 0
      <4>o. Opened(r) \in Nat
        BY <1>t, OpenedNumbers
      <4>1. Opened(r) + 1 > 1 /\ (Opened(r) + 1) - 1 = Opened(r)
        BY <3>2, <4>o
      <4>2. MayReconnect(r, Opened(r))
        BY <2>2, <4>1 DEF Open
      <4>3. ~Pending(r)
        BY <4>2 DEF MayReconnect
      <4>4. QED
        BY <4>3 DEF Pending, Awaits, AppStopAt
    <3>3. QED
      BY <3>1, <3>2
  <2>3. QED
    BY <1>1, <2>1, <2>2
<1>2. ~Awaits(r) /\ \A i \in 1..Len(msgs) : ~AppStopAt(i, r)
  BY <1>1, ConnStep
<1>3. ~Awaits(r)'
  <2>1. CASE Removes
    <3>1. msgs[1].conn[1] # r /\ Head(msgs) = msgs[1]
      BY <1>t, <1>2, <2>1, Taken, RemovesDoes DEF TailStep, AppStopAt
    <3>2. QED
      BY <1>t, <2>1, <3>1, RemovesDoes DEF Awaits
  <2>2. CASE ~Removes
    <3>1. awaiting' \subseteq awaiting
      BY <1>t, <2>2, StepKinds
    <3>2. QED
      BY <1>2, <3>1 DEF Awaits
  <2>3. QED
    BY <2>1, <2>2
<1>4. \A i \in 1..Len(msgs') : ~AppStopAt(i, r)'
  <2>1. ASSUME NEW q \in Runs, Open(q)
        PROVE  \A i \in 1..Len(msgs') : ~AppStopAt(i, r)'
    <3>1. <<q, Opened(q) + 1>> \in Conns
      BY <1>t, <2>1, NextConn DEF Open, IInv
    <3>2. QED
      BY <1>2, <1>t, <2>1, <3>1, Appended, MessagesAre DEF Open, AppStopAt
  <2>2. ASSUME NEW d \in Conns, NEW how \in Ends, Close(d, how)
        PROVE  \A i \in 1..Len(msgs') : ~AppStopAt(i, r)'
    <3>1. /\ AppStop(d, how) \in RunMsg /\ AppStop(d, how).conn = d
          /\ msgs' = Append(msgs, AppStop(d, how))
          /\ conn[d] = "open" /\ conn' = [conn EXCEPT ![d] = how]
      BY <2>2, MessagesAre DEF Close
    <3>2. d # c
      BY <1>t, <3>1 DEF Live, Ends, Typed
    <3>3. Live(c) /\ Live(d)
      BY <1>t, <3>1, <3>2 DEF Live, Typed
    <3>4. d[1] # r
      BY <1>t, <3>2, <3>3, ConnsAre DEF RInv, LatestLives, Apart
    <3>5. QED
      BY <1>2, <1>t, <3>1, <3>4, Appended DEF AppStopAt
  <2>3. ASSUME NEW w \in Watchers, Subscribe(w)
        PROVE  \A i \in 1..Len(msgs') : ~AppStopAt(i, r)'
    BY <1>2, <1>t, <2>3, Appended, MessagesAre DEF Subscribe, AppStopAt
  <2>4. CASE TailStep
    BY <1>2, <1>t, <2>4, Taken DEF AppStopAt
  <2>5. CASE StillStep
    BY <1>2, <2>5 DEF StillStep, AppStopAt
  <2>6. QED
    BY <1>t, <2>1, <2>2, <2>3, <2>4, <2>5, StepKinds DEF AppendStep
<1>5. QED
  BY <1>3, <1>4

\* Only the end of an awaited task takes a run out of GLOBAL_DATA.
LEMMA LiveRunsStep ==
  ASSUME RInv, [Next]_vars
  PROVE  LiveRunsAreGlobal'
<1> SUFFICES ASSUME reconnects = "settled", NEW c \in Conns, Live(c)'
             PROVE  c[1] \in globals'
  BY StepKinds DEF RInv, LiveRunsAreGlobal
<1>1. CASE Open(c[1])
  BY <1>1 DEF Open
<1>2. CASE Live(c)
  <2>1. c[1] \in globals /\ ~Awaits(c[1])
    BY <1>2 DEF RInv, LiveRunsAreGlobal, Unthreatened
  <2>2. CASE Awaited
    BY <2>1, <2>2 DEF Awaited, Awaits
  <2>3. CASE ~Awaited
    <3>1. globals \subseteq globals'
      BY <2>3, StepKinds DEF RInv
    <3>2. QED
      BY <2>1, <3>1
  <2>4. QED
    BY <2>2, <2>3
<1>3. QED
  BY <1>1, <1>2, ConnStep

-----------------------------------------------------------------------------
(* What the row of a run says.                                             *)

\* An AppStop tells how its connection ended.
StopTells ==
  \A i \in 1..Len(msgs) : msgs[i].type = "AppStop" => msgs[i].how = conn[msgs[i].conn]

\* While the AppRun of a connection waits, so do those of the later ones.
LaterWait ==
  \A i \in 1..Len(msgs) : msgs[i].type = "AppRun" =>
    \A d \in Conns : d[1] = msgs[i].conn[1] /\ msgs[i].conn[2] < d[2] /\ conn[d] # "none" =>
      \E j \in 1..Len(msgs) : msgs[j].type = "AppRun" /\ msgs[j].conn = d

HasEnded(r, k) == conn[<<r, k>>] \in Ends
IsLast(r, k) == HasEnded(r, k) /\ \A j \in 1..MaxConns[r] : HasEnded(r, j) => j <= k
SomeLast(r) ==
  (\E k \in 1..MaxConns[r] : HasEnded(r, k)) => \E k \in 1..MaxConns[r] : IsLast(r, k)

\* The last AppStop that waits is that of connection k.
StopWaits(r, k) ==
  \E i \in 1..Len(msgs) :
    /\ msgs[i].type = "AppStop" /\ msgs[i].conn = <<r, k>>
    /\ \A j \in 1..Len(msgs) : AppStopAt(j, r) => j <= i

\* No AppStop waits, and the row tells how connection k ended.
RowTells(r, k) ==
  /\ \A i \in 1..Len(msgs) : ~AppStopAt(i, r)
  /\ run[r] = "absent" \/ r \in unsaved \/ run[r] = conn[<<r, k>>]

RowInv ==
  Apart => \A r \in Runs :
    /\ SomeLast(r)
    /\ \A k \in 1..MaxConns[r] : IsLast(r, k) => StopWaits(r, k) \/ RowTells(r, k)

\* When the subscribers are told of a stop, the row has it.
Written ==
  step = "tell" /\ Head(msgs).type = "AppStop" => run[Head(msgs).conn[1]] = Head(msgs).how

LInv == RInv /\ StopTells /\ LaterWait /\ Written /\ RowInv

\* An AppStop is sent with the end of its connection, which stays as it is.
LEMMA StopTellsStep ==
  ASSUME LInv, [Next]_vars
  PROVE  StopTells'
<1>t. RInv /\ IInv /\ Typed /\ StepInv /\ Spoken /\ StopTells
  BY DEF LInv, RInv, IInv
<1> SUFFICES ASSUME NEW i \in 1..Len(msgs'), msgs'[i].type = "AppStop"
             PROVE  msgs'[i].how = conn'[msgs'[i].conn]
  BY DEF StopTells
<1>1. ASSUME NEW j \in 1..Len(msgs), msgs'[i] = msgs[j]
      PROVE  msgs'[i].how = conn'[msgs'[i].conn]
  <2>1. /\ msgs[j].conn \in Conns /\ conn[msgs[j].conn] \in Ends
        /\ msgs[j].how = conn[msgs[j].conn]
    BY <1>t, <1>1, ConnAt DEF Spoken, StopTells
  <2>2. conn'[msgs[j].conn] = conn[msgs[j].conn]
    BY <1>t, <2>1, ConnStep DEF Over
  <2>3. QED
    BY <1>1, <2>1, <2>2
<1>2. CASE \E r \in Runs : Open(r)
  <2>1. PICK r \in Runs : Open(r)
    BY <1>2
  <2>2. <<r, Opened(r) + 1>> \in Conns
    BY <1>t, <2>1, NextConn DEF Open, IInv
  <2>3. i \in 1..Len(msgs) /\ msgs'[i] = msgs[i]
    BY <1>t, <2>1, <2>2, Appended, MessagesAre DEF Open
  <2>4. QED
    BY <1>1, <2>3
<1>3. CASE \E c \in Conns, how \in Ends : Close(c, how)
  <2>1. PICK c \in Conns, how \in Ends : Close(c, how)
    BY <1>3
  <2>2. /\ AppStop(c, how) \in RunMsg /\ AppStop(c, how).conn = c /\ AppStop(c, how).how = how
        /\ msgs' = Append(msgs, AppStop(c, how)) /\ conn'[c] = how
    BY <1>t, <2>1, MessagesAre DEF Close, Typed, AppStop
  <2>3. (i \in 1..Len(msgs) /\ msgs'[i] = msgs[i]) \/ msgs'[i] = AppStop(c, how)
    BY <1>t, <2>2, Appended
  <2>4. QED
    BY <1>1, <2>2, <2>3
<1>4. CASE \E w \in Watchers : Subscribe(w)
  <2>1. i \in 1..Len(msgs) /\ msgs'[i] = msgs[i]
    BY <1>t, <1>4, Appended, MessagesAre DEF Subscribe
  <2>2. QED
    BY <1>1, <2>1
<1>5. CASE TailStep
  BY <1>t, <1>1, <1>5, Taken
<1>6. CASE StillStep
  BY <1>1, <1>6 DEF StillStep
<1>7. QED
  BY <1>t, <1>2, <1>3, <1>4, <1>5, <1>6, StepKinds DEF AppendStep

\* AppRuns are sent as connections open, and dealt with in that order.
LEMMA LaterWaitStep ==
  ASSUME LInv, [Next]_vars
  PROVE  LaterWait'
<1>t. RInv /\ IInv /\ Typed /\ StepInv /\ InTurn /\ LaterWait
  BY DEF LInv, RInv, IInv
<1> SUFFICES ASSUME NEW i \in 1..Len(msgs'), msgs'[i].type = "AppRun",
                    NEW d \in Conns, d[1] = msgs'[i].conn[1], msgs'[i].conn[2] < d[2],
                    conn'[d] # "none"
             PROVE  \E j \in 1..Len(msgs') : msgs'[j].type = "AppRun" /\ msgs'[j].conn = d
  BY DEF LaterWait
<1>d. d[1] \in Runs /\ d[2] \in Nat \ {0} /\ d = <<d[1], d[2]>>
  BY ConnsAre, MaxConnsType
<1>1. ASSUME NEW m \in RunMsg, msgs' = Append(msgs, m), NEW k \in 1..Len(msgs), msgs'[i] = msgs[k],
             conn[d] # "none"
      PROVE  \E j \in 1..Len(msgs') : msgs'[j].type = "AppRun" /\ msgs'[j].conn = d
  <2>1. PICK j \in 1..Len(msgs) : msgs[j].type = "AppRun" /\ msgs[j].conn = d
    BY <1>t, <1>1 DEF LaterWait
  <2>2. j \in 1..Len(msgs') /\ msgs'[j] = msgs[j]
    BY <1>t, <1>1, Appended
  <2>3. QED
    BY <2>1, <2>2
<1>2. CASE \E r \in Runs : Open(r)
  <2>1. PICK r \in Runs : Open(r)
    BY <1>2
  <2> DEFINE c == <<r, Opened(r) + 1>>
  <2>2. c \in Conns /\ msgs' = Append(msgs, AppRun(c)) /\ Opened(r) \in Nat
    BY <1>t, <2>1, NextConn, SendingSteps DEF Open, IInv
  <2>3. /\ AppRun(c) \in RunMsg /\ AppRun(c).type = "AppRun" /\ AppRun(c).conn = c
        /\ Len(msgs') \in 1..Len(msgs') /\ msgs'[Len(msgs')] = AppRun(c)
        /\ (i \in 1..Len(msgs) /\ msgs'[i] = msgs[i]) \/ msgs'[i] = AppRun(c)
    BY <1>t, <2>2, Appended, MessagesAre
  <2>4. CASE d = c
    BY <2>3, <2>4
  <2>5. CASE d # c
    <3>1. conn[d] # "none"
      BY <1>t, <2>1, <2>2, <2>5 DEF Open, Typed
    <3>2. msgs'[i] # AppRun(c)
      <4> SUFFICES ASSUME msgs'[i] = AppRun(c) PROVE FALSE
        OBVIOUS
      <4>1. d[1] = r /\ Opened(r) + 1 < d[2]
        BY <2>3
      <4>2. d[2] <= Opened(r)
        BY <1>t, <3>1, <4>1, OpenedNumbers
      <4>3. QED
        BY <1>d, <2>2, <4>1, <4>2
    <3>3. QED
      BY <1>1, <2>2, <2>3, <3>1, <3>2
  <2>6. QED
    BY <2>4, <2>5
<1>3. CASE \E c \in Conns, how \in Ends : Close(c, how)
  <2>1. PICK c \in Conns, how \in Ends : Close(c, how)
    BY <1>3
  <2>2. /\ AppStop(c, how) \in RunMsg /\ AppStop(c, how).type = "AppStop"
        /\ msgs' = Append(msgs, AppStop(c, how))
        /\ conn[c] = "open" /\ conn' = [conn EXCEPT ![c] = how]
    BY <2>1, SendingSteps, MessagesAre
  <2>3. i \in 1..Len(msgs) /\ msgs'[i] = msgs[i] /\ conn[d] # "none"
    BY <1>t, <2>2, Appended DEF Typed
  <2>4. QED
    BY <1>1, <2>2, <2>3
<1>4. CASE \E w \in Watchers : Subscribe(w)
  <2>1. PICK w \in Watchers : Subscribe(w)
    BY <1>4
  <2>2. /\ AddRecordWatcher(w) \in RunMsg /\ AddRecordWatcher(w).type = "AddRecordWatcher"
        /\ msgs' = Append(msgs, AddRecordWatcher(w)) /\ conn' = conn
    BY <2>1, SendingSteps, MessagesAre
  <2>3. i \in 1..Len(msgs) /\ msgs'[i] = msgs[i] /\ conn[d] # "none"
    BY <1>t, <2>2, Appended
  <2>4. QED
    BY <1>1, <2>2, <2>3
<1>5. CASE TailStep
  <2>1. /\ msgs'[i] = msgs[i + 1] /\ i + 1 \in 1..Len(msgs) /\ 1 < i + 1 /\ 1 \in 1..Len(msgs)
        /\ conn' = conn
    BY <1>t, <1>5, Taken
  <2>2. PICK j \in 1..Len(msgs) : msgs[j].type = "AppRun" /\ msgs[j].conn = d
    BY <1>t, <2>1 DEF LaterWait
  <2>3. j # 1
    <3> SUFFICES ASSUME j = 1 PROVE FALSE
      OBVIOUS
    <3>1. d[2] < msgs[i + 1].conn[2]
      BY <1>t, <2>1, <2>2 DEF InTurn
    <3>2. msgs[i + 1].conn[2] \in Nat
      BY <1>t, <2>1, ConnAt
    <3>3. QED
      BY <1>d, <2>1, <3>1, <3>2
  <2>4. j - 1 \in 1..Len(msgs') /\ msgs'[j - 1] = msgs[j]
    BY <1>t, <1>5, <2>3, Taken
  <2>5. QED
    BY <2>2, <2>4
<1>6. CASE StillStep /\ ~AppendStep
  <2>1. conn[d] # "none"
    BY <1>t, <1>6, OnlyOpenOpens DEF AppendStep
  <2>2. QED
    BY <1>t, <1>6, <2>1 DEF StillStep, LaterWait
<1>7. QED
  BY <1>t, <1>2, <1>3, <1>4, <1>5, <1>6, StepKinds DEF AppendStep

\* The row of the run that is told of is written by the step that begins to tell.
LEMMA WrittenStep ==
  ASSUME LInv, [Next]_vars
  PROVE  Written'
<1>t. IInv /\ Typed /\ StepInv /\ Written
  BY DEF LInv, RInv, IInv
<1> SUFFICES ASSUME step' = "tell", Head(msgs').type = "AppStop"
             PROVE  run'[Head(msgs').conn[1]] = Head(msgs').how
  BY DEF Written
<1>1. CASE HandleAppStop
  <2>1. /\ Head(msgs) \in RunMsg /\ Head(msgs).type = "AppStop" /\ msgs' = msgs
        /\ SaveStop(Head(msgs).conn[1], Head(msgs).how)
    BY <1>t, <1>1, QueueTail DEF HandleAppStop, Takes, Typed
  <2>2. Head(msgs).conn[1] \in Runs
    BY <2>1, MessageKinds, ConnsAre
  <2>3. QED
    BY <1>t, <2>1, <2>2 DEF SaveStop, Typed
<1>2. CASE HandleAppRun
  BY <1>t, <1>2 DEF HandleAppRun, Takes
<1>3. ASSUME step = "tell", Head(msgs) = Head(msgs'), run' = run
      PROVE  run'[Head(msgs').conn[1]] = Head(msgs').how
  BY <1>t, <1>3 DEF Written
<1>4. CASE Tell \/ PageSteps
  BY <1>3, <1>4, PageStepsDo DEF Tell, rowVars
<1>5. CASE AppendStep
  <2>1. PICK m \in RunMsg : msgs' = Append(msgs, m)
    <3>1. ASSUME NEW r \in Runs, Open(r)
          PROVE  /\ AppRun(<<r, Opened(r) + 1>>) \in RunMsg
                 /\ msgs' = Append(msgs, AppRun(<<r, Opened(r) + 1>>))
      <4>1. <<r, Opened(r) + 1>> \in Conns
        BY <1>t, <3>1, NextConn DEF Open, IInv
      <4>2. QED
        BY <3>1, <4>1, MessagesAre, SendingSteps
    <3>2. ASSUME NEW c \in Conns, NEW how \in Ends, Close(c, how)
          PROVE  AppStop(c, how) \in RunMsg /\ msgs' = Append(msgs, AppStop(c, how))
      BY <3>2, MessagesAre, SendingSteps
    <3>3. ASSUME NEW w \in Watchers, Subscribe(w)
          PROVE  AddRecordWatcher(w) \in RunMsg /\ msgs' = Append(msgs, AddRecordWatcher(w))
      BY <3>3, MessagesAre, SendingSteps
    <3>4. QED
      BY <1>5, <3>1, <3>2, <3>3 DEF AppendStep
  <2>2. step' = step /\ run' = run
    BY <1>5, SendingSteps DEF AppendStep
  <2>3. Head(msgs') = Head(msgs)
    BY <1>t, <2>1, <2>2, QueueAppend DEF StepInv, Typed
  <2>4. QED
    BY <1>3, <2>2, <2>3
<1>6. CASE InsertEntry \/ RejectAppRun \/ Removes \/ HandleAddRecordWatcher \/ SpawnTask
  BY <1>6, <1>t, InsertEntryDoes, RejectAppRunDoes, RemovesDoes, AddWatcherDoes, SpawnTaskDoes
<1>7. CASE Awaited \/ UNCHANGED vars
  BY <1>3, <1>7 DEF Awaited, rowVars, tellVars, vars
<1>8. CASE \E c \in Conns : Reply(c) \/ Refuse(c) \/ Panic(c)
  BY <1>3, <1>8, ConnStepsDo
<1>9. CASE \E c \in Conns : TaskFinishes(c) \/ TaskFails(c) \/ TaskAborts(c)
  BY <1>3, <1>9, TaskStepsDo
<1>10. QED
  BY <1>1, <1>2, <1>4, <1>5, <1>6, <1>7, <1>8, <1>9, NextIs DEF Begins, AppendStep

\* The end of a connection is the last of its run.
LEMMA CloseIsLast ==
  ASSUME LInv, Apart, NEW c \in Conns, NEW how \in Ends, Close(c, how)
  PROVE  /\ IsLast(c[1], c[2])'
         /\ \A k \in 1..MaxConns[c[1]] : IsLast(c[1], k)' => k = c[2]
         /\ StopWaits(c[1], c[2])'
<1>t. /\ RInv /\ IInv /\ Typed /\ StepInv /\ c[1] \in Runs /\ c = <<c[1], c[2]>>
      /\ c[2] \in 1..MaxConns[c[1]] /\ MaxConns[c[1]] \in Nat
  BY ConnsAre, MaxConnsType DEF LInv, RInv, IInv
<1>1. /\ AppStop(c, how) \in RunMsg /\ AppStop(c, how).type = "AppStop" /\ AppStop(c, how).conn = c
      /\ msgs' = Append(msgs, AppStop(c, how)) /\ conn[c] = "open"
      /\ conn' = [conn EXCEPT ![c] = how]
  BY MessagesAre DEF Close
<1>2. c[2] = Opened(c[1])
  BY <1>1, <1>t DEF RInv, LatestLives, Live
<1>3. \A j \in 1..MaxConns[c[1]] : HasEnded(c[1], j)' => j <= c[2]
  <2> SUFFICES ASSUME NEW j \in 1..MaxConns[c[1]], HasEnded(c[1], j)', j # c[2]
               PROVE  j <= c[2]
    BY <1>t
  <2>1. <<c[1], j>> \in Conns /\ <<c[1], j>> # c
    BY <1>t, ConnsAre
  <2>2. conn[<<c[1], j>>] # "none"
    BY <1>1, <1>t, <2>1 DEF HasEnded, Ends, Typed
  <2>3. QED
    BY <1>2, <1>t, <2>1, <2>2, OpenedNumbers
<1>4. HasEnded(c[1], c[2])'
  BY <1>1, <1>t DEF HasEnded, Typed
<1>5. IsLast(c[1], c[2])'
  BY <1>3, <1>4 DEF IsLast
<1>6. ASSUME NEW k \in 1..MaxConns[c[1]], IsLast(c[1], k)'
      PROVE  k = c[2]
  BY <1>3, <1>4, <1>6, <1>t DEF IsLast
<1>7. StopWaits(c[1], c[2])'
  <2>1. /\ Len(msgs') \in 1..Len(msgs') /\ msgs'[Len(msgs')] = AppStop(c, how)
        /\ Len(msgs') \in Nat
    BY <1>1, <1>t, Appended
  <2>2. \A j \in 1..Len(msgs') : j <= Len(msgs')
    BY <2>1
  <2>3. QED
    BY <1>1, <1>t, <2>1, <2>2 DEF StopWaits
<1>8. QED
  BY <1>5, <1>6, <1>7

\* A first AppRun is not handled after its run's last AppStop.
LEMMA FirstRunFirst ==
  ASSUME LInv, Apart, HandleAppRun, NEW r \in Runs, NEW k \in 1..MaxConns[r], HasEnded(r, k),
         \A i \in 1..Len(msgs) : ~AppStopAt(i, r)
  PROVE  run'[r] = run[r]
<1> DEFINE c == msgs[1].conn
<1>t. /\ RInv /\ IInv /\ Typed /\ StepInv /\ Head(msgs) = msgs[1] /\ 1 \in 1..Len(msgs)
      /\ msgs[1].type = "AppRun"
  BY QueueTail DEF LInv, RInv, IInv, HandleAppRun, Takes, Typed
<1>1. c \in Conns /\ c[1] \in Runs /\ c = <<c[1], c[2]>> /\ conn[c] # "none"
  BY <1>t, ConnAt DEF IInv, MsgInv
<1>2. CASE c[1] = r /\ c[2] = 1
  <2> DEFINE d == <<r, k>>
  <2>1. d \in Conns /\ conn[d] \in Ends /\ conn[d] # "none" /\ k \in Nat
    BY ConnsAre, MaxConnsType DEF HasEnded, Ends
  <2>2. PICK p \in 1..Len(msgs) : msgs[p].type = "AppRun" /\ msgs[p].conn = d
    <3>1. CASE k = 1
      BY <1>1, <1>2, <1>t, <3>1
    <3>2. CASE k # 1
      <4>1. msgs[1].conn[2] < k
        BY <1>2, <2>1, <3>2
      <4>2. QED
        BY <1>2, <1>t, <2>1, <4>1 DEF LInv, LaterWait
    <3>3. QED
      BY <3>1, <3>2
  <2>3. At(d, p) /\ p \in 0..Len(msgs)
    BY <2>2 DEF At
  <2>4. StopsAfter(r, p)
    BY <1>t, <2>1, <2>3 DEF RInv, StopsInTurn
  <2>5. QED
    BY <2>4 DEF StopsAfter
<1>3. CASE ~(c[1] = r /\ c[2] = 1)
  BY <1>t, <1>1, <1>3 DEF HandleAppRun, Typed
<1>4. QED
  BY <1>2, <1>3

\* Each AppStop is written when it is handled, and the last one last.
LEMMA RowStep ==
  ASSUME LInv, [Next]_vars
  PROVE  RowInv'
<1> SUFFICES ASSUME Apart, NEW r \in Runs
             PROVE  /\ SomeLast(r)'
                    /\ \A k \in 1..MaxConns[r] : IsLast(r, k)' => StopWaits(r, k)' \/ RowTells(r, k)'
  BY StepKinds DEF LInv, RInv, RowInv, Apart
<1>t. RInv /\ IInv /\ Typed /\ StepInv /\ StopTells
  BY DEF LInv, RInv, IInv
<1>1. CASE \E c \in Conns, how \in Ends : c[1] = r /\ Close(c, how)
  <2>1. PICK c \in Conns, how \in Ends : c[1] = r /\ Close(c, how)
    BY <1>1
  <2>2. c[2] \in 1..MaxConns[r]
    BY <2>1, ConnsAre
  <2>3. /\ IsLast(r, c[2])' /\ StopWaits(r, c[2])'
        /\ \A k \in 1..MaxConns[r] : IsLast(r, k)' => k = c[2]
    BY <2>1, CloseIsLast
  <2>4. SomeLast(r)'
    BY <2>2, <2>3 DEF SomeLast
  <2>5. QED
    BY <2>3, <2>4
<1>2. CASE ~\E c \in Conns, how \in Ends : c[1] = r /\ Close(c, how)
  <2>1. \A k \in 1..MaxConns[r] :
          /\ HasEnded(r, k)' <=> HasEnded(r, k)
          /\ HasEnded(r, k) => conn'[<<r, k>>] = conn[<<r, k>>]
    <3> SUFFICES ASSUME NEW k \in 1..MaxConns[r]
                 PROVE  /\ HasEnded(r, k)' <=> HasEnded(r, k)
                        /\ HasEnded(r, k) => conn'[<<r, k>>] = conn[<<r, k>>]
      OBVIOUS
    <3>1. <<r, k>> \in Conns /\ <<r, k>>[1] = r
      BY ConnsAre
    <3>2. QED
      BY <1>2, <1>t, <3>1, ConnStep DEF HasEnded, Over
  <2>2. SomeLast(r)'
    BY <2>1 DEF LInv, RowInv, SomeLast, IsLast
  <2>3. ASSUME NEW k \in 1..MaxConns[r], IsLast(r, k)'
        PROVE  StopWaits(r, k)' \/ RowTells(r, k)'
    <3>1. IsLast(r, k) /\ HasEnded(r, k) /\ conn'[<<r, k>>] = conn[<<r, k>>]
      BY <2>1, <2>3 DEF IsLast
    <3>2. StopWaits(r, k) \/ RowTells(r, k)
      BY <3>1 DEF LInv, RowInv
    <3>3. CASE AppendStep
      <4>1. PICK m \in RunMsg : /\ msgs' = Append(msgs, m)
                                /\ m.type = "AppStop" => m.conn[1] # r
        <5>1. ASSUME NEW q \in Runs, Open(q)
              PROVE  /\ AppRun(<<q, Opened(q) + 1>>) \in RunMsg
                     /\ AppRun(<<q, Opened(q) + 1>>).type # "AppStop"
                     /\ msgs' = Append(msgs, AppRun(<<q, Opened(q) + 1>>))
          <6>1. <<q, Opened(q) + 1>> \in Conns
            BY <1>t, <5>1, NextConn DEF Open, IInv
          <6>2. QED
            BY <5>1, <6>1, MessagesAre DEF Open
        <5>2. ASSUME NEW c \in Conns, NEW how \in Ends, Close(c, how)
              PROVE  /\ AppStop(c, how) \in RunMsg /\ AppStop(c, how).conn[1] # r
                     /\ msgs' = Append(msgs, AppStop(c, how))
          BY <1>2, <5>2, MessagesAre DEF Close
        <5>3. ASSUME NEW w \in Watchers, Subscribe(w)
              PROVE  /\ AddRecordWatcher(w) \in RunMsg /\ AddRecordWatcher(w).type # "AppStop"
                     /\ msgs' = Append(msgs, AddRecordWatcher(w))
          BY <5>3, MessagesAre DEF Subscribe
        <5>4. QED
          BY <3>3, <5>1, <5>2, <5>3 DEF AppendStep
      <4>2. /\ \A i \in 1..Len(msgs) : msgs'[i] = msgs[i] /\ i \in 1..Len(msgs')
            /\ \A i \in 1..Len(msgs') : AppStopAt(i, r)' => i \in 1..Len(msgs) /\ AppStopAt(i, r)
        BY <1>t, <4>1, Appended DEF AppStopAt
      <4>3. UNCHANGED <<run, unsaved>>
        BY <3>3, SendingSteps DEF AppendStep
      <4>4. StopWaits(r, k) => StopWaits(r, k)'
        BY <4>2 DEF StopWaits
      <4>5. RowTells(r, k) => RowTells(r, k)'
        BY <3>1, <4>2, <4>3 DEF RowTells
      <4>6. QED
        BY <3>2, <4>4, <4>5
    <3>4. CASE TailStep
      <4>t. /\ Len(msgs) \in Nat \ {0} /\ 1 \in 1..Len(msgs) /\ Head(msgs) = msgs[1]
            /\ \A i \in 1..Len(msgs') : msgs'[i] = msgs[i + 1] /\ i + 1 \in 1..Len(msgs)
            /\ \A i \in 1..Len(msgs) : i # 1 => msgs'[i - 1] = msgs[i] /\ i - 1 \in 1..Len(msgs')
            /\ Len(msgs') = Len(msgs) - 1
        BY <1>t, <3>4, Taken
      <4>1. \A i \in 1..Len(msgs') : AppStopAt(i, r)' => AppStopAt(i + 1, r)
        BY <4>t DEF AppStopAt
      <4>2. ASSUME NEW i \in 1..Len(msgs), msgs[i].type = "AppStop", msgs[i].conn = <<r, k>>,
                   \A j \in 1..Len(msgs) : AppStopAt(j, r) => j <= i
            PROVE  StopWaits(r, k)' \/ RowTells(r, k)'
        <5>1. CASE i # 1
          <6>1. i - 1 \in 1..Len(msgs') /\ msgs'[i - 1] = msgs[i]
            BY <4>t, <5>1
          <6>2. ASSUME NEW j \in 1..Len(msgs'), AppStopAt(j, r)'
                PROVE  j <= i - 1
            <7>1. j + 1 \in 1..Len(msgs) /\ AppStopAt(j + 1, r)
              BY <4>t, <4>1, <6>2
            <7>2. j + 1 <= i
              BY <4>2, <7>1
            <7>3. QED
              BY <4>t, <7>2
          <6>3. QED
            BY <4>2, <6>1, <6>2 DEF StopWaits
        <5>2. CASE i = 1
          <6>1. \A j \in 1..Len(msgs') : ~AppStopAt(j, r)'
            <7> SUFFICES ASSUME NEW j \in 1..Len(msgs'), AppStopAt(j, r)' PROVE FALSE
              OBVIOUS
            <7>1. j + 1 \in 1..Len(msgs) /\ AppStopAt(j + 1, r)
              BY <4>t, <4>1
            <7>2. QED
              BY <4>2, <4>t, <5>2, <7>1
          <6>2. Removes
            BY <1>t, <3>4, <4>2, <4>t, <5>2, InsertEntryDoes, RejectAppRunDoes, AddWatcherDoes
               DEF TailStep
          <6>3. CASE StopTold
            <7>1. step = "tell" /\ run' = run
              BY <6>3 DEF StopTold, AllTold, rowVars
            <7>2. msgs[1].how = conn[<<r, k>>] /\ msgs[1].conn[1] = r
              BY <1>t, <4>2, <4>t, <5>2 DEF StopTells
            <7>3. run[r] = conn[<<r, k>>]
              BY <4>2, <4>t, <5>2, <7>1, <7>2 DEF LInv, Written
            <7>4. QED
              BY <3>1, <6>1, <7>1, <7>3 DEF RowTells
          <6>4. CASE HandleAppStopUnsaved
            <7>1. r \in unsaved'
              BY <4>2, <4>t, <5>2, <6>4 DEF HandleAppStopUnsaved
            <7>2. QED
              BY <6>1, <7>1 DEF RowTells
          <6>5. QED
            BY <6>2, <6>3, <6>4 DEF Removes
        <5>3. QED
          BY <5>1, <5>2
      <4>3. ASSUME RowTells(r, k)
            PROVE  RowTells(r, k)'
        <5>1. \A j \in 1..Len(msgs') : ~AppStopAt(j, r)'
          BY <4>1, <4>3, <4>t DEF RowTells
        <5>2. run'[r] = run[r] /\ (r \in unsaved <=> r \in unsaved')
          <6>1. CASE InsertEntry \/ RejectAppRun \/ HandleAddRecordWatcher \/ StopTold
            BY <1>t, <6>1, RejectAppRunDoes, AddWatcherDoes DEF InsertEntry, StopTold, rowVars
          <6>2. CASE HandleAppStopUnsaved
            <7>1. ~AppStopAt(1, r) /\ msgs[1].type = "AppStop"
              BY <1>t, <4>3, <4>t, <6>2, RemovesDoes DEF RowTells, Removes
            <7>2. msgs[1].conn[1] # r
              BY <7>1 DEF AppStopAt
            <7>3. QED
              BY <1>t, <4>t, <6>2, <7>2 DEF HandleAppStopUnsaved
          <6>3. QED
            BY <3>4, <6>1, <6>2 DEF TailStep, Removes
        <5>3. QED
          BY <3>1, <4>3, <5>1, <5>2 DEF RowTells
      <4>4. QED
        BY <3>2, <4>2, <4>3 DEF StopWaits
    <3>5. CASE StillStep /\ ~TailStep /\ ~AppendStep
      <4>1. CASE HandleAppRun
        <5>1. RowTells(r, k) => run'[r] = run[r] /\ unsaved' = unsaved
          BY <3>1, <4>1, FirstRunFirst DEF RowTells, HandleAppRun
        <5>2. QED
          BY <3>1, <3>2, <3>5, <5>1 DEF StillStep, StopWaits, RowTells, AppStopAt
      <4>2. CASE HandleAppStop
        <5>1. /\ Head(msgs) = msgs[1] /\ 1 \in 1..Len(msgs) /\ msgs[1].type = "AppStop"
              /\ SaveStop(msgs[1].conn[1], msgs[1].how)
          BY <1>t, <4>2, QueueTail DEF HandleAppStop, Takes, Typed
        <5>2. msgs[1].conn[1] = r => ~RowTells(r, k)
          BY <5>1 DEF RowTells, AppStopAt
        <5>3. msgs[1].conn[1] # r => run'[r] = run[r] /\ (r \in unsaved' <=> r \in unsaved)
          BY <1>t, <5>1 DEF SaveStop, Typed
        <5>4. QED
          BY <3>1, <3>2, <3>5, <5>2, <5>3 DEF StillStep, StopWaits, RowTells, AppStopAt
      <4>3. CASE ~HandleAppRun /\ ~HandleAppStop
        <5>1. UNCHANGED <<run, unsaved>>
          <6>1. CASE Tell \/ SpawnTask \/ Awaited \/ UNCHANGED vars
            BY <6>1 DEF Tell, SpawnTask, Awaited, rowVars, vars
          <6>2. CASE PageSteps
            BY <6>2, PageStepsDo
          <6>3. CASE \E c \in Conns : Reply(c) \/ Refuse(c) \/ Panic(c)
            BY <6>3, ConnStepsDo
          <6>4. CASE \E c \in Conns : TaskFinishes(c) \/ TaskFails(c) \/ TaskAborts(c)
            BY <6>4, TaskStepsDo
          <6>5. QED
            BY <3>5, <4>3, <6>1, <6>2, <6>3, <6>4, NextIs DEF Begins, TailStep, AppendStep
        <5>2. QED
          BY <3>1, <3>2, <3>5, <5>1 DEF StillStep, StopWaits, RowTells, AppStopAt
      <4>4. QED
        BY <4>1, <4>2, <4>3
    <3>6. QED
      BY <1>t, <3>3, <3>4, <3>5, StepKinds
  <2>4. QED
    BY <2>2, <2>3
<1>3. QED
  BY <1>1, <1>2

-----------------------------------------------------------------------------
\* The order of messages, throughout (grpc_service.rs 853-955, running_app.rs 227-391).
THEOREM ReconnectInvariance == Spec => []RInv
<1>1. Init /\ IInv => RInv
  <2> SUFFICES ASSUME Init, IInv PROVE RInv
    OBVIOUS
  <2>1. Len(<<>>) = 0
    BY EmptySeq
  <2>2. InTurn /\ Spoken
    BY <2>1 DEF Init, InTurn, Spoken
  <2>3. \A c \in Conns : ~Live(c) /\ conn[c] \notin Ends /\ task[c] = "none"
    BY DEF Init, Live, Ends
  <2>4. QED
    BY <2>1, <2>2, <2>3 DEF Init, RInv, TasksInTurn, LatestLives, StopsInTurn, NothingDiscarded, Unthreatened,
                      LiveRunsAreGlobal
<1>2. RInv /\ IInv' /\ [Next]_vars => RInv'
  BY InTurnStep, SpokenStep, LatestLivesStep, StopsInTurnStep, DiscardStep, UnthreatenedStep,
     LiveRunsStep, TasksInTurnStep DEF RInv
<1>3. QED
  BY <1>1, <1>2, Invariance, PTL DEF Spec

\* When clients come back only after the server's side of the old connection is
\* over, no task is aborted but that of a connection that was refused or whose
\* task panicked, for any runs and any number of connections
\* (grpc_service.rs 853-955, running_app.rs 200-206, 324-338).
THEOREM DiscardsNothing == Spec => []NothingDiscarded
<1>1. RInv => NothingDiscarded
  BY DEF RInv
<1>2. QED
  BY <1>1, ReconnectInvariance, PTL

\* Of two tasks of a run that execute, the older was told to abort or is about to
\* be replaced, and, if clients come back only after the server's side of the old
\* connection is over, its connection was refused or panicked
\* (running_app.rs 199-205, 316-338).
THEOREM OneTask == Spec => []OneTaskPerRun
<1>1. RInv => OneTaskPerRun
  <2> SUFFICES ASSUME RInv, NEW c \in Conns, NEW d \in Conns, c[1] = d[1], c[2] < d[2],
                      Executes(c), Executes(d)
               PROVE  /\ task[c] = "aborting" \/ Inserts(d)
                      /\ Apart => conn[c] \in Silent
    BY DEF OneTaskPerRun, Apart
  <2>t. /\ IInv /\ Typed /\ StepInv /\ InTurn /\ TasksInTurn
        /\ c[1] \in Runs /\ c[2] \in Nat \ {0} /\ d[2] \in Nat \ {0}
        /\ c = <<c[1], c[2]>> /\ d = <<d[1], d[2]>>
    BY ConnsAre, MaxConnsType DEF RInv, IInv
  <2>1. CASE task[c] = "aborting"
    BY <2>1 DEF RInv, NothingDiscarded, Apart
  <2>2. CASE task[c] = "running"
    <3>1. task[d] = "running"
      <4>1. task[d] = "aborting" => d[2] < c[2]
        BY <2>t, <2>2 DEF TasksInTurn
      <4>2. QED
        BY <2>t, <4>1 DEF Executes
    <3>2. ~Inserts(c)
      <4> SUFFICES ASSUME Inserts(c) PROVE FALSE
        OBVIOUS
      <4>1. /\ Head(msgs) = msgs[1] /\ 1 \in 1..Len(msgs) /\ msgs[1].type = "AppRun"
            /\ awaiting = {} /\ msgs[1].conn = c
        BY <2>t, QueueTail DEF Typed, StepInv, Inserts
      <4>2. d[2] <= c[2]
        BY <2>t, <3>1, <4>1 DEF TasksInTurn
      <4>3. QED
        BY <2>t, <4>2
    <3>3. /\ entry[c[1]] = c[2] \/ c \in awaiting
          /\ entry[d[1]] = d[2] \/ d \in awaiting \/ Inserts(d)
          /\ c \in awaiting => entry[c[1]] = 0
          /\ d \in awaiting => entry[d[1]] = 0
          /\ c \in awaiting /\ d \in awaiting => c = d
          /\ Inserts(d) => awaiting = {}
      BY <2>t, <2>2, <3>1, <3>2 DEF IInv, TaskInv, Typed, StepInv, Inserts
    <3>4. Inserts(d) /\ entry[c[1]] = c[2]
      BY <2>t, <3>3
    <3>5. Apart => conn[c] \in Silent
      BY <3>4, ReplacedSilent DEF Inserts
    <3>6. QED
      BY <3>4, <3>5
  <2>3. QED
    BY <2>1, <2>2 DEF Executes
<1>2. QED
  BY <1>1, ReconnectInvariance, PTL

\* When clients come back only after the registry has dealt with the old
\* connection, GLOBAL_DATA knows the run of every connection that lives
\* (grpc_service.rs 262-300, running_app.rs 340-391).
THEOREM LiveRunsKnown == Spec => []LiveRunsAreGlobal
<1>1. RInv => LiveRunsAreGlobal
  BY DEF RInv
<1>2. QED
  BY <1>1, ReconnectInvariance, PTL

\* What waits and what is written of the ends of a run, throughout
\* (grpc_service.rs 882-943, running_app.rs 340-391).
THEOREM EndsInvariance == Spec => []LInv
<1>1. Init /\ RInv => LInv
  <2> SUFFICES ASSUME Init, RInv PROVE LInv
    OBVIOUS
  <2>1. Len(<<>>) = 0
    BY EmptySeq
  <2>2. StopTells
    BY <2>1 DEF Init, StopTells
  <2>3. \A c \in Conns : conn[c] = "none"
    BY DEF Init
  <2>4. LaterWait
    BY <2>1 DEF Init, LaterWait
  <2>6. RowInv
    <3>1. \A r \in Runs : \A k \in 1..MaxConns[r] : ~HasEnded(r, k)
      BY <2>3, ConnsAre DEF HasEnded, Ends
    <3>2. QED
      BY <3>1 DEF RowInv, SomeLast, IsLast
  <2>7. QED
    BY <2>2, <2>4, <2>6 DEF Init, Written, LInv
<1>2. LInv /\ RInv' /\ [Next]_vars => LInv'
  BY StopTellsStep, LaterWaitStep, WrittenStep, RowStep DEF LInv, RInv
<1>3. QED
  BY <1>1, <1>2, ReconnectInvariance, PTL DEF Spec

\* When clients come back only after the server's side of the old connection is
\* over, the row of a run that rests tells how its last connection ended, if it
\* could be written (running_app.rs 340-391).
THEOREM RowsTell == Spec => []RowTellsLastEnd
<1>1. LInv => RowTellsLastEnd
  <2> SUFFICES ASSUME LInv, NEW r \in Runs, Apart, Rests(r), run[r] # "absent", r \notin unsaved,
                      NEW n \in 1..MaxConns[r], HasEnded(r, n)
               PROVE  run[r] = LastEnd(r)
    BY DEF RowTellsLastEnd, Apart, HasEnded
  <2> DEFINE ended == {k \in 1..MaxConns[r] : conn[<<r, k>>] \in Ends}
  <2>1. PICK k \in 1..MaxConns[r] : IsLast(r, k)
    BY DEF LInv, RowInv, SomeLast
  <2>2. k \in ended /\ (\A j \in ended : j <= k) /\ ended \subseteq Nat
    BY <2>1, MaxConnsType DEF IsLast, HasEnded
  <2>3. \A j \in ended : (\A i \in ended : i <= j) => j = k
    BY <2>2
  <2>4. (CHOOSE j \in ended : \A i \in ended : i <= j) = k
    BY <2>2, <2>3
  <2>5. LastEnd(r) = conn[<<r, k>>]
    BY <2>4 DEF LastEnd
  <2>6. ~StopWaits(r, k)
    BY EmptySeq DEF Rests, StopWaits
  <2>7. RowTells(r, k)
    BY <2>1, <2>6 DEF LInv, RowInv
  <2>8. QED
    BY <2>5, <2>7 DEF RowTells
<1>2. QED
  BY <1>1, EndsInvariance, PTL
=============================================================================
