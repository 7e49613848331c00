---------------------------- MODULE RunPipeline -----------------------------
(***************************************************************************)
(* RunningApp::handle_records of bins/server/src/running_app.rs: the task  *)
(* that takes the records of one application run from a channel, stores    *)
(* them in batches and forwards them to the live watchers.                 *)
(*                                                                         *)
(* Each turn of the task's loop joins two futures over two buffers.        *)
(* future_1 fills buf_records_1 from the channel until the buffer is full, *)
(* a delay has passed or every sender is gone; future_2 writes             *)
(* buf_records_2, filled in the turn before, to the database and notifies  *)
(* the watchers.  When both are done the buffers are swapped.              *)
(*                                                                         *)
(* A record is named by its place in the order in which the connection's   *)
(* task sent it to the channel, the order of the identifiers that          *)
(* RECORD_ID_GENERATOR hands out there.  What a record says about spans is *)
(* left out but for one thing: a record of a span the run does not know is *)
(* stored and not forwarded (the `continue`s of future_2); Orphan is the   *)
(* set of those records.  The statements on spans run beside the insert    *)
(* and their failure is only logged, so they decide nothing here.          *)
(***************************************************************************)
EXTENDS Naturals, Sequences, FiniteSets

CONSTANTS
  Watchers,       \* live subscriptions to the records of this run
  Wanted,         \* Wanted[w]: the records that pass the filter of watcher w
  Orphan,         \* the records of spans the run does not know
  MaxBufCount,    \* TLConfig::record_max_buf_count
  MaxRecords      \* bound on the records sent (model checking only)

ASSUME ConstantsAssumption ==
  /\ MaxBufCount \in Nat
  /\ MaxRecords \in Nat
  /\ Orphan \subseteq Nat
  /\ Wanted \in [Watchers -> SUBSET Nat]

VARIABLES
  senders,     \* who still holds a sender of the channel: "lifetime", "registry"
  sent,        \* how many records the connection's task has sent
  queue,       \* the channel: AppRunMsg values in order
  known,       \* the watchers ever sent to the channel
  gone,        \* the watchers whose receiver was dropped
  task,        \* "running", "finished", "failed" (panicked) or "aborted"
  fill,        \* future_1: "first", "more", "done" or "eof"
  flush,       \* future_2: "prep" or "exec"
  buf1,        \* buf_records_1
  buf2,        \* buf_records_2
  newWatchers, \* buf_event_senders
  watchers,    \* event_service.record_event_senders
  inserting,   \* record_batch_inserter: rows appended and not yet executed
  dtos,        \* dto_buf: the notifications still to be sent
  stored,      \* rows of tracing_record
  since,       \* since[w]: the first record w is served from; 0 before that
  feed         \* feed[w]: the records sent to the channel of w

senderVars == <<senders, sent, known, gone>>
fillVars   == <<queue, fill, buf1, newWatchers>>
flushVars  == <<flush, inserting, dtos, stored, feed>>
vars == <<senders, sent, queue, known, gone, task, fill, flush, buf1, buf2,
          newWatchers, watchers, inserting, dtos, stored, since, feed>>

Record(n) == [type |-> "Record", id |-> n]
AddRecordWatcher(w) == [type |-> "AddRecordWatcher", watcher |-> w]
AppRunMsg == [type : {"Record"}, id : Nat]
               \cup [type : {"AddRecordWatcher"}, watcher : Watchers]

Init ==
  /\ senders = {"lifetime", "registry"}
  /\ sent = 0
  /\ queue = <<>>
  /\ known = {}
  /\ gone = {}
  /\ task = "running"
  /\ fill = "first"
  /\ flush = "prep"
  /\ buf1 = <<>>
  /\ buf2 = <<>>
  /\ newWatchers = {}
  /\ watchers = {}
  /\ inserting = <<>>
  /\ dtos = <<>>
  /\ stored = <<>>
  /\ since = [w \in Watchers |-> 0]
  /\ feed = [w \in Watchers |-> <<>>]

-----------------------------------------------------------------------------
(* The senders of the channel.                                             *)

\* The connection's task sends the next record (grpc_service.rs, app_run).
Send ==
  /\ "lifetime" \in senders
  /\ task = "running"
  /\ sent < MaxRecords
  /\ sent' = sent + 1
  /\ queue' = Append(queue, Record(sent + 1))
  /\ UNCHANGED <<senders, known, gone, task, fill, buf1, buf2, newWatchers,
                 watchers, since, flushVars>>

\* The connection ends, or finds that the receiver is gone and ends; either
\* way app_stop consumes the lifetime and with it the sender.
LifetimeEnds ==
  /\ "lifetime" \in senders
  /\ senders' = senders \ {"lifetime"}
  /\ UNCHANGED <<sent, known, gone, task, buf2, watchers, since, fillVars, flushVars>>

\* The registry forwards a subscription; a send to a dropped receiver is
\* logged and forgotten.
ForwardWatcher(w) ==
  /\ "registry" \in senders
  /\ w \notin known
  /\ known' = known \cup {w}
  /\ queue' = IF task = "running" THEN Append(queue, AddRecordWatcher(w)) ELSE queue
  /\ UNCHANGED <<senders, sent, gone, task, fill, buf1, buf2, newWatchers,
                 watchers, since, flushVars>>

\* The registry handles an AppStop: it removes its entry and drops the sender
\* before it awaits the task.
RegistryDrops ==
  /\ "registry" \in senders
  /\ senders' = senders \ {"registry"}
  /\ UNCHANGED <<sent, known, gone, task, buf2, watchers, since, fillVars, flushVars>>

\* The registry replaces its entry for this run: dropping the old entry aborts
\* the task at whatever await it stands.
Abort ==
  /\ "registry" \in senders
  /\ task = "running"
  /\ task' = "aborted"
  /\ senders' = senders \ {"registry"}
  /\ UNCHANGED <<sent, known, gone, buf2, watchers, since, fillVars, flushVars>>

\* A browser closes its event stream.
WatcherLeaves(w) ==
  /\ w \in known \ gone
  /\ gone' = gone \cup {w}
  /\ UNCHANGED <<senders, sent, known, task, buf2, watchers, since, fillVars, flushVars>>

-----------------------------------------------------------------------------
(* future_1: filling buf_records_1.                                        *)

\* pre_handle_msg on the message at the head of the channel: a record is
\* buffered, a watcher is set aside until the next swap.
PreHandleMsg ==
  /\ queue # <<>>
  /\ queue' = Tail(queue)
  /\ \/ /\ Head(queue).type = "Record"
        /\ buf1' = Append(buf1, Head(queue).id)
        /\ UNCHANGED newWatchers
     \/ /\ Head(queue).type = "AddRecordWatcher"
        /\ newWatchers' = newWatchers \cup {Head(queue).watcher}
        /\ UNCHANGED buf1

\* Mutant: the capacity test is off by one.
BufFilledLate(buf) == Len(buf) >= MaxBufCount + 2

\* PreHandleResult::BufFilled: the buffer takes one record more than
\* record_max_buf_count before it counts as full.
BufFilled(buf) == Len(buf) >= MaxBufCount + 1

\* The first receive of a turn.  A watcher that comes first ends the turn at
\* once, so that it does not wait for a record; a full buffer does not.
RecvFirst ==
  /\ task = "running" /\ fill = "first"
  /\ PreHandleMsg
  /\ fill' = IF Head(queue).type = "AddRecordWatcher" THEN "done" ELSE "more"
  /\ UNCHANGED <<senderVars, task, buf2, watchers, since, flushVars>>

\* Mutant: a closed channel ends a turn like any other.
RecvEofAsTurn ==
  /\ task = "running" /\ fill = "first"
  /\ queue = <<>> /\ senders = {}
  /\ fill' = "done"
  /\ UNCHANGED <<senderVars, queue, task, buf1, buf2, newWatchers, watchers,
                 since, flushVars>>

\* Every sender is gone and the channel is empty: the last turn.
RecvEof ==
  /\ task = "running" /\ fill = "first"
  /\ queue = <<>> /\ senders = {}
  /\ fill' = "eof"
  /\ UNCHANGED <<senderVars, queue, task, buf1, buf2, newWatchers, watchers,
                 since, flushVars>>

\* A later receive of the turn.
RecvMore ==
  /\ task = "running" /\ fill = "more"
  /\ PreHandleMsg
  /\ fill' = IF Head(queue).type = "Record" /\ BufFilled(buf1') THEN "done" ELSE "more"
  /\ UNCHANGED <<senderVars, task, buf2, watchers, since, flushVars>>

\* Mutant: finding the channel closed ends the loop from within a turn.
StopFillingAtEof ==
  /\ task = "running" /\ fill = "more"
  /\ fill' = IF queue = <<>> /\ senders = {} THEN "eof" ELSE "done"
  /\ UNCHANGED <<senderVars, queue, task, buf1, buf2, newWatchers, watchers,
                 since, flushVars>>

\* Mutant: no delay, a turn ends with a full buffer or a closed channel only.
StopFillingWithoutDelay ==
  /\ task = "running" /\ fill = "more"
  /\ queue = <<>> /\ senders = {}
  /\ fill' = "done"
  /\ UNCHANGED <<senderVars, queue, task, buf1, buf2, newWatchers, watchers,
                 since, flushVars>>

\* record_max_delay has passed, or the channel is closed and empty.  The delay
\* runs from the start of the turn, so it may be over at the first record.
StopFilling ==
  /\ task = "running" /\ fill = "more"
  /\ fill' = "done"
  /\ UNCHANGED <<senderVars, queue, task, buf1, buf2, newWatchers, watchers,
                 since, flushVars>>

-----------------------------------------------------------------------------
(* future_2: storing and forwarding buf_records_2.                         *)

\* Mutant: the continues are gone.
ForwardedAlways(r) == TRUE

Forwarded(r) == r \notin Orphan

\* The part of future_2 without an await: every record is appended to the
\* insert statement and to the notifications; watchers whose receiver is gone
\* are forgotten.  (The code leaves the orphans out of dto_buf; here Notify
\* passes over them.)
PrepareFlush ==
  /\ task = "running" /\ flush = "prep"
  /\ flush' = "exec"
  /\ inserting' = buf2
  /\ dtos' = buf2
  /\ buf2' = <<>>
  /\ watchers' = watchers \ gone
  /\ UNCHANGED <<senderVars, task, since, fillVars, stored, feed>>

\* Mutant: the statement is kept after it was executed.
InsertRowsKeeping ==
  /\ task = "running" /\ flush = "exec"
  /\ inserting # <<>> /\ Len(stored) < MaxRecords + 1
  /\ stored' = stored \o inserting
  /\ UNCHANGED <<senderVars, task, buf2, watchers, since, fillVars, flush,
                 inserting, dtos, feed>>

\* The insert statement, one statement for the batch, succeeds ...
InsertRows ==
  /\ task = "running" /\ flush = "exec"
  /\ inserting # <<>>
  /\ stored' = stored \o inserting
  /\ inserting' = <<>>
  /\ UNCHANGED <<senderVars, task, buf2, watchers, since, fillVars, flush, dtos, feed>>

\* ... or fails: try_join cancels the other futures, the error leaves
\* handle_records and the unwrap around it ends the task.
InsertFails ==
  /\ task = "running" /\ flush = "exec"
  /\ inserting # <<>>
  /\ task' = "failed"
  /\ UNCHANGED <<senderVars, buf2, watchers, since, fillVars, flushVars>>

\* EventService::notify sends the next record to each watcher that wants it;
\* a send to a watcher that has left fails and is logged.
Notify ==
  /\ task = "running" /\ flush = "exec"
  /\ dtos # <<>>
  /\ dtos' = Tail(dtos)
  /\ feed' = [w \in Watchers |->
                IF w \in watchers \ gone /\ Head(dtos) \in Wanted[w] /\ Forwarded(Head(dtos))
                THEN Append(feed[w], Head(dtos)) ELSE feed[w]]
  /\ UNCHANGED <<senderVars, task, buf2, watchers, since, fillVars, flush,
                 inserting, stored>>

-----------------------------------------------------------------------------
\* Mutant: the senders set aside during the turn are not drained.
SwapForgetsWatchers ==
  /\ task = "running"
  /\ fill \in {"done", "eof"}
  /\ flush = "exec" /\ inserting = <<>> /\ dtos = <<>>
  /\ buf1' = buf2
  /\ buf2' = buf1
  /\ task' = IF fill = "eof" THEN "finished" ELSE "running"
  /\ fill' = "first"
  /\ flush' = "prep"
  /\ UNCHANGED <<senderVars, queue, newWatchers, watchers, since, inserting, dtos,
                 stored, feed>>

\* Both futures are done: swap the buffers, let the new watchers in, and leave
\* the loop if the channel was found closed.
Swap ==
  /\ task = "running"
  /\ fill \in {"done", "eof"}
  /\ flush = "exec" /\ inserting = <<>> /\ dtos = <<>>
  /\ buf1' = buf2
  /\ buf2' = buf1
  /\ watchers' = watchers \cup newWatchers
  /\ since' = [w \in Watchers |-> IF w \in newWatchers THEN Len(stored) + 1 ELSE since[w]]
  /\ newWatchers' = {}
  /\ task' = IF fill = "eof" THEN "finished" ELSE "running"
  /\ fill' = "first"
  /\ flush' = "prep"
  /\ UNCHANGED <<senderVars, queue, inserting, dtos, stored, feed>>

Fill  == RecvFirst \/ RecvEof \/ RecvMore \/ StopFilling
Flush == PrepareFlush \/ InsertRows \/ Notify
Task  == Fill \/ Flush \/ Swap

Environment ==
  \/ Send \/ LifetimeEnds \/ RegistryDrops \/ Abort
  \/ \E w \in Watchers : ForwardWatcher(w) \/ WatcherLeaves(w)

\* The system has come to rest: the task is over and nobody holds a sender.
Rest ==
  /\ task # "running" /\ senders = {}
  /\ UNCHANGED vars

Next == Task \/ InsertFails \/ Environment \/ Rest

Spec == Init /\ [][Next]_vars

\* The runtime keeps polling the task: a future that can go on does, and the
\* timer fires.  Nothing is assumed of the senders or of the database.
FairSpec ==
  Spec /\ WF_vars(Fill) /\ WF_vars(PrepareFlush) /\ WF_vars(InsertRows)
       /\ WF_vars(Notify) /\ WF_vars(Swap)
-----------------------------------------------------------------------------
\* The values the variables may take.
Types ==
  /\ senders \subseteq {"lifetime", "registry"}
  /\ sent \in Nat
  /\ queue \in Seq(AppRunMsg)
  /\ known \subseteq Watchers /\ gone \subseteq Watchers
  /\ task \in {"running", "finished", "failed", "aborted"}
  /\ fill \in {"first", "more", "done", "eof"}
  /\ flush \in {"prep", "exec"}
  /\ buf1 \in Seq(Nat) /\ buf2 \in Seq(Nat)
  /\ newWatchers \subseteq Watchers /\ watchers \subseteq Watchers
  /\ inserting \in Seq(Nat) /\ dtos \in Seq(Nat) /\ stored \in Seq(Nat)
  /\ since \in [Watchers -> Nat]
  /\ feed \in [Watchers -> Seq(Nat)]

\* The most records a turn can buffer: one more than record_max_buf_count, and
\* two when that is zero, as the first receive of a turn never ends it.
Capacity == IF MaxBufCount = 0 THEN 2 ELSE MaxBufCount + 1

\* The variables keep to their types, and neither a buffer nor the statement
\* made of it outgrows what a turn can buffer.
TypeOK ==
  /\ Types
  /\ Len(buf1) <= Capacity /\ Len(buf2) <= Capacity /\ Len(inserting) <= Capacity

\* The rows stored for a run are at all times, whether the task runs, has ended,
\* has panicked over a failed insert or was aborted by the registry, the first
\* so many records sent, each once and in order.  The double buffering of
\* handle_records must keep this, and resuming a run after its last stored
\* record relies on it.
StoredInOrder == \A i \in 1..Len(stored) : stored[i] = i /\ i <= sent

\* A task that returns from handle_records has stored every record sent to it:
\* the last turn, in which the channel is found closed, still flushes the
\* buffer filled in the turn before and leaves nothing in the other.
NothingLost == task = "finished" => Len(stored) = sent

\* The records a watcher was let in for and that have been flushed or are about
\* to be notified.
Due(w) == {r \in since[w]..(Len(stored) + Len(inserting)) : r \in Wanted[w] \ Orphan}

\* Each live watcher has received, in order and once each, exactly the records
\* that pass its filter from the first batch filled after it was let in, but
\* for those still waiting in dto_buf.
FeedComplete ==
  \A w \in Watchers :
    /\ \A i, j \in 1..Len(feed[w]) : i < j => feed[w][i] < feed[w][j]
    /\ task = "running" /\ w \in watchers \ gone =>
         {feed[w][i] : i \in 1..Len(feed[w])}
           = Due(w) \ {dtos[i] : i \in 1..Len(dtos)}

\* Every record sent is stored in the end, without a further message having to
\* arrive, unless the task panics or is aborted.
SentIsStored ==
  \A n \in 1..MaxRecords :
    (sent >= n) ~> (Len(stored) >= n \/ task \in {"failed", "aborted"})

\* Once the connection and the registry have let go of their senders the task
\* ends, which the registry waits for before it handles its next message.
TaskEnds == (senders = {}) ~> (task # "running")

\* A subscription that reached the channel is let in, also when no record
\* follows it, unless the task ends first.
WatcherServed ==
  \A w \in Watchers : (w \in known) ~> (since[w] # 0 \/ task # "running")

\* The pipeline implements the abstract log of a run, with batches of at most
\* Capacity records: however records, watchers, timeouts, database failures and
\* the registry's abort fall together, the rows stored grow by the next few
\* records accepted, and a run that finishes has them all.
Log == INSTANCE RunLog WITH
         BatchLimit <- Capacity,
         accepted <- sent,
         outcome <- IF task \in {"running", "finished"} THEN task ELSE "broken"

ImplementsRunLog == Log!Spec
=============================================================================
