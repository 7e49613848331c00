--------------------------- MODULE ReconnectClient ---------------------------
(***************************************************************************)
(* The client with reconnection and persistence:                           *)
(* libs/client/src/reconnect_and_persistence.rs, with the guard of         *)
(* client.rs and, seen from the client, app_run of grpc_service.rs.        *)
(*                                                                         *)
(* A record goes from the application to the writer task, which appends    *)
(* it to the file and reports the batch to the reader task; the reader     *)
(* reads from the batch's first record to the end of the file and puts     *)
(* what it reads into the queue, from which the request stream takes it.   *)
(* When the stream breaks the main loop asks the reader to wait for the    *)
(* server's reply, empties the queue and calls again.                      *)
(*                                                                         *)
(* A record is its record_index.  One thread records, so records reach the *)
(* writer in the order of their indices and the file holds 1..last; what   *)
(* other orders do to the file is in RecordFile.  RecordFile is also what  *)
(* ReadFrom stands on: its ReadsBack says that reading from a record of    *)
(* the first or the current block gives what ReadFrom gives.               *)
(***************************************************************************)
EXTENDS Integers, Sequences, SequencesExt, FiniteSetsExt

CONSTANTS
  RECORD_BLOCK_SIZE,
  IdAhead,      \* by how much the id of a row may exceed its record index
  Window,       \* bound on the messages between the request stream and the server
  MaxIndex,     \* bound on the records of the application
  MaxBreaks     \* MaxBreaks[n]: bound on the connections that break when n records are made

ASSUME ConstantsAssumption ==
  /\ RECORD_BLOCK_SIZE \in Nat \ {0, 1} /\ Window \in Nat \ {0}
  /\ IdAhead \subseteq Nat \ {0}
  /\ MaxIndex \in Nat
  /\ MaxBreaks \in [0..MaxIndex -> Nat]
  /\ \A m, n \in 0..MaxIndex : m <= n => MaxBreaks[n] <= MaxBreaks[m]

VARIABLES
  recorded,       \* the application has recorded 1..recorded
  stopAt,         \* recorded when the guard sent AppStop, or Running
  toWriter,       \* the channel to the writer: records, and NoRecord to end it
  writer,         \* the writer task
  batch,          \* buf_recv; NoRecord at its end is is_close
  last,           \* the file holds 1..last
  recordMsgs,     \* the channel to the reader
  reader,         \* the reader task
  toSend,         \* what send_msgs has read and not yet put into the queue
  msgs,           \* the queue: msg_sender, msg_receiver
  stream,         \* the request stream of the latest call
  main,           \* the main loop
  reconnects,     \* how many ReConnects it has sent
  replySender,    \* whether it holds the reconnect_sender of the latest
  answers,        \* answers[n]: what was sent on that of the n-th, or Nothing
  conn,           \* the connection of the latest call
  wire,           \* what the request stream has given and the server not yet taken
  server,         \* app_run of the latest call
  replies,        \* the replies on their way to the client
  received,       \* the records that the server has passed on to the run's task
  breaks          \* how many connections have broken

appVars    == <<recorded, stopAt>>
writerVars == <<writer, batch, last>>
readerVars == <<reader, toSend>>
mainVars   == <<main, reconnects, replySender, answers, breaks>>
netVars    == <<conn, wire, server, replies, received>>
vars == <<appVars, toWriter, writerVars, recordMsgs, readerVars, msgs, stream, mainVars, netVars>>

Indices == 1..MaxIndex
Running == MaxIndex + 1
NoRecord == 0
Nothing == 0

\* The messages of the queue.
AppStart(reconnect) == [type |-> "AppStart", reconnect |-> reconnect]
AppStop == [type |-> "AppStop"]
Record(index) == [type |-> "Record", index |-> index]
RecordParam == {AppStart(TRUE), AppStart(FALSE), AppStop} \cup {Record(i) : i \in Indices}

\* RecordMsg: what the reader is told.
NewRecord(index) == [type |-> "NewRecord", index |-> index]
ReConnect(n) == [type |-> "ReConnect", receiver |-> n]
Close == [type |-> "Close"]
RecordMsg == {NewRecord(i) : i \in Indices} \cup {ReConnect(n) : n \in 1..MaxBreaks[0]} \cup {Close}

ReaderGone == reader \in {"ended", "failed"}
Called == main \in {"calling", "serving"}

\* The Mutex of the file: send_msgs holds it until all is in the queue, and a
\* panic under it poisons it.
Unlocked == toSend = <<>>

Init ==
  /\ recorded = 0 /\ stopAt = Running /\ toWriter = <<>>
  /\ writer = "idle" /\ batch = <<>> /\ last = 0
  /\ recordMsgs = <<>> /\ reader = "idle" /\ toSend = <<>>
  /\ msgs = <<AppStart(FALSE)>> /\ stream = "open"
  /\ main = "calling" /\ reconnects = 0 /\ replySender = FALSE
  /\ answers = [n \in 1..MaxBreaks[0] |-> Nothing]
  /\ conn = "up" /\ wire = <<>> /\ server = "new" /\ replies = <<>>
  /\ received = {} /\ breaks = 0

-----------------------------------------------------------------------------
(* The application.                                                        *)

\* EncodeBytesSubscriber passes a record to the writer.
OnMsg ==
  /\ recorded < MaxIndex /\ breaks <= MaxBreaks[recorded + 1]
  /\ recorded' = recorded + 1
  /\ toWriter' = Append(toWriter, recorded + 1)
  /\ UNCHANGED <<stopAt, writerVars, recordMsgs, readerVars, msgs, stream, mainVars, netVars>>

\* TLGuard: normal_stop, or drop if that was not called.  Tasks of the
\* application may record on.
NormalStop ==
  /\ stopAt = Running
  /\ stopAt' = recorded
  /\ msgs' = IF main = "returned" THEN msgs ELSE Append(msgs, AppStop)
  /\ UNCHANGED <<recorded, toWriter, writerVars, recordMsgs, readerVars, stream, mainVars, netVars>>

-----------------------------------------------------------------------------
(* The writer task.                                                        *)

\* The first record of a batch, or the end.
WriterRecv ==
  /\ writer = "idle" /\ toWriter # <<>>
  /\ toWriter' = Tail(toWriter)
  /\ IF Head(toWriter) = NoRecord
     THEN writer' = "ended" /\ UNCHANGED batch
     ELSE writer' = "sleeping" /\ batch' = <<Head(toWriter)>>
  /\ UNCHANGED <<appVars, last, recordMsgs, readerVars, msgs, stream, mainVars, netVars>>

\* Mutant: a batch takes all there is.
WriterCollectAll ==
  /\ writer = "sleeping"
  /\ LET n == Min({Len(toWriter)} \cup {i \in 1..Len(toWriter) : toWriter[i] = NoRecord})
     IN /\ batch' = batch \o SubSeq(toWriter, 1, n)
        /\ toWriter' = SubSeq(toWriter, n + 1, Len(toWriter))
  /\ writer' = "writing"
  /\ UNCHANGED <<appVars, last, recordMsgs, readerVars, msgs, stream, mainVars, netVars>>

\* 100 ms later: what has come, up to a block's worth or to the end.
WriterCollect ==
  /\ writer = "sleeping"
  /\ LET n == Min({RECORD_BLOCK_SIZE - 1, Len(toWriter)}
                    \cup {i \in 1..Len(toWriter) : toWriter[i] = NoRecord})
     IN /\ batch' = batch \o SubSeq(toWriter, 1, n)
        /\ toWriter' = SubSeq(toWriter, n + 1, Len(toWriter))
  /\ writer' = "writing"
  /\ UNCHANGED <<appVars, last, recordMsgs, readerVars, msgs, stream, mainVars, netVars>>

IsClose == Last(batch) = NoRecord
Records(q) == IF Last(q) = NoRecord THEN Front(q) ELSE q

\* Mutant: the batch is reported under its last record.
WriterReportsLast ==
  /\ writer = "writing" /\ Unlocked /\ ~ReaderGone
  /\ last' = Last(Records(batch))
  /\ recordMsgs' = Append(recordMsgs, NewRecord(Last(Records(batch))))
  /\ writer' = IF IsClose THEN "ended" ELSE "idle"
  /\ batch' = <<>>
  /\ UNCHANGED <<appVars, toWriter, readerVars, msgs, stream, mainVars, netVars>>

\* write_frames, then NewRecord while the file is still locked.  If the reader is
\* gone the writer ends; if it panicked the Mutex is poisoned and so does the
\* writer.
WriterWrite ==
  /\ writer = "writing" /\ Unlocked
  /\ IF reader = "failed"
     THEN writer' = "failed" /\ UNCHANGED <<last, recordMsgs>>
     ELSE /\ last' = Last(Records(batch))
          /\ recordMsgs' = IF ReaderGone THEN recordMsgs
                           ELSE Append(recordMsgs, NewRecord(batch[1]))
          /\ writer' = IF IsClose \/ ReaderGone THEN "ended" ELSE "idle"
  /\ batch' = <<>>
  /\ UNCHANGED <<appVars, toWriter, readerVars, msgs, stream, mainVars, netVars>>

Writer == WriterRecv \/ WriterCollect \/ WriterWrite

-----------------------------------------------------------------------------
(* The reader task.                                                        *)

BlockOf(index) == index \div RECORD_BLOCK_SIZE
PlaceOf(index) == index % RECORD_BLOCK_SIZE

\* The records a to b, in order.
Between(a, b) == [i \in 1..b - a + 1 |-> a + i - 1]

\* The record whose reading fails an assertion.
AssertionFails == 0

\* iter_from on a file that holds 1..last: asked for a block after the current
\* one it reads the current one; asked for one before, it reads from the first
\* one on, and fails at the second unless it was asked for the first.
ReadFrom(index) ==
  LET First(block) == Max({1, block * RECORD_BLOCK_SIZE + PlaceOf(index)}) IN
  IF BlockOf(index) >= BlockOf(last)
  THEN Between(First(BlockOf(last)), last)
  ELSE IF BlockOf(index) = 0
  THEN Between(index, last)
  ELSE Append(Between(First(0), RECORD_BLOCK_SIZE - 1), AssertionFails)

ReaderRecv(type) ==
  /\ reader \in {"idle", "draining"} /\ toSend = <<>>
  /\ recordMsgs # <<>> /\ Head(recordMsgs).type = type
  /\ recordMsgs' = Tail(recordMsgs)

\* A batch was written.  Without anybody to send to the reader ends.
ReaderNewRecord ==
  /\ ReaderRecv("NewRecord")
  /\ IF reader = "idle" /\ main = "returned"
     THEN reader' = "ended" /\ UNCHANGED toSend
     ELSE toSend' = ReadFrom(Head(recordMsgs).index) /\ UNCHANGED reader
  /\ UNCHANGED <<appVars, toWriter, writerVars, msgs, stream, mainVars, netVars>>

\* The connection was broken: the reader awaits the server's reply, and the
\* message at the head of recordMsgs stays there while it does.
ReaderReConnect ==
  /\ reader = "idle" /\ toSend = <<>>
  /\ recordMsgs # <<>> /\ Head(recordMsgs).type = "ReConnect"
  /\ reader' = "awaiting"
  /\ UNCHANGED <<appVars, toWriter, writerVars, recordMsgs, toSend, msgs, stream, mainVars, netVars>>

\* Mutant: the reader ends when the reply it awaits will not come.
ReaderAwaitsOnce ==
  /\ reader = "awaiting"
  /\ LET n == Head(recordMsgs).receiver IN
     \/ /\ answers[n] # Nothing
        /\ toSend' = ReadFrom(answers[n] + 1)
        /\ reader' = "idle"
     \/ /\ answers[n] = Nothing /\ (n < reconnects \/ ~replySender)
        /\ reader' = "ended" /\ UNCHANGED toSend
  /\ recordMsgs' = Tail(recordMsgs)
  /\ UNCHANGED <<appVars, toWriter, writerVars, msgs, stream, mainVars, netVars>>

\* The reply has come and the records after it are read, or the sender was
\* dropped.
ReaderAwaits ==
  /\ reader = "awaiting"
  /\ LET n == Head(recordMsgs).receiver IN
     \/ /\ answers[n] # Nothing
        /\ toSend' = ReadFrom(answers[n] + 1)
     \/ /\ answers[n] = Nothing /\ (n < reconnects \/ ~replySender)
        /\ UNCHANGED toSend
  /\ reader' = "idle"
  /\ recordMsgs' = Tail(recordMsgs)
  /\ UNCHANGED <<appVars, toWriter, writerVars, msgs, stream, mainVars, netVars>>

\* One record of send_msgs is put into the queue, or its reading fails.
ReaderSend ==
  /\ toSend # <<>>
  /\ IF Head(toSend) = AssertionFails
     THEN reader' = "failed" /\ UNCHANGED msgs
     ELSE /\ msgs' = IF main = "returned" THEN msgs ELSE Append(msgs, Record(Head(toSend)))
          /\ UNCHANGED reader
  /\ toSend' = Tail(toSend)
  /\ UNCHANGED <<appVars, toWriter, writerVars, recordMsgs, stream, mainVars, netVars>>

\* Mutant: the writer's end is awaited without telling it.
ReaderCloseSilently ==
  /\ reader = "idle" /\ ReaderRecv("Close")
  /\ reader' = IF writer \in {"ended", "failed"} THEN "failed" ELSE "joining"
  /\ UNCHANGED <<appVars, toWriter, writerVars, toSend, msgs, stream, mainVars, netVars>>

\* The application stopped: the writer is told to end ...
ReaderClose ==
  /\ reader = "idle" /\ ReaderRecv("Close")
  /\ IF writer \in {"ended", "failed"}
     THEN reader' = "failed" /\ UNCHANGED toWriter
     ELSE reader' = "joining" /\ toWriter' = Append(toWriter, NoRecord)
  /\ UNCHANGED <<appVars, writerVars, toSend, msgs, stream, mainVars, netVars>>

\* ... its end awaited ...
ReaderJoins ==
  /\ reader = "joining" /\ writer \in {"ended", "failed"}
  /\ reader' = IF writer = "ended" THEN "draining" ELSE "failed"
  /\ UNCHANGED <<appVars, toWriter, writerVars, recordMsgs, toSend, msgs, stream, mainVars, netVars>>

\* ... the rest that it reported sent (ReaderNewRecord), a ReConnect ignored ...
ReaderIgnores ==
  /\ reader = "draining" /\ ReaderRecv("ReConnect")
  /\ UNCHANGED <<appVars, toWriter, writerVars, readerVars, msgs, stream, mainVars, netVars>>

\* Mutant: the rest that the writer reported is not looked at.
ReaderEndsAtOnce ==
  /\ reader = "draining" /\ toSend = <<>>
  /\ reader' = IF stream = "closing" THEN "ended" ELSE "failed"
  /\ UNCHANGED <<appVars, toWriter, writerVars, recordMsgs, toSend, msgs, stream, mainVars, netVars>>

\* ... and the request stream told, if it still is there.
ReaderEnds ==
  /\ reader = "draining" /\ toSend = <<>> /\ recordMsgs = <<>>
  /\ reader' = IF stream = "closing" THEN "ended" ELSE "failed"
  /\ UNCHANGED <<appVars, toWriter, writerVars, recordMsgs, toSend, msgs, stream, mainVars, netVars>>

Reader == \/ ReaderNewRecord \/ ReaderReConnect \/ ReaderAwaits \/ ReaderSend
          \/ ReaderClose \/ ReaderJoins \/ ReaderIgnores \/ ReaderEnds

-----------------------------------------------------------------------------
(* The request stream: unfold over the queue.                              *)

\* It is polled while the connection stands and there is room on the wire.
Polled(state) ==
  /\ Called /\ conn = "up" /\ stream = state
  /\ Len(wire) < Window

\* A message; AppStop is kept back until the reader has closed.
StreamRecv ==
  /\ Polled("open") /\ msgs # <<>>
  /\ msgs' = Tail(msgs)
  /\ IF Head(msgs) = AppStop
     THEN stream' = "stopping" /\ UNCHANGED wire
     ELSE wire' = Append(wire, Head(msgs)) /\ UNCHANGED stream
  /\ UNCHANGED <<appVars, toWriter, writerVars, recordMsgs, readerVars, mainVars,
                 conn, server, replies, received>>

\* The reader is told to close.  If it is gone this panics, and the broken-off
\* request resets the connection.
StreamClose ==
  /\ Polled("stopping")
  /\ IF ReaderGone
     THEN stream' = "failed" /\ conn' = "broken" /\ wire' = <<>> /\ UNCHANGED recordMsgs
     ELSE /\ stream' = "closing" /\ recordMsgs' = Append(recordMsgs, Close)
          /\ UNCHANGED <<conn, wire>>
  /\ UNCHANGED <<appVars, toWriter, writerVars, readerVars, msgs, mainVars,
                 server, replies, received>>

\* A reader that is gone has answered Close, or dropped it, if it had taken it; in
\* the channel a Close outlives the reader.
CloseAnswered == ReaderGone /\ Close \notin ToSet(recordMsgs)

\* The reader has closed, or failed at it: what is left in the queue, and then
\* AppStop.
StreamDrain ==
  /\ \/ Polled("closing") /\ CloseAnswered
     \/ Polled("draining")
  /\ wire' = Append(wire, IF msgs = <<>> THEN AppStop ELSE Head(msgs))
  /\ msgs' = IF msgs = <<>> THEN msgs ELSE Tail(msgs)
  /\ stream' = IF msgs = <<>> THEN "ended" ELSE "draining"
  /\ UNCHANGED <<appVars, toWriter, writerVars, recordMsgs, readerVars, mainVars,
                 conn, server, replies, received>>

Stream == StreamRecv \/ StreamClose \/ StreamDrain

-----------------------------------------------------------------------------
(* The server, as far as the client sees it: app_run of grpc_service.rs.   *)

ServerTakes(state) ==
  /\ Called /\ conn = "up" /\ server = state
  /\ wire # <<>>
  /\ wire' = Tail(wire)

\* The first message: AppStart, or the handler panics.
ServerFirst ==
  /\ ServerTakes("new")
  /\ server' = IF Head(wire).type # "AppStart" THEN "panicked"
               ELSE IF Head(wire).reconnect THEN "querying" ELSE "serving"
  /\ UNCHANGED <<appVars, toWriter, writerVars, recordMsgs, readerVars, msgs, stream, mainVars,
                 conn, replies, received>>

\* The reply to a client that comes back: query_app_run_last_record_index finds
\* the row with the greatest record index of those stored by now, 0 being
\* AppStart's, and gives its id.
ServerReplies ==
  /\ Called /\ conn = "up" /\ server = "querying"
  /\ \E index \in {0} \cup received, ahead \in IdAhead : replies' = <<index + ahead>>
  /\ server' = "serving"
  /\ UNCHANGED <<appVars, toWriter, writerVars, recordMsgs, readerVars, msgs, stream, mainVars,
                 conn, wire, received>>

\* A record is passed on to the run's task; AppStop ends the connection's task.
ServerServes ==
  /\ ServerTakes("serving")
  /\ IF Head(wire).type = "Record"
     THEN received' = received \cup {Head(wire).index} /\ UNCHANGED server
     ELSE server' = "stopped" /\ UNCHANGED received
  /\ UNCHANGED <<appVars, toWriter, writerVars, recordMsgs, readerVars, msgs, stream, mainVars,
                 conn, replies>>

\* The handler returns an error, or later its task ends because a record was
\* refused or the run's task is gone.
ServerGivesUp ==
  /\ Called /\ conn = "up"
  /\ \/ server = "new" /\ wire # <<>> /\ server' = "refused"
     \/ server = "querying" /\ server' = "refused"
     \/ server = "serving" /\ server' = "gone"
  /\ UNCHANGED <<appVars, toWriter, writerVars, recordMsgs, readerVars, msgs, stream, mainVars,
                 conn, wire, replies, received>>

Server == ServerFirst \/ ServerReplies \/ ServerServes

\* The network fails, and what is on it is lost.
Break ==
  /\ Called /\ conn = "up" /\ breaks < MaxBreaks[recorded]
  /\ conn' = "broken" /\ wire' = <<>> /\ replies' = <<>>
  /\ breaks' = breaks + 1
  /\ UNCHANGED <<appVars, toWriter, writerVars, recordMsgs, readerVars, msgs, stream,
                 main, reconnects, replySender, answers, server, received>>

-----------------------------------------------------------------------------
(* The main loop.                                                          *)

\* app_run is called, with a new request stream.
Call ==
  /\ main' = "calling" /\ conn' = "up" /\ stream' = "open" /\ server' = "new"
  /\ wire' = <<>> /\ replies' = <<>>

\* The future of the client is ready: the queue's receivers are gone, and so is a
\* reconnect_sender.
Return ==
  /\ main' = "returned" /\ replySender' = FALSE /\ msgs' = <<>>

\* app_run returns the stream of replies.
MainServed ==
  /\ main = "calling" /\ conn = "up" /\ server \in {"serving", "stopped", "gone"}
  /\ main' = "serving"
  /\ UNCHANGED <<appVars, toWriter, writerVars, recordMsgs, readerVars, msgs, stream,
                 reconnects, replySender, answers, breaks, netVars>>

\* Mutant: what belongs to a call is forgotten when it fails.
MainCallFailsForgetting ==
  /\ main = "calling"
  /\ conn = "broken" \/ server \in {"panicked", "refused"}
  /\ Call
  /\ replySender' = FALSE
  /\ UNCHANGED <<appVars, toWriter, writerVars, recordMsgs, readerVars, msgs,
                 reconnects, answers, breaks, received>>

\* app_run returns an error: after a while it is called again.
MainCallFails ==
  /\ main = "calling"
  /\ conn = "broken" \/ server \in {"panicked", "refused"}
  /\ Call
  /\ UNCHANGED <<appVars, toWriter, writerVars, recordMsgs, readerVars, msgs,
                 reconnects, replySender, answers, breaks, received>>

\* A reply is handed to the reader, if that still waits for it.
MainReply ==
  /\ main = "serving" /\ replies # <<>>
  /\ replies' = Tail(replies)
  /\ IF ~replySender THEN main' = "panicked" /\ UNCHANGED <<replySender, answers, msgs>>
     ELSE IF ReConnect(reconnects) \in ToSet(recordMsgs)
     THEN /\ answers' = [answers EXCEPT ![reconnects] = Head(replies)]
          /\ replySender' = FALSE
          /\ UNCHANGED <<main, msgs>>
     ELSE Return /\ UNCHANGED answers
  /\ UNCHANGED <<appVars, toWriter, writerVars, recordMsgs, readerVars, stream,
                 reconnects, breaks, conn, wire, server, received>>

\* The server has ended the stream of replies.
MainStreamEnds ==
  /\ main = "serving" /\ conn = "up" /\ replies = <<>>
  /\ server \in {"stopped", "gone"}
  /\ Return
  /\ UNCHANGED <<appVars, toWriter, writerVars, recordMsgs, readerVars, stream,
                 reconnects, answers, breaks, netVars>>

\* The stream of replies breaks: the reader is asked to wait for a reply ...
MainReplyFails ==
  /\ main = "serving" /\ conn = "broken"
  /\ IF ReaderGone
     THEN Return /\ UNCHANGED <<reconnects, recordMsgs>>
     ELSE /\ main' = "draining"
          /\ reconnects' = reconnects + 1
          /\ recordMsgs' = Append(recordMsgs, ReConnect(reconnects + 1))
          /\ replySender' = TRUE
          /\ UNCHANGED msgs
  /\ UNCHANGED <<appVars, toWriter, writerVars, readerVars, stream, answers, breaks, netVars>>

\* ... the queue emptied ...
MainDrain ==
  /\ main = "draining"
  /\ msgs' = <<>>
  /\ main' = "restarting"
  /\ UNCHANGED <<appVars, toWriter, writerVars, recordMsgs, readerVars, stream,
                 reconnects, replySender, answers, breaks, netVars>>

\* ... and AppStart put into it for the next call.
MainRestart ==
  /\ main = "restarting"
  /\ msgs' = Append(msgs, AppStart(TRUE))
  /\ Call
  /\ UNCHANGED <<appVars, toWriter, writerVars, recordMsgs, readerVars,
                 reconnects, replySender, answers, breaks, received>>

Main == \/ MainServed \/ MainCallFails \/ MainReply \/ MainStreamEnds
        \/ MainReplyFails \/ MainDrain \/ MainRestart

-----------------------------------------------------------------------------
Next == \/ OnMsg \/ NormalStop \/ Writer \/ Reader \/ Stream \/ Main
        \/ Server \/ ServerGivesUp \/ Break

Spec == Init /\ [][Next]_vars

\* The tasks of the client and the server's handler are polled for ever, and a
\* network that stands delivers.  Nothing is assumed of the application, and
\* nothing of how often the network fails.
FairSpec ==
  Spec /\ WF_vars(Writer) /\ WF_vars(Reader) /\ WF_vars(Stream) /\ WF_vars(Main) /\ WF_vars(Server)

-----------------------------------------------------------------------------
\* The variables keep to their types, and of two tasks that must not both be at
\* work one waits: the writer stays off the file while the reader sends, the
\* reader waits for the writer's end only when it has asked for it.
TypeOK ==
  /\ recorded \in 0..MaxIndex /\ stopAt \in (0..MaxIndex) \cup {Running}
  /\ toWriter \in Seq({NoRecord} \cup Indices)
  /\ writer \in {"idle", "sleeping", "writing", "ended", "failed"}
  /\ batch \in Seq({NoRecord} \cup Indices) /\ Len(batch) <= RECORD_BLOCK_SIZE
  /\ last \in 0..recorded
  /\ recordMsgs \in Seq(RecordMsg)
  /\ reader \in {"idle", "awaiting", "joining", "draining", "ended", "failed"}
  /\ toSend \in Seq({AssertionFails} \cup Indices)
  /\ toSend # <<>> => reader \in {"idle", "draining"}
  /\ msgs \in Seq(RecordParam)
  /\ stream \in {"open", "stopping", "closing", "draining", "ended", "failed"}
  /\ main \in {"calling", "serving", "draining", "restarting", "returned", "panicked"}
  /\ reconnects \in 0..breaks /\ replySender \in BOOLEAN
  /\ answers \in [1..MaxBreaks[0] -> Nat]
  /\ conn \in {"up", "broken"}
  /\ wire \in Seq(RecordParam) /\ Len(wire) <= Window
  /\ server \in {"new", "querying", "serving", "stopped", "gone", "panicked", "refused"}
  /\ replies \in Seq(Nat) /\ Len(replies) <= 1
  /\ received \subseteq Indices /\ breaks \in 0..MaxBreaks[recorded]

Standing == breaks = 0 /\ reader # "failed"

\* While the first connection stands and the reader has not failed, no record
\* reaches the server before one recorded earlier: whatever the writer makes of
\* batches and however late the reader reads them.
NoGaps == Standing => received = 1..Cardinality(received)

\* When the server has taken AppStop on the first connection it has every record
\* that the application recorded before it stopped: the writer's batch, the file,
\* the reader and the queue are all emptied first.
StopComplete == Standing /\ server = "stopped" => 1..stopAt \subseteq received

\* A reply of the server finds a reconnect_sender (the unwrap in the main loop),
\* also when calls failed since the ReConnect or its reply comes after another.
ReplyFindsSender == main # "panicked"

\* AppStop finds the reader there to be closed (the unwrap in the request stream),
\* unless an assertion failed in it.
CloseFindsReader == stream = "failed" => reader = "failed"

\* AppStop was taken from the queue and dropped.
StopLost ==
  /\ stopAt # Running /\ main # "returned"
  /\ AppStop \notin ToSet(msgs) \cup ToSet(wire)
  /\ stream \notin {"stopping", "closing", "draining"}
  /\ server # "stopped"

\* A call waits for an AppStart that will not come: an earlier call has taken it
\* along, or AppStop was put into the emptied queue before it, and the stream keeps
\* that back until the reader closes, the reader waits for a reply, and the server
\* for AppStart.
Starved ==
  /\ main = "calling" /\ server = "new"
  /\ \A m \in ToSet(wire) \cup (IF stream = "open" THEN ToSet(msgs) ELSE {}) : m.type # "AppStart"

\* The stream waits for an answer to a Close that the reader, in which an assertion
\* failed before, has not taken and nobody drops.
CloseUnheard == stream = "closing" /\ reader = "failed" /\ Close \in ToSet(recordMsgs)

\* The client ends when it is stopped, and with it the application, which waits
\* for that.  The exceptions are a message that was lost and is not sent again,
\* the wait in a circle that Starved describes, and a Close that comes too late
\* for a reader that has failed.
ClientEnds == stopAt # Running ~> main = "returned" \/ StopLost \/ Starved \/ CloseUnheard

\* What the handler of the server panics with: must first app start.
FirstIsAppStart == server # "panicked"

\* The records from the one that the reply names on are sent again, so that
\* nothing is missing when the application has stopped in good order.
ReconnectResumes == server = "stopped" /\ reader = "ended" => 1..stopAt \subseteq received
=============================================================================
