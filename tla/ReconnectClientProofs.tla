------------------------ MODULE ReconnectClientProofs ------------------------
(***************************************************************************)
(* What ReconnectClient keeps for every block size, number of records and  *)
(* number of broken connections.                                           *)
(*                                                                         *)
(* The inductive invariant has five parts:                                 *)
(*   Types      the types of the variables, and how many connections       *)
(*              broke for each time the client comes back;                 *)
(*   WriterInv  the batch and the channel to the writer hold the records   *)
(*              that the file has not yet, in order, up to the end;        *)
(*   StartInv   there is one AppStart for a call, and while that of a      *)
(*              client that comes back, or the reply to it, is under way   *)
(*              the main loop holds the reconnect_sender;                  *)
(*   StopInv    there is one AppStop, which is in the queue, with the      *)
(*              request stream, or with the reader as Close, and when the  *)
(*              reader is done with that it and the stream are beyond it;  *)
(*   FirstInv   while the first connection stands, each record is behind   *)
(*              all those before it, on its way from the file to the       *)
(*              server, and AppStop behind all records until the stop.     *)
(***************************************************************************)
EXTENDS ReconnectClient, TLAPS, SequenceTheorems, FiniteSetTheorems, WellFoundedInduction

\* TypeOK, and what else is needed for it: the application, the writer, the
\* reader, the queue and the request stream, the main loop, and the server.
AppTypes ==
  /\ recorded \in 0..MaxIndex /\ stopAt \in (0..recorded) \cup {Running}

WriterTypes ==
  /\ toWriter \in Seq(0..recorded)
  /\ writer \in {"idle", "sleeping", "writing", "ended", "failed"}
  /\ batch \in Seq(0..recorded) /\ Len(batch) <= RECORD_BLOCK_SIZE
  /\ writer = "sleeping" => Len(batch) = 1
  /\ writer \notin {"sleeping", "writing"} => batch = <<>>
  /\ writer = "writing" => batch # <<>>
  /\ last \in 0..recorded

ReaderTypes ==
  /\ recordMsgs \in Seq(RecordMsg)
  /\ reader \in {"idle", "awaiting", "joining", "draining", "ended", "failed"}
  /\ reader = "awaiting" => recordMsgs # <<>> /\ Head(recordMsgs).type = "ReConnect"
  /\ toSend \in Seq({AssertionFails} \cup Indices)
  /\ toSend # <<>> => reader \in {"idle", "draining"}
  /\ \A i \in DOMAIN toSend : toSend[i] = AssertionFails => i = Len(toSend)

StreamTypes ==
  /\ msgs \in Seq(RecordParam)
  /\ stream \in {"open", "stopping", "closing", "draining", "ended", "failed"}
  /\ wire \in Seq(RecordParam) /\ Len(wire) <= Window

MainTypes ==
  /\ main \in {"calling", "serving", "draining", "restarting", "returned", "panicked"}
  /\ replySender \in BOOLEAN
  /\ answers \in [1..MaxBreaks[0] -> Nat]
  /\ reconnects \in 0..breaks /\ breaks \in 0..MaxBreaks[recorded]
  /\ conn \in {"up", "broken"}
  /\ conn = "broken" /\ Called /\ stream # "failed" => reconnects < breaks

ServerTypes ==
  /\ server \in {"new", "querying", "serving", "stopped", "gone", "panicked", "refused"}
  /\ replies \in Seq(Nat) /\ Len(replies) <= 1
  /\ received \subseteq Indices

\* All of them.
Types ==
  AppTypes /\ WriterTypes /\ ReaderTypes /\ StreamTypes /\ MainTypes /\ ServerTypes

\* The writer is at work.
Working == writer \in {"idle", "sleeping", "writing"}

\* The writer is told to end within the first n that wait for it, or was already.
Closed(n) ==
  \/ batch # <<>> /\ batch[Len(batch)] = NoRecord
  \/ \E i \in 1..n : toWriter[i] = NoRecord

\* What the file lacks comes to the writer in order, up to where it is told to end,
\* and that is after the records that were made before the stop.
WriterInv ==
  /\ writer = "failed" => reader = "failed"
  /\ reader \in {"joining", "draining"} /\ ~Working => writer = "ended" /\ stopAt <= last
  /\ reader = "draining" => ~Working
  /\ Working =>
       /\ \A i \in DOMAIN batch :
            batch[i] = last + i \/ (batch[i] = NoRecord /\ i = Len(batch) /\ i > 1)
       /\ \A i \in DOMAIN toWriter : toWriter[i] = last + Len(batch) + i \/ Closed(i)
       /\ Closed(Len(toWriter)) \/ recorded = last + Len(batch) + Len(toWriter)
       /\ Closed(Len(toWriter)) <=> reader = "joining"
       /\ batch # <<>> /\ batch[Len(batch)] = NoRecord => stopAt <= last + Len(batch) - 1
       /\ \A i \in DOMAIN toWriter : toWriter[i] = NoRecord => stopAt <= last + Len(batch) + i - 1

\* There is a message of a type in the sequence q, and there is no more than one.
Has(q, type) == \E i \in DOMAIN q : q[i].type = type
Once(q, type) == \A i, j \in DOMAIN q : q[i].type = type /\ q[j].type = type => i = j

\* Of an AppStart.
Comes(q) == \E i \in DOMAIN q : q[i].type = "AppStart" /\ q[i].reconnect

\* The reply to a client that comes back is still to come.
Expects ==
  \/ Comes(msgs) \/ Comes(wire)
  \/ Called /\ (server = "querying" \/ replies # <<>>)
  \/ main \in {"draining", "restarting"}

\* A call has one AppStart, and the reply to a client that comes back finds the sender.
StartInv ==
  /\ Once(msgs, "AppStart") /\ Once(wire, "AppStart")
  /\ ~(Has(msgs, "AppStart") /\ Has(wire, "AppStart"))
  /\ server \in {"querying", "serving", "stopped", "gone"} =>
       ~Has(msgs, "AppStart") /\ ~Has(wire, "AppStart")
  /\ main \in {"serving", "draining", "restarting"} => server \in {"serving", "stopped", "gone"}
  /\ server \in {"new", "querying"} => replies = <<>>
  /\ Expects => replySender
  /\ main # "panicked"

\* The reader is done with Close, or ended for want of anybody to send to.
Ending == reader \in {"joining", "draining"} \/ (reader = "ended" /\ main # "returned")

\* AppStop is in one place at a time, and the reader ends only behind it.
StopInv ==
  /\ Once(msgs, "AppStop") /\ Once(recordMsgs, "Close")
  /\ Has(msgs, "AppStop") => stream # "stopping" /\ ~Has(recordMsgs, "Close") /\ ~Ending
  /\ stream = "stopping" => ~Has(recordMsgs, "Close") /\ ~Ending
  /\ Has(recordMsgs, "Close") => ~Ending
  /\ Has(msgs, "AppStop") \/ stream = "stopping" \/ Has(recordMsgs, "Close") \/ Ending
       => stopAt # Running
  /\ stream = "failed" => reader = "failed"

\* The record of a message, NoRecord for another; those of a queue; what is in a sequence.
Number(m) == IF m.type = "Record" THEN m.index ELSE NoRecord
Numbers(q) == [i \in DOMAIN q |-> Number(q[i])]
In(f) == {f[i] : i \in DOMAIN f}

\* Each record of f is behind all before it, which are in R or in f.
Follow(f, R) ==
  \A i \in DOMAIN f : \A n \in 1..f[i] - 1 : n \in R \/ \E j \in 1..i - 1 : f[j] = n

\* What has reached the server, the wire, the queue, or the reader's last read.
OnWire == received \cup In(Numbers(wire))
InQueue == OnWire \cup In(Numbers(msgs))
Sent == InQueue \cup In(toSend)

\* The reading of the records will fail.
Doomed == AssertionFails \in In(toSend)

\* What was written and not sent the reader has been told of.
Told ==
  /\ Has(recordMsgs, "NewRecord") \/ 1..last \subseteq Sent
  /\ \A i \in DOMAIN recordMsgs : recordMsgs[i].type = "NewRecord" =>
       \/ 1..recordMsgs[i].index - 1 \subseteq Sent
       \/ \E j \in 1..i - 1 : recordMsgs[j].type = "NewRecord"

\* On the wire, in the queue and in what is read each record is behind all before it.
Chain ==
  /\ Follow(Numbers(wire), received)
  /\ Follow(Numbers(msgs), OnWire)
  /\ Follow(toSend, InQueue)

\* When the reader has ended there is nothing more for it to read, and only then the
\* request stream gives what is left in the queue.
Drained ==
  /\ stream \in {"draining", "ended"} => reader = "ended"
  /\ reader = "ended" => ~Working /\ stopAt <= last /\ toSend = <<>> /\ recordMsgs = <<>>

\* AppStop is the last, and behind the records until the stop.
StopIsLast ==
  /\ \A i \in DOMAIN wire : wire[i].type = "AppStop" => i = Len(wire) /\ stream = "ended"
  /\ stream = "ended" => 1..stopAt \subseteq OnWire

\* All of what holds of the records' way while the first call can serve.
Flow == Chain /\ (Doomed \/ Told) /\ Drained /\ StopIsLast

\* The first message of the first call is under way.
Opens ==
  \/ wire # <<>> /\ wire[1].type = "AppStart"
  \/ wire = <<>> /\ stream = "open" /\ msgs # <<>> /\ msgs[1].type = "AppStart"

\* The call serves, or can still do so.
Alive == Called /\ (server = "serving" \/ (server = "new" /\ Opens))

\* Nothing happened that a broken connection brings.
Upright ==
  /\ main \in {"calling", "serving", "returned"} /\ conn = "up"
  /\ ~Comes(msgs) /\ ~Comes(wire) /\ server # "querying" /\ reader # "awaiting"
  /\ ~Has(recordMsgs, "ReConnect")

\* Before the server serves it has no records, and what the first message was taken
\* from has no other.
Opened ==
  /\ server \in {"new", "panicked", "refused"} => received = {}
  /\ server \in {"panicked", "refused"} => ~Has(msgs, "AppStart")
  /\ server = "new" /\ ~Opens => ~Has(msgs, "AppStart") /\ ~Has(wire, "AppStart")

\* With a record the server has all before it, and when it stopped those until the stop.
Reached ==
  /\ \A i \in received : 1..i \subseteq received
  /\ server = "stopped" => 1..stopAt \subseteq received

\* The reader is told of records that the file has.
Written ==
  \A i \in DOMAIN recordMsgs : recordMsgs[i].type = "NewRecord" => recordMsgs[i].index <= last

\* What holds while the first connection stands.
FirstInv == Written /\ (Standing => Upright /\ Opened /\ Reached /\ (Alive => Flow))

\* The inductive invariant.
IInv == Types /\ WriterInv /\ StartInv /\ StopInv /\ FirstInv
-----------------------------------------------------------------------------
\* What a sequence is with one more at its end.
LEMMA AppendIs ==
  ASSUME NEW S, NEW q \in Seq(S), NEW m \in S
  PROVE  /\ Append(q, m) \in Seq(S) /\ Append(q, m) # <<>>
         /\ Len(q) \in Nat /\ Len(Append(q, m)) = Len(q) + 1
         /\ DOMAIN q = 1..Len(q) /\ DOMAIN Append(q, m) = 1..Len(q) + 1
         /\ \A i \in DOMAIN q : Append(q, m)[i] = q[i]
         /\ Append(q, m)[Len(q) + 1] = m
OBVIOUS

\* What a sequence is without its first.
LEMMA TailIs ==
  ASSUME NEW S, NEW q \in Seq(S), q # <<>>
  PROVE  /\ Head(q) \in S /\ Head(q) = q[1] /\ Tail(q) \in Seq(S)
         /\ Len(q) \in Nat /\ Len(q) >= 1 /\ Len(Tail(q)) = Len(q) - 1
         /\ DOMAIN q = 1..Len(q) /\ DOMAIN Tail(q) = 1..Len(q) - 1
         /\ \A i \in 1..Len(q) - 1 : Tail(q)[i] = q[i + 1]
OBVIOUS

\* A set of natural numbers has a least one, and that is its Min.
LEMMA MinIs ==
  ASSUME NEW T, T \subseteq Nat, T # {}
  PROVE  Min(T) \in T /\ \A y \in T : Min(T) <= y
<1>1. PICK x \in T : \A y \in T : ~(<<y, x>> \in OpToRel(<, Nat))
  BY NatLessThanWellFounded, WFMin
<1>2. \A y \in T : <<y, x>> \in OpToRel(<, Nat) <=> y < x
  BY DEF OpToRel
<1>3. ASSUME NEW y \in T
      PROVE  x <= y
  <2>1. y \in Nat /\ x \in Nat /\ ~(y < x)
    BY <1>1, <1>2
  <2>2. QED
    BY <2>1
<1>4. QED
  BY <1>3 DEF Min

\* The messages, by their types.
LEMMA MessageIs ==
  /\ \A m \in RecordParam : /\ m.type \in {"AppStart", "AppStop", "Record"}
                            /\ m.type = "AppStop" <=> m = AppStop
                            /\ m.type = "Record" => m.index \in Indices
  /\ AppStop \in RecordParam /\ AppStop.type = "AppStop"
  /\ AppStart(TRUE) \in RecordParam
  /\ AppStart(TRUE).type = "AppStart" /\ AppStart(TRUE).reconnect
  /\ AppStart(FALSE) \in RecordParam
  /\ AppStart(FALSE).type = "AppStart" /\ ~AppStart(FALSE).reconnect
  /\ \A i \in Indices : /\ Record(i) \in RecordParam
                        /\ Record(i).type = "Record" /\ Record(i).index = i
<1>1. AppStart(TRUE).type = "AppStart" /\ AppStart(TRUE).reconnect
  BY DEF AppStart
<1>2. AppStart(FALSE).type = "AppStart" /\ ~AppStart(FALSE).reconnect
  BY DEF AppStart
<1>3. AppStop.type = "AppStop"
  BY DEF AppStop
<1>4. \A i \in Indices : Record(i).type = "Record" /\ Record(i).index = i
  BY DEF Record
<1>5. /\ {AppStart(TRUE), AppStart(FALSE), AppStop} \subseteq RecordParam
      /\ \A i \in Indices : Record(i) \in RecordParam
  BY DEF RecordParam
<1>6. ASSUME NEW m \in RecordParam
      PROVE  /\ m.type \in {"AppStart", "AppStop", "Record"}
             /\ m.type = "AppStop" <=> m = AppStop
             /\ m.type = "Record" => m.index \in Indices
  <2>1. \/ m = AppStart(TRUE) \/ m = AppStart(FALSE) \/ m = AppStop
        \/ \E i \in Indices : m = Record(i)
    BY DEF RecordParam
  <2>2. QED
    BY <1>1, <1>2, <1>3, <1>4, <2>1
<1>7. QED
  BY <1>1, <1>2, <1>3, <1>4, <1>5, <1>6

\* What the reader is told, by its type.
LEMMA RecordMsgIs ==
  /\ \A m \in RecordMsg : /\ m.type \in {"NewRecord", "ReConnect", "Close"}
                          /\ m.type = "NewRecord" => m.index \in Indices
                          /\ m.type = "ReConnect" => m.receiver \in 1..MaxBreaks[0]
  /\ Close \in RecordMsg /\ Close.type = "Close"
  /\ \A i \in Indices : /\ NewRecord(i) \in RecordMsg
                        /\ NewRecord(i).type = "NewRecord" /\ NewRecord(i).index = i
  /\ \A n \in 1..MaxBreaks[0] : ReConnect(n) \in RecordMsg /\ ReConnect(n).type = "ReConnect"
<1>1. /\ \A i \in Indices : NewRecord(i).type = "NewRecord" /\ NewRecord(i).index = i
      /\ \A n \in 1..MaxBreaks[0] : ReConnect(n).type = "ReConnect" /\ ReConnect(n).receiver = n
      /\ Close.type = "Close"
  BY DEF NewRecord, ReConnect, Close
<1>2. /\ Close \in RecordMsg /\ \A i \in Indices : NewRecord(i) \in RecordMsg
      /\ \A n \in 1..MaxBreaks[0] : ReConnect(n) \in RecordMsg
  BY DEF RecordMsg
<1>3. ASSUME NEW m \in RecordMsg
      PROVE  /\ m.type \in {"NewRecord", "ReConnect", "Close"}
             /\ m.type = "NewRecord" => m.index \in Indices
             /\ m.type = "ReConnect" => m.receiver \in 1..MaxBreaks[0]
  <2>1. \/ m = Close
        \/ \E i \in Indices : m = NewRecord(i)
        \/ \E n \in 1..MaxBreaks[0] : m = ReConnect(n)
    BY DEF RecordMsg
  <2>2. QED
    BY <1>1, <2>1
<1>4. QED
  BY <1>1, <1>2, <1>3

\* The records a to b, and what is read from a record on.
LEMMA BetweenIs ==
  ASSUME NEW a \in Int, NEW b \in Int
  PROVE  /\ Between(a, b) \in Seq(a..b)
         /\ DOMAIN Between(a, b) = 1..b - a + 1
         /\ \A i \in 1..b - a + 1 : Between(a, b)[i] = a + i - 1
BY DEF Between

\* A record is in a block and has a place in it.
LEMMA PlaceIs ==
  ASSUME NEW n \in Nat
  PROVE  /\ BlockOf(n) \in Nat /\ PlaceOf(n) \in Nat /\ PlaceOf(n) < RECORD_BLOCK_SIZE
         /\ n = BlockOf(n) * RECORD_BLOCK_SIZE + PlaceOf(n)
<1>1. RECORD_BLOCK_SIZE \in Nat /\ RECORD_BLOCK_SIZE > 0
  BY ConstantsAssumption
<1>2. QED
  BY <1>1 DEF BlockOf, PlaceOf

\* Of two records the earlier is in an earlier block, or at an earlier place.
LEMMA BlockOrder ==
  ASSUME NEW m \in Nat, NEW n \in Nat, m <= n
  PROVE  BlockOf(m) <= BlockOf(n)
<1> SUFFICES ASSUME BlockOf(n) + 1 <= BlockOf(m)
             PROVE  FALSE
  BY PlaceIs
<1>1. PICK S \in Nat : S = RECORD_BLOCK_SIZE
  BY ConstantsAssumption
<1>2. \A a, b \in Nat : a + 1 <= b => a * S + S <= b * S
  <2>1. ASSUME NEW a \in Nat, NEW b \in Nat, a + 1 <= b
        PROVE  a * S + S <= b * S
    <3>1. PICK c \in Nat : b = a + 1 + c
      <4>1. b - a - 1 \in Nat /\ b = a + 1 + (b - a - 1)
        BY <2>1
      <4>2. QED
        BY <4>1
    <3>2. b * S = a * S + S + c * S /\ c * S \in Nat /\ a * S \in Nat
      BY <3>1
    <3>3. QED
      BY <3>2
  <2>2. QED
    BY <2>1
<1>3. BlockOf(m) \in Nat /\ BlockOf(n) \in Nat
  BY PlaceIs
<1>4. PICK x, y, u, v : /\ x = BlockOf(n) * S /\ y = BlockOf(m) * S
                        /\ u = PlaceOf(n) /\ v = PlaceOf(m)
  OBVIOUS
<1>5. x + S <= y /\ x \in Nat /\ y \in Nat
  BY <1>1, <1>2, <1>3, <1>4
<1>6. n = x + u /\ u \in Nat /\ u < S
  BY <1>1, <1>4, PlaceIs
<1>7. m = y + v /\ v \in Nat
  BY <1>1, <1>4, PlaceIs
<1>8. QED
  BY <1>5, <1>6, <1>7

\* Reading on from a record no later than index.
LEMMA BetweenRead ==
  ASSUME NEW index \in Nat \ {0}, NEW a \in Nat \ {0}, NEW b \in 0..MaxIndex,
         NEW f, f = Between(a, b)
  PROVE  /\ f \in Seq({AssertionFails} \cup Indices)
         /\ \A i \in DOMAIN f : f[i] # AssertionFails
         /\ a <= index => Follow(f, 1..index - 1) /\ a..b \subseteq In(f)
<1>1. /\ f \in Seq(a..b) /\ DOMAIN f = 1..b - a + 1
      /\ \A i \in 1..b - a + 1 : f[i] = a + i - 1
  <2>1. a \in Int /\ b \in Int
    BY ConstantsAssumption
  <2>2. QED
    BY <2>1, BetweenIs
<1>2. a..b \subseteq {AssertionFails} \cup Indices
  <2>1. MaxIndex \in Nat
    BY ConstantsAssumption
  <2>2. QED
    BY <2>1 DEF Indices
<1>3. f \in Seq({AssertionFails} \cup Indices)
  BY <1>1, <1>2
<1>4. ASSUME a <= index, NEW i \in DOMAIN f, NEW n \in 1..f[i] - 1
      PROVE  n \in 1..index - 1 \/ \E j \in 1..i - 1 : f[j] = n
  <2>1. i \in Nat /\ i >= 1 /\ i <= b - a + 1 /\ n \in Nat /\ n < a + i - 1
    BY <1>1, <1>4
  <2>2. CASE n >= a
    <3>1. n - a + 1 \in 1..i - 1 /\ n - a + 1 \in 1..b - a + 1
      BY <2>1, <2>2
    <3>2. f[n - a + 1] = n
      BY <1>1, <3>1, <2>1
    <3>3. QED
      BY <3>1, <3>2
  <2>3. QED
    BY <1>4, <2>1, <2>2
<1>5. ASSUME NEW n \in a..b
      PROVE  n \in In(f)
  <2>1. n - a + 1 \in 1..b - a + 1
    BY <1>5
  <2>2. f[n - a + 1] = n
    BY <1>1, <2>1
  <2>3. QED
    BY <1>1, <2>1, <2>2 DEF In
<1>6. QED
  BY <1>1, <1>3, <1>4, <1>5 DEF Follow, AssertionFails

\* What is read from a record on: the records before it and those that are read
\* are all those before each that is read, and all of the file unless it fails.
LEMMA ReadFromIs ==
  ASSUME AppTypes, WriterTypes, NEW index \in Nat \ {0}, NEW f, f = ReadFrom(index)
  PROVE  /\ f \in Seq({AssertionFails} \cup Indices)
         /\ \A i \in DOMAIN f : f[i] = AssertionFails => i = Len(f)
         /\ index <= last =>
              /\ Follow(f, 1..index - 1)
              /\ AssertionFails \in In(f) \/ 1..last \subseteq (1..index - 1) \cup In(f)
<1> DEFINE first(b) == Max({1, b * RECORD_BLOCK_SIZE + PlaceOf(index)})
<1>1. last \in Nat /\ last <= MaxIndex /\ MaxIndex \in Nat
  BY ConstantsAssumption DEF AppTypes, WriterTypes
<1>2. BlockOf(index) \in Nat /\ BlockOf(last) \in Nat
  BY <1>1, PlaceIs
<1>3. ASSUME NEW b \in Nat
      PROVE  first(b) \in Nat \ {0} /\ first(b) = IF b * RECORD_BLOCK_SIZE + PlaceOf(index) >= 1
                             THEN b * RECORD_BLOCK_SIZE + PlaceOf(index) ELSE 1
  <2>1. PICK n \in Nat : n = b * RECORD_BLOCK_SIZE + PlaceOf(index)
    <3>1. PlaceOf(index) \in Nat /\ RECORD_BLOCK_SIZE \in Nat
      BY ConstantsAssumption, PlaceIs
    <3>2. b * RECORD_BLOCK_SIZE \in Nat
      BY <3>1
    <3>3. QED
      BY <3>1, <3>2
  <2>2. Max({1, n}) = IF n >= 1 THEN n ELSE 1
    BY DEF Max
  <2>3. QED
    BY <2>1, <2>2
<1>4. CASE BlockOf(index) >= BlockOf(last)
  <2>1. f = Between(first(BlockOf(last)), last)
    BY <1>4 DEF ReadFrom
  <2>2. index <= last => first(BlockOf(last)) = index
    <3>1. index <= last => BlockOf(index) = BlockOf(last)
      BY <1>1, <1>2, <1>4, BlockOrder
    <3>2. QED
      BY <1>2, <1>3, <3>1, PlaceIs
  <2>3. QED
    <3>1. PICK a \in Nat \ {0} : a = first(BlockOf(last))
      BY <1>2, <1>3
    <3>2. f = Between(a, last)
      BY <2>1, <3>1
    <3>3. /\ f \in Seq({AssertionFails} \cup Indices)
          /\ \A i \in DOMAIN f : f[i] # AssertionFails
          /\ a <= index => Follow(f, 1..index - 1) /\ a..last \subseteq In(f)
      <4>1. last \in 0..MaxIndex
        BY <1>1
      <4>2. QED
        BY <3>2, <4>1, BetweenRead
    <3>4. index <= last => a = index
      BY <2>2, <3>1
    <3>5. QED
      BY <1>1, <3>3, <3>4
<1>5. CASE BlockOf(index) < BlockOf(last) /\ BlockOf(index) = 0
  <2>1. f = Between(index, last)
    BY <1>2, <1>5 DEF ReadFrom
  <2>2. /\ f \in Seq({AssertionFails} \cup Indices)
        /\ \A i \in DOMAIN f : f[i] # AssertionFails
        /\ Follow(f, 1..index - 1) /\ index..last \subseteq In(f)
    <3>1. last \in 0..MaxIndex
      BY <1>1
    <3>2. QED
      BY <2>1, <3>1, BetweenRead
  <2>3. QED
    BY <1>1, <2>2
<1>6. CASE BlockOf(index) < BlockOf(last) /\ BlockOf(index) # 0
  <2>1. PICK g : g = Between(first(0), RECORD_BLOCK_SIZE - 1)
    OBVIOUS
  <2>2. f = Append(g, AssertionFails)
    BY <1>2, <1>6, <2>1 DEF ReadFrom
  <2>3. RECORD_BLOCK_SIZE - 1 \in 0..MaxIndex
    <3>1. BlockOf(last) >= 1
      BY <1>2, <1>6
    <3>2. BlockOf(last) * RECORD_BLOCK_SIZE >= RECORD_BLOCK_SIZE
      <4>1. PICK k \in Nat : BlockOf(last) = k + 1
        <5>1. BlockOf(last) - 1 \in Nat /\ BlockOf(last) = BlockOf(last) - 1 + 1
          BY <1>2, <3>1
        <5>2. QED
          BY <5>1
      <4>2. PICK S \in Nat : S = RECORD_BLOCK_SIZE
        BY ConstantsAssumption
      <4>3. (k + 1) * S = k * S + S /\ k * S \in Nat
        BY <4>1, <4>2
      <4>4. QED
        BY <4>1, <4>2, <4>3
    <3>3. last = BlockOf(last) * RECORD_BLOCK_SIZE + PlaceOf(last) /\ PlaceOf(last) \in Nat
      BY <1>1, PlaceIs
    <3>4. RECORD_BLOCK_SIZE \in Nat /\ RECORD_BLOCK_SIZE > 0
      BY ConstantsAssumption
    <3>5. PICK x : x = BlockOf(last) * RECORD_BLOCK_SIZE
      OBVIOUS
    <3>6. x \in Nat /\ x >= RECORD_BLOCK_SIZE /\ last = x + PlaceOf(last)
      BY <1>2, <3>2, <3>3, <3>4, <3>5
    <3>7. QED
      BY <1>1, <3>3, <3>4, <3>6
  <2>4. first(0) <= index /\ first(0) \in Nat \ {0}
    <3>1. PlaceOf(index) \in Nat /\ PlaceOf(index) <= index
      <4>1. BlockOf(index) * RECORD_BLOCK_SIZE \in Nat
        BY <1>2, ConstantsAssumption
      <4>2. QED
        BY <4>1, PlaceIs, ConstantsAssumption
    <3>2. 0 * RECORD_BLOCK_SIZE + PlaceOf(index) = PlaceOf(index)
      BY <3>1, ConstantsAssumption
    <3>3. QED
      BY <1>3, <3>1, <3>2
  <2>5. /\ g \in Seq({AssertionFails} \cup Indices)
        /\ \A i \in DOMAIN g : g[i] # AssertionFails
        /\ Follow(g, 1..index - 1)
    <3>1. PICK a \in Nat \ {0} : a = first(0)
      BY <2>4
    <3>2. PICK b \in 0..MaxIndex : b = RECORD_BLOCK_SIZE - 1
      BY <2>3
    <3>3. QED
      BY <2>1, <2>4, <3>1, <3>2, BetweenRead
  <2>6. /\ f \in Seq({AssertionFails} \cup Indices) /\ Len(f) = Len(g) + 1
        /\ DOMAIN g = 1..Len(g) /\ DOMAIN f = 1..Len(g) + 1 /\ Len(g) \in Nat
        /\ \A i \in DOMAIN g : f[i] = g[i]
        /\ f[Len(f)] = AssertionFails
    <3>1. AssertionFails \in {AssertionFails} \cup Indices
      OBVIOUS
    <3>2. QED
      BY <2>2, <2>5, <3>1, AppendIs
  <2>7. ASSUME NEW i \in DOMAIN f, NEW n \in 1..f[i] - 1
        PROVE  n \in 1..index - 1 \/ \E j \in 1..i - 1 : f[j] = n
    <3>1. CASE i = Len(f)
      BY <2>6, <2>7, <3>1 DEF AssertionFails
    <3>2. CASE i # Len(f)
      <4>1. i \in DOMAIN g /\ f[i] = g[i]
        BY <2>6, <3>2
      <4>2. n \in 1..index - 1 \/ \E j \in 1..i - 1 : g[j] = n
        BY <2>5, <2>7, <4>1 DEF Follow
      <4>3. QED
        BY <2>6, <4>1, <4>2
    <3>3. QED
      BY <3>1, <3>2
  <2>8. AssertionFails \in In(f) /\ \A i \in DOMAIN f : f[i] = AssertionFails => i = Len(f)
    BY <2>5, <2>6 DEF In
  <2>9. QED
    BY <2>6, <2>7, <2>8 DEF Follow
<1>7. QED
  BY <1>2, <1>4, <1>5, <1>6

\* Which steps change what.
LEMMA Frames ==
  ASSUME Next
  PROVE  /\ \/ OnMsg \/ NormalStop
            \/ UNCHANGED appVars
         /\ \/ OnMsg \/ WriterRecv \/ WriterCollect \/ WriterWrite \/ ReaderClose
            \/ UNCHANGED <<toWriter, writerVars>>
         /\ \/ WriterWrite \/ ReaderNewRecord \/ ReaderReConnect \/ ReaderAwaits
            \/ ReaderSend \/ ReaderClose \/ ReaderJoins \/ ReaderIgnores
            \/ ReaderEnds \/ StreamClose \/ MainReplyFails
            \/ UNCHANGED <<recordMsgs, readerVars>>
         /\ \/ NormalStop \/ ReaderSend \/ StreamRecv \/ StreamClose
            \/ StreamDrain \/ ServerFirst \/ ServerServes \/ Break
            \/ MainCallFails \/ MainReply \/ MainStreamEnds \/ MainReplyFails
            \/ MainDrain \/ MainRestart
            \/ UNCHANGED <<msgs, stream, wire>>
         /\ \/ StreamClose \/ Break \/ MainServed \/ MainCallFails \/ MainReply
            \/ MainStreamEnds \/ MainReplyFails \/ MainDrain \/ MainRestart
            \/ UNCHANGED <<mainVars, conn>>
         /\ \/ ServerFirst \/ ServerReplies \/ ServerServes \/ ServerGivesUp
            \/ Break \/ MainCallFails \/ MainReply \/ MainRestart
            \/ UNCHANGED <<server, replies, received>>
         /\ OnMsg \/ Break \/ (recorded' = recorded /\ breaks' = breaks)
         /\ MainReply \/ answers' = answers
         /\ \/ StreamClose \/ MainCallFails \/ MainRestart
            \/ (stream' = "failed" <=> stream = "failed")
<1> USE DEF appVars, writerVars, readerVars, mainVars, netVars
<1>1. CASE OnMsg
  BY <1>1 DEF OnMsg
<1>2. CASE NormalStop
  BY <1>2 DEF NormalStop
<1>3. CASE WriterRecv
  BY <1>3 DEF WriterRecv
<1>4. CASE WriterCollect
  BY <1>4 DEF WriterCollect
<1>5. CASE WriterWrite
  BY <1>5 DEF WriterWrite
<1>6. CASE ReaderNewRecord
  BY <1>6 DEF ReaderNewRecord, ReaderRecv
<1>7. CASE ReaderReConnect
  BY <1>7 DEF ReaderReConnect
<1>8. CASE ReaderAwaits
  BY <1>8 DEF ReaderAwaits
<1>9. CASE ReaderSend
  BY <1>9 DEF ReaderSend
<1>10. CASE ReaderClose
  BY <1>10 DEF ReaderClose, ReaderRecv
<1>11. CASE ReaderJoins
  BY <1>11 DEF ReaderJoins
<1>12. CASE ReaderIgnores
  BY <1>12 DEF ReaderIgnores, ReaderRecv
<1>13. CASE ReaderEnds
  BY <1>13 DEF ReaderEnds
<1>14. CASE StreamRecv
  BY <1>14 DEF StreamRecv, Polled
<1>15. CASE StreamClose
  BY <1>15 DEF StreamClose
<1>16. CASE StreamDrain
  BY <1>16 DEF StreamDrain, CloseAnswered, Polled
<1>17. CASE ServerFirst
  BY <1>17 DEF ServerFirst, ServerTakes
<1>18. CASE ServerReplies
  BY <1>18 DEF ServerReplies
<1>19. CASE ServerServes
  BY <1>19 DEF ServerServes, ServerTakes
<1>20. CASE ServerGivesUp
  BY <1>20 DEF ServerGivesUp
<1>21. CASE Break
  BY <1>21 DEF Break
<1>22. CASE MainServed
  BY <1>22 DEF MainServed
<1>23. CASE MainCallFails
  BY <1>23 DEF MainCallFails, Call
<1>24. CASE MainReply
  BY <1>24 DEF MainReply, Return
<1>25. CASE MainStreamEnds
  BY <1>25 DEF MainStreamEnds, Return
<1>26. CASE MainReplyFails
  BY <1>26 DEF MainReplyFails, Return
<1>27. CASE MainDrain
  BY <1>27 DEF MainDrain
<1>28. CASE MainRestart
  BY <1>28 DEF MainRestart, Call
<1>29. QED
  BY <1>1, <1>2, <1>3, <1>4, <1>5, <1>6, <1>7, <1>8, <1>9, <1>10, <1>11,
     <1>12, <1>13, <1>14, <1>15, <1>16, <1>17, <1>18, <1>19, <1>20, <1>21,
     <1>22, <1>23, <1>24, <1>25, <1>26, <1>27, <1>28
     DEF Next, Writer, Reader, Stream, Server, Main

\* The constants, for arithmetic.
LEMMA ConstantsAre ==
  /\ MaxIndex \in Nat /\ Running = MaxIndex + 1 /\ Indices = 1..MaxIndex
  /\ RECORD_BLOCK_SIZE \in Nat /\ RECORD_BLOCK_SIZE > 1
  /\ NoRecord = 0 /\ AssertionFails = 0 /\ Nothing = 0
BY ConstantsAssumption DEF Running, Indices, NoRecord, AssertionFails, Nothing

\* A sequence over a set is one over a greater set.
LEMMA SeqWiden ==
  ASSUME NEW S, NEW T, S \subseteq T, NEW q \in Seq(S)
  PROVE  q \in Seq(T)
OBVIOUS

\* Each step keeps to the types, of what it changes.
LEMMA AppTypesStep ==
  ASSUME AppTypes, Next
  PROVE  AppTypes' /\ recorded' \in Nat /\ recorded <= recorded'
<1>1. CASE OnMsg
  BY <1>1, ConstantsAre DEF OnMsg, AppTypes
<1>2. CASE NormalStop
  BY <1>2, ConstantsAre DEF NormalStop, AppTypes
<1>3. CASE UNCHANGED appVars
  BY <1>3, ConstantsAre DEF appVars, AppTypes
<1>4. QED
  BY <1>1, <1>2, <1>3, Frames

\* What is left of a sequence when its first k are taken.
LEMMA RestIs ==
  ASSUME NEW S, NEW q \in Seq(S), NEW k \in Nat, NEW l \in Nat, l = Len(q), k <= l,
         NEW r, r = SubSeq(q, k + 1, l)
  PROVE  /\ r \in Seq(S) /\ Len(r) = l - k
         /\ \A i \in 1..l - k : r[i] = q[k + i]
<1>1. k + 1 \in Int /\ l \in Int /\ \A i \in k + 1..l : q[i] \in S
  OBVIOUS
<1>2. /\ r \in Seq(S)
      /\ Len(r) = IF k + 1 <= l THEN l - (k + 1) + 1 ELSE 0
      /\ \A i \in 1..l - (k + 1) + 1 : r[i] = q[k + 1 + i - 1]
  BY <1>1, SubSeqProperties
<1>3. l - (k + 1) + 1 = l - k /\ \A i \in 1..l - k : k + 1 + i - 1 = k + i
  OBVIOUS
<1>4. QED
  BY <1>2, <1>3

\* What the writer takes from the channel.
LEMMA CollectIs ==
  ASSUME NEW q, NEW m \in Nat, q \in Seq(0..m),
         NEW n, n = Min({RECORD_BLOCK_SIZE - 1, Len(q)} \cup {i \in 1..Len(q) : q[i] = NoRecord})
  PROVE  /\ n \in 0..Len(q) /\ n <= RECORD_BLOCK_SIZE - 1
         /\ SubSeq(q, 1, n) \in Seq(0..m) /\ Len(SubSeq(q, 1, n)) = n
         /\ SubSeq(q, n + 1, Len(q)) \in Seq(0..m) /\ Len(SubSeq(q, n + 1, Len(q))) = Len(q) - n
         /\ \A i \in 1..n : SubSeq(q, 1, n)[i] = q[i]
         /\ \A i \in 1..Len(q) - n : SubSeq(q, n + 1, Len(q))[i] = q[n + i]
         /\ \A i \in 1..n - 1 : q[i] # NoRecord
<1> DEFINE T == {RECORD_BLOCK_SIZE - 1, Len(q)} \cup {i \in 1..Len(q) : q[i] = NoRecord}
<1>1. Len(q) \in Nat /\ RECORD_BLOCK_SIZE - 1 \in Nat
  BY ConstantsAre
<1>2. T \subseteq Nat /\ T # {}
  BY <1>1
<1>3. n \in T /\ \A y \in T : n <= y
  BY <1>2, MinIs
<1>4. n \in 0..Len(q) /\ n <= RECORD_BLOCK_SIZE - 1
  BY <1>1, <1>2, <1>3
<1>5. \A i \in 1..n - 1 : q[i] # NoRecord
  BY <1>1, <1>3, <1>4, SMTT(20)
<1>6. PICK k \in Nat, l \in Nat : k = n /\ l = Len(q)
  <2>1. n \in Nat
    BY <1>2, <1>3
  <2>2. QED
    BY <1>1, <2>1
<1>7. k <= l /\ \A i \in 1..l : q[i] \in 0..m
  BY <1>4, <1>6
<1>8. /\ SubSeq(q, 1, k) \in Seq(0..m) /\ Len(SubSeq(q, 1, k)) = k
      /\ \A i \in 1..k : SubSeq(q, 1, k)[i] = q[i]
  <2>1. \A i \in 1..k : q[i] \in 0..m
    BY <1>7
  <2>2. QED
    BY <2>1, SubSeqProperties
<1>9. /\ SubSeq(q, k + 1, l) \in Seq(0..m) /\ Len(SubSeq(q, k + 1, l)) = l - k
      /\ \A i \in 1..l - k : SubSeq(q, k + 1, l)[i] = q[k + i]
  <2>1. q \in Seq(0..m) /\ k <= l /\ l = Len(q)
    BY <1>6, <1>7
  <2>2. PICK r : r = SubSeq(q, k + 1, l)
    OBVIOUS
  <2>3. r \in Seq(0..m) /\ Len(r) = l - k
    BY <2>1, <2>2, RestIs
  <2>4. \A i \in 1..l - k : r[i] = q[k + i]
    BY <2>1, <2>2, RestIs
  <2>5. QED
    BY <2>2, <2>3, <2>4
<1>10. QED
  BY <1>4, <1>5, <1>6, <1>8, <1>9

\* What the writer makes of a batch: the file holds all of it.
LEMMA WriteIs ==
  ASSUME AppTypes, WriterTypes, WriterInv, WriterWrite
  PROVE  /\ batch # <<>> /\ batch[1] = last + 1 /\ batch[1] \in Indices /\ batch[1] <= recorded
         /\ batch' = <<>> /\ toWriter' = toWriter
         /\ \/ reader = "failed" /\ writer' = "failed" /\ last' = last
            \/ /\ reader # "failed" /\ writer' = IF IsClose \/ ReaderGone THEN "ended" ELSE "idle"
               /\ IsClose <=> batch[Len(batch)] = NoRecord
               /\ last' = IF IsClose THEN last + Len(batch) - 1 ELSE last + Len(batch)
               /\ last' \in 0..recorded
<1>1. /\ writer = "writing" /\ batch' = <<>> /\ toWriter' = toWriter /\ Working
  BY DEF WriterWrite, Working
<1>2. /\ batch \in Seq(0..recorded) /\ batch # <<>> /\ Len(batch) \in Nat /\ Len(batch) >= 1
      /\ last \in Nat /\ recorded \in Nat /\ recorded <= MaxIndex /\ DOMAIN batch = 1..Len(batch)
  BY <1>1, ConstantsAre DEF WriterTypes, AppTypes
<1>3. \A i \in 1..Len(batch) : /\ batch[i] \in 0..recorded
                               /\ \/ batch[i] = last + i
                                  \/ batch[i] = NoRecord /\ i = Len(batch) /\ i > 1
  <2>1. \A i \in 1..Len(batch) : batch[i] \in 0..recorded
    BY <1>2
  <2>2. \A i \in DOMAIN batch :
          batch[i] = last + i \/ (batch[i] = NoRecord /\ i = Len(batch) /\ i > 1)
    BY <1>1 DEF WriterInv
  <2>3. QED
    BY <1>2, <2>1, <2>2
<1>4. 1 \in 1..Len(batch) /\ Len(batch) \in 1..Len(batch)
  BY <1>2
<1>5. batch[1] = last + 1 /\ batch[1] \in Indices /\ batch[1] <= recorded
  <2>1. batch[1] = last + 1 /\ batch[1] \in 0..recorded
    BY <1>3, <1>4
  <2>2. QED
    BY <1>2, <2>1, ConstantsAre
<1>6. IsClose <=> batch[Len(batch)] = NoRecord
  BY DEF IsClose, Last
<1>7. CASE reader = "failed"
  BY <1>1, <1>2, <1>5, <1>7 DEF WriterWrite
<1>8. CASE reader # "failed" /\ IsClose
  <2>1. Len(batch) > 1
    <3>1. batch[Len(batch)] = 0
      BY <1>6, <1>8, ConstantsAre
    <3>2. batch[Len(batch)] = last + Len(batch) \/ Len(batch) > 1
      BY <1>3, <1>4
    <3>3. QED
      BY <1>2, <3>1, <3>2
  <2>2. PICK k \in Nat : k = Len(batch) - 1
    <3>1. Len(batch) - 1 \in Nat
      BY <1>2, <2>1
    <3>2. QED
      BY <3>1
  <2>3. k \in 1..Len(batch) /\ k # Len(batch) /\ k \in Nat
    <3>1. PICK l \in Nat : l = Len(batch)
      BY <1>2
    <3>2. k = l - 1 /\ l > 1
      BY <2>1, <2>2, <3>1
    <3>3. QED
      BY <3>1, <3>2
  <2>4. Records(batch) = SubSeq(batch, 1, k)
    BY <1>8, <2>2 DEF Records, IsClose, Front
  <2>5. Last(Records(batch)) = batch[k]
    <3>1. Len(SubSeq(batch, 1, k)) = k /\ SubSeq(batch, 1, k)[k] = batch[k]
      <4>1. k \in 1..k - 1 + 1 /\ 1 <= k /\ k - 1 + 1 = k /\ 1 + k - 1 = k
        <5>1. k \in Nat /\ k >= 1
          BY <2>3
        <5>2. QED
          BY <5>1
      <4>2. \A i \in 1..k : batch[i] \in 0..recorded
        <5>1. PICK l \in Nat : l = Len(batch)
          BY <1>2
        <5>2. k <= l /\ k \in Nat
          BY <2>3, <5>1
        <5>3. \A i \in 1..k : i \in 1..l
          BY <5>2
        <5>4. QED
          BY <1>3, <5>1, <5>3
      <4>3. QED
        BY <2>3, <4>1, <4>2, SubSeqProperties
    <3>2. QED
      BY <2>4, <3>1 DEF Last
  <2>6. batch[k] = last + k /\ batch[k] \in 0..recorded
    BY <1>3, <2>3
  <2>7. last' = batch[k] /\ writer' = "ended"
    BY <1>8, <2>5 DEF WriterWrite
  <2>8. QED
    BY <1>1, <1>2, <1>5, <1>6, <1>8, <2>2, <2>6, <2>7
<1>9. CASE reader # "failed" /\ ~IsClose
  <2>1. Last(Records(batch)) = batch[Len(batch)]
    BY <1>9 DEF Records, IsClose, Last
  <2>2. batch[Len(batch)] = last + Len(batch) /\ batch[Len(batch)] \in 0..recorded
    BY <1>3, <1>4, <1>6, <1>9
  <2>3. last' = batch[Len(batch)] /\ writer' = IF IsClose \/ ReaderGone THEN "ended" ELSE "idle"
    BY <1>9, <2>1 DEF WriterWrite
  <2>4. QED
    BY <1>1, <1>2, <1>5, <1>6, <1>9, <2>2, <2>3
<1>10. QED
  BY <1>7, <1>8, <1>9

\* The batch keeps to a block and the file to what was recorded.
LEMMA WriterTypesStep ==
  ASSUME AppTypes, WriterTypes, WriterInv, Next
  PROVE  WriterTypes'
<1>1. recorded \in Nat /\ recorded' \in Nat /\ recorded <= recorded'
  BY AppTypesStep, ConstantsAre DEF AppTypes
<1>2. /\ toWriter \in Seq(0..recorded') /\ batch \in Seq(0..recorded') /\ last \in 0..recorded'
      /\ last \in Nat
  <2>1. 0..recorded \subseteq 0..recorded'
    BY <1>1
  <2>2. toWriter \in Seq(0..recorded) /\ batch \in Seq(0..recorded) /\ last \in 0..recorded
    BY DEF WriterTypes
  <2>3. QED
    BY <1>1, <2>1, <2>2, SeqWiden
<1>3. CASE OnMsg
  <2>1. recorded' = recorded + 1 /\ toWriter' = Append(toWriter, recorded + 1)
        /\ UNCHANGED writerVars
    BY <1>3 DEF OnMsg
  <2>2. recorded + 1 \in 0..recorded'
    BY <1>1, <2>1
  <2>3. toWriter' \in Seq(0..recorded')
    BY <1>2, <2>1, <2>2, AppendIs
  <2>4. QED
    BY <1>2, <2>1, <2>3 DEF WriterTypes, writerVars
<1>4. CASE WriterRecv
  <2>1. Head(toWriter) \in 0..recorded' /\ Tail(toWriter) \in Seq(0..recorded')
    BY <1>2, <1>4, TailIs DEF WriterRecv
  <2>2. <<Head(toWriter)>> \in Seq(0..recorded') /\ Len(<<Head(toWriter)>>) = 1
    BY <2>1
  <2>3. toWriter' = Tail(toWriter) /\ last' = last
        /\ \/ writer' = "ended" /\ batch' = batch /\ batch = <<>>
           \/ writer' = "sleeping" /\ batch' = <<Head(toWriter)>>
    BY <1>4 DEF WriterRecv, WriterTypes
  <2>4. toWriter' \in Seq(0..recorded') /\ batch' \in Seq(0..recorded') /\ last' \in 0..recorded'
    BY <1>2, <2>1, <2>2, <2>3
  <2>5. writer' = "sleeping" => Len(batch') = 1
    BY <2>2, <2>3
  <2>6. Len(batch') <= RECORD_BLOCK_SIZE
    <3>1. CASE writer' = "ended"
      BY <2>3, <3>1 DEF WriterTypes
    <3>2. CASE writer' = "sleeping"
      BY <2>5, <3>2, ConstantsAre
    <3>3. QED
      BY <2>3, <3>1, <3>2
  <2>7. QED
    BY <2>3, <2>4, <2>5, <2>6 DEF WriterTypes
<1>5. CASE WriterCollect
  <2>1. PICK n : n = Min({RECORD_BLOCK_SIZE - 1, Len(toWriter)}
                           \cup {i \in 1..Len(toWriter) : toWriter[i] = NoRecord})
    OBVIOUS
  <2>2. /\ batch' = batch \o SubSeq(toWriter, 1, n)
        /\ toWriter' = SubSeq(toWriter, n + 1, Len(toWriter))
        /\ writer' = "writing" /\ last' = last /\ writer = "sleeping"
    BY <1>5, <2>1 DEF WriterCollect
  <2>3. /\ n \in 0..Len(toWriter) /\ n <= RECORD_BLOCK_SIZE - 1
        /\ SubSeq(toWriter, 1, n) \in Seq(0..recorded') /\ Len(SubSeq(toWriter, 1, n)) = n
        /\ toWriter' \in Seq(0..recorded')
    BY <1>1, <1>2, <2>1, <2>2, CollectIs, ZenonT(30)
  <2>4. batch' \in Seq(0..recorded') /\ Len(batch') = 1 + n
    <3>1. PICK q \in Seq(0..recorded') : q = SubSeq(toWriter, 1, n) /\ Len(q) = n
      BY <2>3
    <3>2. Len(batch) = 1 /\ batch' = batch \o q
      BY <2>2, <3>1 DEF WriterTypes
    <3>3. PICK b \in Seq(0..recorded') : b = batch
      BY <1>2
    <3>4. b \o q \in Seq(0..recorded') /\ Len(b \o q) = Len(b) + Len(q)
      OBVIOUS
    <3>5. QED
      BY <3>1, <3>2, <3>3, <3>4
  <2>5. n \in Nat
    BY <1>2, <2>3
  <2>6. Len(batch') <= RECORD_BLOCK_SIZE /\ batch' # <<>>
    BY <2>3, <2>4, <2>5, ConstantsAre
  <2>7. QED
    BY <1>2, <2>2, <2>3, <2>4, <2>6 DEF WriterTypes
<1>6. CASE WriterWrite
  <2>1. last' \in 0..recorded'
    BY <1>2, <1>6, WriteIs, AppTypesStep DEF WriterWrite, appVars
  <2>2. QED
    BY <1>2, <1>6, <2>1, ConstantsAre DEF WriterWrite, WriterTypes
<1>7. CASE ReaderClose
  <2>1. /\ toWriter' = toWriter \/ toWriter' = Append(toWriter, NoRecord)
        /\ UNCHANGED writerVars
    BY <1>7 DEF ReaderClose
  <2>2. NoRecord \in 0..recorded'
    BY <1>1, ConstantsAre
  <2>3. toWriter' \in Seq(0..recorded')
    <3>1. Append(toWriter, NoRecord) \in Seq(0..recorded')
      BY <1>2, <2>2, AppendIs
    <3>2. QED
      BY <1>2, <2>1, <3>1
  <2>4. QED
    BY <1>2, <2>1, <2>3 DEF WriterTypes, writerVars
<1>8. CASE UNCHANGED <<toWriter, writerVars>>
  BY <1>2, <1>8 DEF WriterTypes, writerVars
<1>9. QED
  BY <1>3, <1>4, <1>5, <1>6, <1>7, <1>8, Frames

\* There is a reconnect_sender for each connection that broke, at most.
LEMMA ReconnectsBound ==
  ASSUME AppTypes, MainTypes
  PROVE  /\ reconnects \in Nat /\ breaks \in Nat /\ reconnects <= breaks
         /\ conn = "broken" /\ Called /\ stream # "failed" => reconnects + 1 \in 1..MaxBreaks[0]
<1>1. recorded \in 0..MaxIndex /\ 0 \in 0..MaxIndex /\ recorded >= 0
  BY ConstantsAre DEF AppTypes
<1>2. MaxBreaks[recorded] \in Nat /\ MaxBreaks[0] \in Nat
  BY <1>1, ConstantsAssumption
<1>3. MaxBreaks[recorded] <= MaxBreaks[0]
  BY <1>1, ConstantsAssumption
<1>4. PICK m \in Nat, n \in Nat : m = MaxBreaks[recorded] /\ n = MaxBreaks[0]
  BY <1>2
<1>5. m <= n /\ reconnects \in 0..breaks /\ breaks \in 0..m
  BY <1>3, <1>4 DEF MainTypes
<1>6. conn = "broken" /\ Called /\ stream # "failed" => reconnects < breaks
  BY DEF MainTypes
<1>7. reconnects < breaks => reconnects + 1 \in 1..n
  BY <1>5
<1>8. QED
  BY <1>4, <1>5, <1>6, <1>7

\* The reader waits for a reply only with the ReConnect at the head of what it is told.
LEMMA ReaderTypesStep ==
  ASSUME AppTypes, WriterTypes, ReaderTypes, MainTypes, WriterInv, StopInv, Next
  PROVE  ReaderTypes'
<1>1. last \in Nat /\ recorded \in Nat /\ recorded <= MaxIndex
  BY ConstantsAre DEF WriterTypes, AppTypes
<1>2. recordMsgs \in Seq(RecordMsg) /\ toSend \in Seq({AssertionFails} \cup Indices)
  BY DEF ReaderTypes
\* A message more.
<1>3. ASSUME NEW m \in RecordMsg, recordMsgs' = Append(recordMsgs, m), UNCHANGED readerVars
      PROVE  ReaderTypes'
  <2>1. recordMsgs' \in Seq(RecordMsg) /\ recordMsgs' # <<>>
    BY <1>2, <1>3, AppendIs
  <2>2. recordMsgs # <<>> => Head(recordMsgs') = Head(recordMsgs)
    BY <1>2, <1>3
  <2>3. QED
    BY <1>3, <2>1, <2>2 DEF ReaderTypes, readerVars
\* Records to send.
<1>4. ASSUME NEW index \in Nat \ {0}, toSend' = ReadFrom(index), reader' \in {"idle", "draining"},
             recordMsgs' = Tail(recordMsgs), recordMsgs # <<>>
      PROVE  ReaderTypes'
  <2>1. PICK f : f = ReadFrom(index)
    OBVIOUS
  <2>2. /\ f \in Seq({AssertionFails} \cup Indices)
        /\ \A i \in DOMAIN f : f[i] = AssertionFails => i = Len(f)
    BY <2>1, ReadFromIs
  <2>3. toSend' = f
    BY <1>4, <2>1
  <2>4. recordMsgs' \in Seq(RecordMsg)
    BY <1>2, <1>4, TailIs
  <2>5. QED
    BY <1>4, <2>2, <2>3, <2>4 DEF ReaderTypes
\* Another state, with nothing to send.
<1>5. ASSUME toSend = <<>>, toSend' = toSend,
             reader' \in {"idle", "joining", "draining", "ended", "failed"},
             recordMsgs' \in Seq(RecordMsg)
      PROVE  ReaderTypes'
  BY <1>2, <1>5 DEF ReaderTypes
<1>6. recordMsgs # <<>> => Tail(recordMsgs) \in Seq(RecordMsg) /\ Head(recordMsgs) \in RecordMsg
  BY <1>2, TailIs
<1>7. CASE WriterWrite
  <2>1. batch[1] \in Indices
    BY <1>7, WriteIs
  <2>2. NewRecord(batch[1]) \in RecordMsg
    BY <2>1, RecordMsgIs
  <2>3. CASE recordMsgs' = recordMsgs
    BY <1>7, <2>3 DEF WriterWrite, ReaderTypes, readerVars
  <2>4. CASE recordMsgs' = Append(recordMsgs, NewRecord(batch[1]))
    BY <1>3, <1>7, <2>2, <2>4 DEF WriterWrite
  <2>5. QED
    BY <1>7, <2>3, <2>4 DEF WriterWrite
<1>8. CASE ReaderNewRecord
  <2>1. /\ recordMsgs # <<>> /\ Head(recordMsgs).type = "NewRecord" /\ toSend = <<>>
        /\ recordMsgs' = Tail(recordMsgs) /\ reader \in {"idle", "draining"}
    BY <1>8 DEF ReaderNewRecord, ReaderRecv
  <2>2. Head(recordMsgs).index \in Indices
    BY <1>6, <2>1, RecordMsgIs
  <2>3. PICK i \in Nat \ {0} : i = Head(recordMsgs).index
    BY <2>2, ConstantsAre
  <2>4. \/ reader' = "ended" /\ toSend' = toSend
        \/ reader' = reader /\ toSend' = ReadFrom(i)
    BY <1>8, <2>3 DEF ReaderNewRecord
  <2>5. QED
    BY <1>4, <1>5, <1>6, <2>1, <2>4
<1>9. CASE ReaderReConnect
  BY <1>9, <1>2 DEF ReaderReConnect, ReaderTypes
<1>10. CASE ReaderAwaits
  <2>1. /\ recordMsgs # <<>> /\ Head(recordMsgs).type = "ReConnect" /\ toSend = <<>>
        /\ recordMsgs' = Tail(recordMsgs) /\ reader' = "idle"
    BY <1>10 DEF ReaderAwaits, ReaderTypes
  <2>2. Head(recordMsgs).receiver \in 1..MaxBreaks[0]
    BY <1>6, <2>1, RecordMsgIs
  <2>3. PICK i \in Nat : i = answers[Head(recordMsgs).receiver]
    BY <2>2 DEF MainTypes
  <2>4. toSend' = toSend \/ toSend' = ReadFrom(i + 1)
    BY <1>10, <2>3 DEF ReaderAwaits
  <2>5. i + 1 \in Nat \ {0}
    OBVIOUS
  <2>6. QED
    BY <1>4, <1>5, <1>6, <2>1, <2>4, <2>5
<1>11. CASE ReaderSend
  <2>1. /\ Tail(toSend) \in Seq({AssertionFails} \cup Indices)
        /\ Head(toSend) = toSend[1] /\ Len(toSend) \in Nat /\ Len(toSend) >= 1
        /\ Len(Tail(toSend)) = Len(toSend) - 1 /\ DOMAIN toSend = 1..Len(toSend)
        /\ DOMAIN Tail(toSend) = 1..Len(toSend) - 1
        /\ \A i \in 1..Len(toSend) - 1 : Tail(toSend)[i] = toSend[i + 1]
    BY <1>2, <1>11, TailIs DEF ReaderSend
  <2>2. \A i \in DOMAIN Tail(toSend) : Tail(toSend)[i] = AssertionFails => i = Len(Tail(toSend))
    <3>1. ASSUME NEW i \in 1..Len(toSend) - 1, toSend[i + 1] = AssertionFails
          PROVE  i = Len(toSend) - 1
      <4>1. i + 1 \in DOMAIN toSend
        BY <2>1
      <4>2. i + 1 = Len(toSend)
        BY <3>1, <4>1 DEF ReaderTypes
      <4>3. PICK l \in Nat : l = Len(toSend)
        BY <2>1
      <4>4. i \in 1..l - 1 /\ i + 1 = l
        BY <3>1, <4>2, <4>3
      <4>5. QED
        BY <4>3, <4>4
    <3>2. QED
      BY <2>1, <3>1
  <2>3. Head(toSend) = AssertionFails => Tail(toSend) = <<>>
    <3>1. Head(toSend) = AssertionFails => Len(toSend) = 1
      <4>1. 1 \in DOMAIN toSend
        BY <2>1
      <4>2. QED
        BY <2>1, <4>1 DEF ReaderTypes
    <3>2. Len(toSend) = 1 => Tail(toSend) = <<>>
      BY <2>1
    <3>3. QED
      BY <3>1, <3>2
  <2>4. /\ toSend' = Tail(toSend) /\ recordMsgs' = recordMsgs /\ toSend # <<>>
        /\ \/ Head(toSend) = AssertionFails /\ reader' = "failed"
           \/ reader' = reader
    BY <1>11 DEF ReaderSend
  <2>5. QED
    BY <1>2, <2>1, <2>2, <2>3, <2>4 DEF ReaderTypes
<1>12. CASE ReaderClose
  BY <1>5, <1>6, <1>12 DEF ReaderClose, ReaderRecv
<1>13. CASE ReaderJoins
  BY <1>2, <1>13 DEF ReaderJoins, ReaderTypes
<1>14. CASE ReaderIgnores
  BY <1>5, <1>6, <1>14 DEF ReaderIgnores, ReaderRecv, readerVars
<1>15. CASE ReaderEnds
  BY <1>2, <1>5, <1>15 DEF ReaderEnds
<1>16. CASE StreamClose
  <2>1. CASE recordMsgs' = recordMsgs
    BY <1>16, <2>1 DEF StreamClose, ReaderTypes, readerVars
  <2>2. CASE recordMsgs' = Append(recordMsgs, Close)
    BY <1>3, <1>16, <2>2, RecordMsgIs DEF StreamClose
  <2>3. QED
    BY <1>16, <2>1, <2>2 DEF StreamClose
<1>17. CASE MainReplyFails
  <2>1. CASE recordMsgs' = recordMsgs
    BY <1>17, <2>1 DEF MainReplyFails, ReaderTypes, readerVars
  <2>2. CASE ~ReaderGone
    <3>1. stream # "failed" /\ conn = "broken" /\ Called
      BY <1>17, <2>2 DEF StopInv, ReaderGone, MainReplyFails, Called
    <3>2. reconnects + 1 \in 1..MaxBreaks[0]
      BY <3>1, ReconnectsBound
    <3>3. QED
      BY <1>3, <1>17, <2>2, <3>2, RecordMsgIs DEF MainReplyFails
  <2>3. QED
    BY <1>17, <2>1, <2>2 DEF MainReplyFails
<1>18. CASE UNCHANGED <<recordMsgs, readerVars>>
  BY <1>18 DEF ReaderTypes, readerVars
<1>19. QED
  BY <1>7, <1>8, <1>9, <1>10, <1>11, <1>12, <1>13, <1>14, <1>15, <1>16, <1>17, <1>18, Frames

\* The queue and the wire hold messages, and the wire no more than its window.
LEMMA StreamTypesStep ==
  ASSUME StreamTypes, ReaderTypes, Next
  PROVE  StreamTypes'
<1>1. /\ msgs \in Seq(RecordParam) /\ wire \in Seq(RecordParam) /\ Len(wire) <= Window
      /\ Len(wire) \in Nat /\ Window \in Nat
  BY ConstantsAssumption DEF StreamTypes
<1>2. msgs # <<>> => Head(msgs) \in RecordParam /\ Tail(msgs) \in Seq(RecordParam)
  BY <1>1, TailIs
<1>3. <<>> \in Seq(RecordParam) /\ Len(<<>>) <= Window
  BY <1>1
\* What is taken from the wire, and what is put on it.
<1>4. wire # <<>> => Tail(wire) \in Seq(RecordParam) /\ Len(Tail(wire)) <= Window
  BY <1>1, TailIs
<1>5. ASSUME NEW m \in RecordParam, Len(wire) < Window
      PROVE  Append(wire, m) \in Seq(RecordParam) /\ Len(Append(wire, m)) <= Window
  <2>1. Append(wire, m) \in Seq(RecordParam) /\ Len(Append(wire, m)) = Len(wire) + 1
    BY <1>1, AppendIs
  <2>2. QED
    BY <1>1, <1>5, <2>1
<1>6. ASSUME NEW m \in RecordParam
      PROVE  Append(msgs, m) \in Seq(RecordParam)
  BY <1>1, AppendIs
<1>7. CASE NormalStop
  BY <1>1, <1>6, <1>7, MessageIs DEF NormalStop, netVars, StreamTypes
<1>8. CASE ReaderSend
  <2>1. Head(toSend) # AssertionFails => Record(Head(toSend)) \in RecordParam
    <3>1. Head(toSend) \in {AssertionFails} \cup Indices
      BY <1>8, TailIs DEF ReaderSend, ReaderTypes
    <3>2. QED
      BY <3>1, MessageIs
  <2>2. \/ msgs' = msgs
        \/ Head(toSend) # AssertionFails /\ msgs' = Append(msgs, Record(Head(toSend)))
    BY <1>8 DEF ReaderSend
  <2>3. msgs' \in Seq(RecordParam)
    BY <1>1, <1>6, <2>1, <2>2
  <2>4. QED
    BY <1>8, <2>3 DEF ReaderSend, netVars, StreamTypes
<1>9. CASE StreamRecv
  <2>1. Tail(msgs) \in Seq(RecordParam) /\ Head(msgs) \in RecordParam /\ msgs' = Tail(msgs)
        /\ Len(wire) < Window
    BY <1>2, <1>9 DEF StreamRecv, Polled
  <2>2. \/ stream' = "stopping" /\ wire' = wire
        \/ stream' = stream /\ wire' = Append(wire, Head(msgs))
    BY <1>9 DEF StreamRecv
  <2>3. QED
    BY <1>5, <2>1, <2>2 DEF StreamTypes
<1>10. CASE StreamClose
  BY <1>1, <1>3, <1>10 DEF StreamClose, StreamTypes
<1>11. CASE StreamDrain
  <2>1. Len(wire) < Window
    BY <1>11 DEF StreamDrain, CloseAnswered, Polled
  <2>2. CASE msgs = <<>>
    BY <1>5, <1>11, <2>1, <2>2, MessageIs DEF StreamDrain, StreamTypes
  <2>3. CASE msgs # <<>>
    BY <1>2, <1>5, <1>11, <2>1, <2>3 DEF StreamDrain, StreamTypes
  <2>4. QED
    BY <2>2, <2>3
<1>12. CASE ServerFirst \/ ServerServes
  BY <1>4, <1>12 DEF ServerFirst, ServerServes, ServerTakes, StreamTypes
<1>13. CASE Break \/ MainCallFails
  BY <1>3, <1>13 DEF Break, MainCallFails, Call, StreamTypes
<1>14. CASE MainReply \/ MainStreamEnds \/ MainReplyFails \/ MainDrain
  BY <1>3, <1>14 DEF MainReply, MainStreamEnds, MainReplyFails, MainDrain, Return, netVars, StreamTypes
<1>15. CASE MainRestart
  BY <1>3, <1>6, <1>15, MessageIs DEF MainRestart, Call, StreamTypes
<1>16. CASE UNCHANGED <<msgs, stream, wire>>
  BY <1>16 DEF StreamTypes
<1>17. QED
  BY <1>7, <1>8, <1>9, <1>10, <1>11, <1>12, <1>13, <1>14, <1>15, <1>16, Frames

\* A broken connection is counted before the client comes back from it.
LEMMA MainTypesStep ==
  ASSUME AppTypes, MainTypes, ReaderTypes, ServerTypes, StopInv, Next
  PROVE  MainTypes'
<1>1. reconnects \in Nat /\ breaks \in Nat /\ reconnects <= breaks
  BY ReconnectsBound
<1>2. /\ reconnects' \in Nat /\ breaks' \in Nat /\ reconnects' <= breaks'
      /\ conn' \in {"up", "broken"}
      /\ conn' = "broken" /\ Called' /\ stream' # "failed" => reconnects' < breaks'
      /\ main' \in {"calling", "serving", "draining", "restarting", "returned", "panicked"}
      /\ replySender' \in BOOLEAN
  <2>1. CASE StreamClose
    BY <1>1, <2>1 DEF StreamClose, Polled, mainVars, MainTypes, Called
  <2>2. CASE Break
    BY <1>1, <2>2 DEF Break, MainTypes, Called
  <2>3. CASE MainServed \/ MainDrain
    BY <1>1, <2>3 DEF MainServed, MainDrain, netVars, MainTypes, Called
  <2>4. CASE MainCallFails \/ MainRestart
    BY <1>1, <2>4 DEF MainCallFails, MainRestart, Call, MainTypes, Called
  <2>5. CASE MainReply
    BY <1>1, <2>5 DEF MainReply, Return, MainTypes, Called
  <2>6. CASE MainStreamEnds
    BY <1>1, <2>6 DEF MainStreamEnds, Return, netVars, MainTypes, Called
  <2>7. CASE MainReplyFails
    <3>1. CASE ReaderGone
      BY <1>1, <2>7, <3>1 DEF MainReplyFails, Return, netVars, MainTypes, Called
    <3>2. CASE ~ReaderGone
      <4>1. stream # "failed" /\ conn = "broken" /\ Called
        BY <2>7, <3>2 DEF StopInv, ReaderGone, MainReplyFails, Called
      <4>2. reconnects < breaks
        BY <4>1 DEF MainTypes
      <4>3. QED
        BY <1>1, <2>7, <3>2, <4>2 DEF MainReplyFails, netVars, MainTypes, Called
    <3>3. QED
      BY <3>1, <3>2
  <2>8. CASE UNCHANGED <<mainVars, conn>> /\ (stream' = "failed" <=> stream = "failed")
    BY <1>1, <2>8 DEF mainVars, MainTypes, Called
  <2>9. QED
    BY <2>1, <2>2, <2>3, <2>4, <2>5, <2>6, <2>7, <2>8, Frames
<1>3. breaks' <= MaxBreaks[recorded']
  <2>1. recorded \in 0..MaxIndex /\ recorded' \in 0..MaxIndex
    BY AppTypesStep DEF AppTypes
  <2>2. MaxBreaks[recorded] \in Nat /\ MaxBreaks[recorded'] \in Nat /\ breaks <= MaxBreaks[recorded]
    BY <2>1, ConstantsAssumption DEF MainTypes
  <2>3. CASE OnMsg
    BY <2>2, <2>3 DEF OnMsg, mainVars
  <2>4. CASE Break
    <3>1. breaks < MaxBreaks[recorded] /\ breaks' = breaks + 1 /\ recorded' = recorded
      BY <2>4 DEF Break, appVars
    <3>2. QED
      BY <1>1, <2>2, <3>1
  <2>5. CASE recorded' = recorded /\ breaks' = breaks
    BY <2>2, <2>5
  <2>6. QED
    BY <2>3, <2>4, <2>5, Frames
<1>4. answers' \in [1..MaxBreaks[0] -> Nat]
  <2>1. CASE MainReply
    <3>1. replies \in Seq(Nat) /\ replies # <<>>
      BY <2>1 DEF MainReply, ServerTypes
    <3>2. Head(replies) \in Nat
      BY <3>1, TailIs
    <3>3. QED
      BY <2>1, <3>2 DEF MainReply, MainTypes
  <2>2. CASE answers' = answers
    BY <2>2 DEF MainTypes
  <2>3. QED
    BY <2>1, <2>2, Frames
<1>5. reconnects' \in 0..breaks' /\ breaks' \in 0..MaxBreaks[recorded']
  <2>1. recorded' \in 0..MaxIndex
    BY AppTypesStep DEF AppTypes
  <2>2. PICK m \in Nat : m = MaxBreaks[recorded']
    BY <2>1, ConstantsAssumption
  <2>3. QED
    BY <1>2, <1>3, <2>2
<1>6. QED
  BY <1>2, <1>4, <1>5 DEF MainTypes

\* The server passes on records only, and owes no more than one reply.
LEMMA ServerTypesStep ==
  ASSUME ServerTypes, StreamTypes, Next
  PROVE  ServerTypes'
<1>1. CASE ServerFirst
  BY <1>1 DEF ServerFirst, ServerTypes
<1>2. CASE ServerReplies
  <2>1. PICK index \in {0} \cup received, ahead \in IdAhead : replies' = <<index + ahead>>
    BY <1>2 DEF ServerReplies
  <2>2. index + ahead \in Nat
    BY <2>1, ConstantsAssumption, ConstantsAre DEF ServerTypes
  <2>3. replies' \in Seq(Nat) /\ Len(replies') = 1
    BY <2>1, <2>2
  <2>4. QED
    BY <1>2, <2>3 DEF ServerReplies, ServerTypes
<1>3. CASE ServerServes
  <2>1. Head(wire) \in RecordParam
    BY <1>3, TailIs DEF ServerServes, ServerTakes, StreamTypes
  <2>2. Head(wire).type = "Record" => Head(wire).index \in Indices
    BY <2>1, MessageIs
  <2>3. QED
    BY <1>3, <2>2 DEF ServerServes, ServerTypes
<1>4. CASE ServerGivesUp
  BY <1>4 DEF ServerGivesUp, ServerTypes
<1>5. CASE Break \/ MainCallFails \/ MainRestart
  <2>1. <<>> \in Seq(Nat) /\ Len(<<>>) <= 1
    OBVIOUS
  <2>2. replies' = <<>> /\ received' = received /\ (server' = server \/ server' = "new")
    BY <1>5 DEF Break, MainCallFails, MainRestart, Call
  <2>3. QED
    BY <2>1, <2>2 DEF ServerTypes
<1>6. CASE MainReply
  <2>1. replies \in Seq(Nat) /\ replies # <<>> /\ Len(replies) <= 1 /\ replies' = Tail(replies)
    BY <1>6 DEF MainReply, ServerTypes
  <2>2. replies' \in Seq(Nat) /\ Len(replies') <= 1
    BY <2>1, TailIs
  <2>3. QED
    BY <1>6, <2>2 DEF MainReply, ServerTypes
<1>7. CASE UNCHANGED <<server, replies, received>>
  BY <1>7 DEF ServerTypes
<1>8. QED
  BY <1>1, <1>2, <1>3, <1>4, <1>5, <1>6, <1>7, Frames

\* Every step keeps the types.
LEMMA TypesStep ==
  ASSUME Types, WriterInv, StopInv, Next
  PROVE  Types'
BY AppTypesStep, WriterTypesStep, ReaderTypesStep, StreamTypesStep, MainTypesStep, ServerTypesStep
   DEF Types
-----------------------------------------------------------------------------
\* What the invariant says of the writer, in numbers.
LEMMA WriterIs ==
  ASSUME Types
  PROVE  /\ recorded \in Nat /\ recorded <= MaxIndex /\ last \in Nat /\ last <= recorded
         /\ stopAt \in Nat /\ (stopAt # Running => stopAt <= recorded)
         /\ batch \in Seq(0..recorded) /\ Len(batch) \in Nat /\ DOMAIN batch = 1..Len(batch)
         /\ toWriter \in Seq(0..recorded) /\ Len(toWriter) \in Nat
         /\ DOMAIN toWriter = 1..Len(toWriter)
BY ConstantsAre DEF Types, AppTypes, WriterTypes

\* The reader goes on to another state that does not matter to the writer.
LEMMA WriterStays ==
  ASSUME Types, WriterInv, toWriter' = toWriter, UNCHANGED writerVars, recorded' = recorded,
         stopAt' = stopAt \/ reader \notin {"joining", "draining"},
         reader' = "joining" <=> reader = "joining", reader' = "draining" => reader = "draining",
         reader = "failed" => reader' = "failed"
  PROVE  WriterInv'
<1>1. Working' = Working /\ \A n : Closed(n)' = Closed(n)
  BY DEF writerVars, Working, Closed
<1>2. reader' \in {"joining", "draining"} => stopAt' = stopAt
  OBVIOUS
<1>3. CASE stopAt' = stopAt
  BY <1>1, <1>3 DEF WriterInv, writerVars
<1>4. CASE reader \notin {"joining", "draining"}
  <2>1. Working => ~Closed(Len(toWriter))
    BY <1>4 DEF WriterInv
  <2>2. Working => /\ ~(batch # <<>> /\ batch[Len(batch)] = NoRecord)
                   /\ \A i \in DOMAIN toWriter : toWriter[i] # NoRecord
    BY <2>1, WriterIs DEF Closed
  <2>3. QED
    BY <1>1, <1>4, <2>2 DEF WriterInv, writerVars
<1>5. QED
  BY <1>3, <1>4

\* A record, or the end, comes to the writer.
LEMMA WriterAppend ==
  ASSUME Types, WriterInv, Working, NEW m, toWriter' = Append(toWriter, m), UNCHANGED writerVars,
         stopAt' = stopAt,
         \/ m = recorded + 1 /\ recorded' = recorded + 1 /\ reader' = reader
         \/ /\ m = NoRecord /\ recorded' = recorded /\ reader' = "joining"
            /\ reader = "idle" /\ stopAt <= recorded
  PROVE  WriterInv'
<1>1. PICK b \in Nat, t \in Nat : b = Len(batch) /\ t = Len(toWriter)
  BY WriterIs
<1>2. /\ recorded \in Nat /\ last \in Nat /\ stopAt \in Nat
      /\ DOMAIN batch = 1..b /\ DOMAIN toWriter = 1..t
  BY <1>1, WriterIs
<1>3. /\ Len(toWriter') = t + 1 /\ DOMAIN toWriter' = 1..t + 1
      /\ \A i \in 1..t : toWriter'[i] = toWriter[i]
      /\ toWriter'[t + 1] = m
  BY <1>1, WriterIs
<1>4. /\ batch' = batch /\ last' = last /\ writer' = writer /\ Working' /\ Working
  BY DEF writerVars, Working
<1>5. \A n \in 0..t : Closed(n)' = Closed(n)
  BY <1>3, <1>4 DEF Closed
<1>6. Closed(t + 1)' <=> Closed(t) \/ m = NoRecord
  <2>1. Closed(t + 1)' <=> Closed(t)' \/ toWriter'[t + 1] = NoRecord
    BY <1>3 DEF Closed
  <2>2. QED
    BY <1>3, <1>5, <2>1
<1>7. /\ \A i \in 1..t : toWriter[i] = last + b + i \/ Closed(i)
      /\ Closed(t) \/ recorded = last + b + t
      /\ Closed(t) <=> reader = "joining"
      /\ batch # <<>> /\ batch[b] = NoRecord => stopAt <= last + b - 1
      /\ \A i \in 1..t : toWriter[i] = NoRecord => stopAt <= last + b + i - 1
      /\ \A i \in 1..b : batch[i] = last + i \/ (batch[i] = NoRecord /\ i = b /\ i > 1)
  BY <1>1, <1>2, <1>4 DEF WriterInv
<1>8. \A i \in 1..t + 1 : toWriter'[i] = last + b + i \/ Closed(i)'
  <2>1. \A i \in 1..t : toWriter'[i] = last + b + i \/ Closed(i)'
    BY <1>3, <1>5, <1>7
  <2>2. toWriter'[t + 1] = last + b + (t + 1) \/ Closed(t + 1)'
    <3>1. CASE m = NoRecord
      BY <1>6, <3>1
    <3>2. CASE m = recorded + 1
      BY <1>2, <1>3, <1>6, <1>7, <3>2
    <3>3. QED
      BY <3>1, <3>2
  <2>3. \A i \in 1..t + 1 : i \in 1..t \/ i = t + 1
    BY <1>1
  <2>4. QED
    BY <2>1, <2>2, <2>3
<1>9. m = NoRecord <=> reader' = "joining" /\ reader = "idle"
  BY <1>2, ConstantsAre
<1>10. Closed(t + 1)' \/ recorded' = last + b + (t + 1)
  BY <1>2, <1>6, <1>7, SMTT(20)
<1>11. Closed(t + 1)' <=> reader' = "joining"
  BY <1>6, <1>7, <1>9
<1>12. \A i \in 1..t + 1 : toWriter'[i] = NoRecord => stopAt <= last + b + i - 1
  <2>1. m = NoRecord => stopAt <= last + b + (t + 1) - 1
    <3>1. m = NoRecord => stopAt <= recorded /\ ~Closed(t)
      BY <1>2, <1>7, ConstantsAre
    <3>2. QED
      BY <1>2, <1>7, <3>1
  <2>2. QED
    BY <1>3, <1>7, <2>1
<1>13. reader' # "draining"
  <2>1. reader # "draining"
    BY DEF WriterInv
  <2>2. QED
    BY <2>1
<1>14. writer' # "failed"
  BY <1>4 DEF Working
<1>15. QED
  BY <1>1, <1>2, <1>3, <1>4, <1>7, <1>8, <1>10, <1>11, <1>12, <1>13, <1>14 DEF WriterInv

\* The writer takes the first of a batch.
LEMMA WriterTakes ==
  ASSUME Types, WriterInv, WriterRecv
  PROVE  WriterInv'
<1>1. PICK t \in Nat : t = Len(toWriter)
  BY WriterIs
<1>2. /\ recorded \in Nat /\ last \in Nat /\ stopAt \in Nat
      /\ DOMAIN toWriter = 1..t /\ toWriter # <<>> /\ t >= 1
  BY <1>1, WriterIs DEF WriterRecv
<1>3. /\ Len(toWriter') = t - 1 /\ DOMAIN toWriter' = 1..t - 1
      /\ \A i \in 1..t - 1 : toWriter'[i] = toWriter[i + 1]
      /\ Head(toWriter) = toWriter[1]
  BY <1>1, <1>2, WriterIs, TailIs DEF WriterRecv
<1>4. /\ batch = <<>> /\ Len(batch) = 0 /\ Working /\ last' = last /\ recorded' = recorded
      /\ stopAt' = stopAt /\ reader' = reader
  BY DEF WriterRecv, Types, WriterTypes, Working, appVars, readerVars
<1>5. /\ \A i \in 1..t : toWriter[i] = last + i \/ Closed(i)
      /\ Closed(t) \/ recorded = last + t
      /\ Closed(t) <=> reader = "joining"
      /\ \A i \in 1..t : toWriter[i] = NoRecord => stopAt <= last + i - 1
      /\ reader # "draining"
  BY <1>1, <1>2, <1>4 DEF WriterInv
<1>6. 1 \in 1..t /\ \A n : Closed(n) <=> \E i \in 1..n : toWriter[i] = NoRecord
  BY <1>2, <1>4 DEF Closed
<1>7. CASE Head(toWriter) = NoRecord
  <2>1. writer' = "ended" /\ ~Working'
    BY <1>7 DEF WriterRecv, Working
  <2>2. stopAt <= last
    BY <1>2, <1>3, <1>5, <1>6, <1>7
  <2>3. QED
    BY <1>4, <1>5, <2>1, <2>2 DEF WriterInv
<1>8. CASE Head(toWriter) # NoRecord
  <2>1. /\ writer' = "sleeping" /\ Working' /\ batch' = <<toWriter[1]>>
        /\ batch' # <<>> /\ Len(batch') = 1 /\ DOMAIN batch' = {1} /\ batch'[1] = toWriter[1]
    BY <1>3, <1>8 DEF WriterRecv, Working
  <2>2. toWriter[1] = last + 1
    BY <1>3, <1>5, <1>6, <1>8
  <2>3. \A n \in 0..t - 1 : Closed(n)' <=> Closed(n + 1)
    <3>1. ASSUME NEW n \in 0..t - 1
          PROVE  Closed(n)' <=> Closed(n + 1)
      <4>1. Closed(n)' <=> \E i \in 1..n : toWriter[i + 1] = NoRecord
        <5>1. Closed(n)' <=> \E i \in 1..n : toWriter'[i] = NoRecord
          BY <1>3, <1>8, <2>1 DEF Closed
        <5>2. n \in Nat /\ n <= t - 1
          BY <1>1, <1>2, <3>1
        <5>3. \A i \in 1..n : i \in 1..t - 1
          BY <1>1, <5>2
        <5>4. QED
          BY <1>3, <5>1, <5>3
      <4>2. (\E i \in 1..n : toWriter[i + 1] = NoRecord) <=> \E i \in 2..n + 1 : toWriter[i] = NoRecord
        <5>1. \A i \in 1..n : i + 1 \in 2..n + 1
          OBVIOUS
        <5>2. \A i \in 2..n + 1 : i - 1 \in 1..n /\ i - 1 + 1 = i
          OBVIOUS
        <5>3. QED
          BY <5>1, <5>2
      <4>3. \A i \in 1..n + 1 : i = 1 \/ i \in 2..n + 1
        OBVIOUS
      <4>4. QED
        BY <1>3, <1>6, <1>8, <4>1, <4>2, <4>3
    <3>2. QED
      BY <3>1
  <2>4. \A i \in 1..t - 1 : toWriter'[i] = last + 1 + i \/ Closed(i)'
    <3>1. \A i \in 1..t - 1 : i + 1 \in 1..t /\ i \in 0..t - 1
      OBVIOUS
    <3>2. QED
      BY <1>2, <1>3, <1>5, <2>3, <3>1
  <2>5. Closed(t - 1)' <=> Closed(t)
    BY <1>2, <2>3
  <2>6. Closed(t - 1)' \/ recorded' = last + 1 + (t - 1)
    BY <1>2, <1>4, <1>5, <2>5
  <2>7. \A i \in 1..t - 1 : toWriter'[i] = NoRecord => stopAt <= last + 1 + i - 1
    BY <1>2, <1>3, <1>5
  <2>8. /\ \A i \in DOMAIN batch' :
             batch'[i] = last + i \/ (batch'[i] = NoRecord /\ i = Len(batch') /\ i > 1)
        /\ ~(batch'[Len(batch')] = NoRecord)
    BY <1>3, <1>8, <2>1, <2>2
  <2>9. QED
    BY <1>3, <1>4, <1>5, <2>1, <2>4, <2>5, <2>6, <2>7, <2>8 DEF WriterInv
<1>9. QED
  BY <1>7, <1>8

\* The writer takes the rest of a batch.
LEMMA WriterCollects ==
  ASSUME Types, WriterInv, WriterCollect
  PROVE  WriterInv'
<1>1. PICK t \in Nat, m \in Nat : t = Len(toWriter) /\ m = recorded
  BY WriterIs
<1>2. toWriter \in Seq(0..m)
  BY <1>1, WriterIs
<1>3. PICK n \in Nat : n = Min({RECORD_BLOCK_SIZE - 1, Len(toWriter)}
                                 \cup {i \in 1..Len(toWriter) : toWriter[i] = NoRecord})
  <2>1. PICK n : n = Min({RECORD_BLOCK_SIZE - 1, Len(toWriter)}
                           \cup {i \in 1..Len(toWriter) : toWriter[i] = NoRecord})
    OBVIOUS
  <2>2. n \in 0..Len(toWriter)
    BY <1>1, <1>2, <2>1, CollectIs
  <2>3. n \in Nat
    BY <1>1, <2>2
  <2>4. QED
    BY <2>1, <2>3
<1>4. /\ batch' = batch \o SubSeq(toWriter, 1, n)
      /\ toWriter' = SubSeq(toWriter, n + 1, Len(toWriter))
      /\ writer' = "writing" /\ last' = last /\ writer = "sleeping" /\ Working /\ Working'
      /\ recorded' = recorded /\ stopAt' = stopAt /\ reader' = reader
  BY <1>3 DEF WriterCollect, Working, appVars, readerVars
<1>5. /\ n \in 0..t
      /\ SubSeq(toWriter, 1, n) \in Seq(0..m) /\ Len(SubSeq(toWriter, 1, n)) = n
      /\ \A i \in 1..n : SubSeq(toWriter, 1, n)[i] = toWriter[i]
      /\ toWriter' \in Seq(0..m) /\ Len(toWriter') = t - n
      /\ \A i \in 1..t - n : toWriter'[i] = toWriter[n + i]
      /\ \A i \in 1..n - 1 : toWriter[i] # NoRecord
  <2>1. n \in 0..Len(toWriter)
    BY <1>3, <1>1, <1>2, CollectIs
  <2>2. SubSeq(toWriter, 1, n) \in Seq(0..m) /\ Len(SubSeq(toWriter, 1, n)) = n
    BY <1>3, <1>1, <1>2, CollectIs
  <2>3. /\ SubSeq(toWriter, n + 1, Len(toWriter)) \in Seq(0..m)
        /\ Len(SubSeq(toWriter, n + 1, Len(toWriter))) = Len(toWriter) - n
    BY <1>3, <1>1, <1>2, CollectIs
  <2>4. \A i \in 1..n : SubSeq(toWriter, 1, n)[i] = toWriter[i]
    BY <1>3, <1>1, <1>2, CollectIs
  <2>5. \A i \in 1..t - n : toWriter'[i] = toWriter[n + i]
    <3>1. n <= t
      BY <1>3, <1>1, <2>1
    <3>2. toWriter' = SubSeq(toWriter, n + 1, t)
      BY <1>4, <1>1
    <3>3. PICK q, r : q = toWriter /\ r = toWriter'
      OBVIOUS
    <3>4. q \in Seq(0..m) /\ t = Len(q) /\ r = SubSeq(q, n + 1, t)
      BY <1>1, <1>2, <3>2, <3>3
    <3>5. \A i \in 1..t - n : r[i] = q[n + i]
      BY <3>1, <3>4, RestIs
    <3>6. QED
      BY <3>3, <3>5
  <2>6. \A i \in 1..n - 1 : toWriter[i] # NoRecord
    BY <1>3, <1>1, <1>2, CollectIs
  <2>7. QED
    BY <1>4, <1>1, <2>1, <2>2, <2>3, <2>4, <2>5, <2>6
<1>6. PICK k \in Nat : k = n /\ k <= t
  <2>1. n \in Nat
    BY <1>1, <1>5
  <2>2. QED
    BY <1>1, <1>5, <2>1
<1>7. /\ last \in Nat /\ stopAt \in Nat /\ DOMAIN toWriter = 1..t /\ DOMAIN toWriter' = 1..t - k
      /\ Len(toWriter') = t - k /\ \A i \in 1..t - k : toWriter'[i] = toWriter[k + i]
      /\ \A i \in 1..k - 1 : toWriter[i] # NoRecord
  <2>1. DOMAIN toWriter' = 1..t - k
    BY <1>5, <1>6
  <2>2. QED
    BY <1>1, <1>5, <1>6, <2>1, WriterIs
<1>8. /\ Len(batch) = 1 /\ DOMAIN batch = {1} /\ batch[1] = last + 1
      /\ batch[1] # NoRecord
  <2>1. Len(batch) = 1 /\ batch \in Seq(0..recorded)
    BY <1>4 DEF Types, WriterTypes
  <2>2. DOMAIN batch = {1}
    <3>1. DOMAIN batch = 1..1
      BY <2>1, WriterIs
    <3>2. 1..1 = {1}
      OBVIOUS
    <3>3. QED
      BY <3>1, <3>2
  <2>3. batch[1] = last + 1
    BY <1>4, <2>1, <2>2 DEF WriterInv
  <2>4. QED
    BY <1>7, <2>1, <2>2, <2>3, ConstantsAre
<1>9. /\ Len(batch') = 1 + k /\ DOMAIN batch' = 1..1 + k /\ batch' # <<>>
      /\ batch'[1] = last + 1 /\ \A i \in 1..k : batch'[1 + i] = toWriter[i]
  <2>1. PICK b \in Seq(0..m), q \in Seq(0..m) : b = batch /\ q = SubSeq(toWriter, 1, n)
    BY <1>1, <1>5, WriterIs
  <2>2. Len(b) = 1 /\ Len(q) = k /\ batch' = b \o q /\ b[1] = last + 1
    BY <1>4, <1>5, <1>6, <1>8, <2>1
  <2>3. /\ Len(b \o q) = 1 + k /\ DOMAIN (b \o q) = 1..1 + k
        /\ (b \o q)[1] = b[1] /\ \A i \in 1..k : (b \o q)[1 + i] = q[i]
    <3>1. /\ b \o q \in Seq(0..m) /\ Len(b \o q) = Len(b) + Len(q)
          /\ \A i \in 1..Len(b) + Len(q) :
               (b \o q)[i] = IF i <= Len(b) THEN b[i] ELSE q[i - Len(b)]
      BY ConcatProperties
    <3>2. /\ 1 \in 1..1 + k
          /\ \A i \in 1..k : 1 + i \in 1..1 + k /\ ~(1 + i <= 1) /\ (1 + i) - 1 = i
      OBVIOUS
    <3>3. PICK c : c = b \o q
      OBVIOUS
    <3>4. /\ c \in Seq(0..m) /\ Len(c) = 1 + k
          /\ \A i \in 1..1 + k : c[i] = IF i <= 1 THEN b[i] ELSE q[i - 1]
      BY <2>2, <3>1, <3>3
    <3>5. DOMAIN c = 1..1 + k
      BY <3>4
    <3>6. c[1] = b[1]
      BY <3>2, <3>4
    <3>7. \A i \in 1..k : c[1 + i] = q[i]
      BY <3>2, <3>4
    <3>8. QED
      BY <3>3, <3>4, <3>5, <3>6, <3>7
  <2>4. \A i \in 1..k : q[i] = toWriter[i]
    BY <1>5, <1>6, <2>1
  <2>5. batch' # <<>>
    BY <2>2, <2>3
  <2>6. QED
    BY <2>2, <2>3, <2>4, <2>5
<1>10. /\ \A i \in 1..t : toWriter[i] = last + 1 + i \/ Closed(i)
       /\ Closed(t) \/ recorded = last + 1 + t
       /\ Closed(t) <=> reader = "joining"
       /\ \A i \in 1..t : toWriter[i] = NoRecord => stopAt <= last + 1 + i - 1
       /\ reader # "draining"
  BY <1>4, <1>1, <1>7, <1>8 DEF WriterInv
<1>11. \A i : Closed(i) <=> \E j \in 1..i : toWriter[j] = NoRecord
  BY <1>8 DEF Closed
<1>12. batch'[1 + k] = NoRecord <=> k >= 1 /\ toWriter[k] = NoRecord
  <2>1. CASE k = 0
    BY <1>8, <1>9, <2>1
  <2>2. CASE k >= 1
    <3>1. k \in 1..k
      BY <2>2
    <3>2. QED
      BY <1>9, <2>2, <3>1
  <2>3. QED
    BY <2>1, <2>2
<1>13. ASSUME NEW i \in 0..t - k
       PROVE  Closed(i)' <=> Closed(k + i)
  <2>1. Closed(i)' <=> batch'[1 + k] = NoRecord \/ \E j \in 1..i : toWriter'[j] = NoRecord
    BY <1>9 DEF Closed
  <2>2. \A j \in 1..i : j \in 1..t - k /\ k + j \in 1..k + i
    BY <1>6, <1>13
  <2>3. \A j \in 1..k + i : j \in 1..k - 1 \/ (j = k /\ k >= 1) \/ (j - k \in 1..i /\ k + (j - k) = j)
    BY <1>6, <1>13
  <2>4. k >= 1 => k \in 1..k + i
    BY <1>6, <1>13
  <2>5. Closed(i)' => Closed(k + i)
    BY <1>7, <1>11, <1>12, <2>1, <2>2, <2>4
  <2>6. Closed(k + i) => Closed(i)'
    <3>1. SUFFICES ASSUME NEW j \in 1..k + i, toWriter[j] = NoRecord
                   PROVE  Closed(i)'
      BY <1>11
    <3>2. CASE j \in 1..k - 1
      BY <1>7, <3>1, <3>2
    <3>3. CASE j = k /\ k >= 1
      BY <1>12, <2>1, <3>1, <3>3
    <3>4. CASE j - k \in 1..i /\ k + (j - k) = j
      <4>1. j - k \in 1..t - k
        BY <2>2, <3>4
      <4>2. toWriter'[j - k] = toWriter[k + (j - k)]
        BY <1>7, <4>1
      <4>3. QED
        BY <2>1, <3>1, <3>4, <4>2
    <3>5. QED
      BY <2>3, <3>1, <3>2, <3>3, <3>4
  <2>7. QED
    BY <2>5, <2>6
<1>14. ASSUME NEW i \in 1..1 + k
       PROVE  batch'[i] = last + i \/ (batch'[i] = NoRecord /\ i = 1 + k /\ i > 1)
  <2>1. CASE i = 1
    BY <1>9, <2>1
  <2>2. CASE i # 1
    <3>1. PICK j \in 1..k : i = 1 + j
      <4>1. i - 1 \in 1..k /\ i = 1 + (i - 1)
        BY <1>6, <1>14, <2>2
      <4>2. QED
        BY <4>1
    <3>2. batch'[i] = toWriter[j] /\ j \in 1..t /\ j \in Nat
      BY <1>6, <1>9, <3>1
    <3>3. toWriter[j] = last + 1 + j \/ Closed(j)
      BY <1>10, <3>2
    <3>4. Closed(j) => toWriter[j] = NoRecord /\ j = k
      <4>1. \A h \in 1..j : h \in 1..k - 1 \/ (h = j /\ j = k)
        BY <1>6, <3>1
      <4>2. QED
        BY <1>7, <1>11, <4>1
    <3>5. last + 1 + j = last + i /\ i > 1
      BY <1>7, <3>1, <3>2
    <3>6. QED
      BY <3>1, <3>2, <3>3, <3>4, <3>5
  <2>3. QED
    BY <2>1, <2>2
<1>15. ASSUME NEW i \in 1..t - k
       PROVE  /\ toWriter'[i] = last + (1 + k) + i \/ Closed(i)'
              /\ toWriter'[i] = NoRecord => stopAt <= last + (1 + k) + i - 1
  <2>1. k + i \in 1..t /\ i \in 0..t - k /\ i \in Nat
    BY <1>6, <1>15
  <2>2. toWriter'[i] = toWriter[k + i]
    BY <1>7, <1>15
  <2>3. /\ toWriter[k + i] = last + 1 + (k + i) \/ Closed(k + i)
        /\ toWriter[k + i] = NoRecord => stopAt <= last + 1 + (k + i) - 1
    BY <1>10, <2>1
  <2>4. last + 1 + (k + i) = last + (1 + k) + i
    BY <1>7, <2>1
  <2>5. Closed(k + i) => Closed(i)'
    BY <1>13, <2>1
  <2>6. last + 1 + (k + i) - 1 = last + (1 + k) + i - 1
    BY <1>7, <2>1
  <2>7. QED
    BY <2>2, <2>3, <2>4, <2>5, <2>6
<1>16. Closed(t - k)' <=> Closed(t)
  <2>1. t - k \in 0..t - k /\ k + (t - k) = t
    BY <1>6
  <2>2. QED
    BY <1>13, <2>1
<1>17. Closed(t - k)' \/ recorded' = last + (1 + k) + (t - k)
  BY <1>4, <1>7, <1>10, <1>16
<1>18. batch'[1 + k] = NoRecord => stopAt <= last + (1 + k) - 1
  <2>1. k >= 1 => k \in 1..t
    BY <1>6
  <2>2. QED
    BY <1>7, <1>10, <1>12, <2>1
<1>19. QED
  BY <1>4, <1>7, <1>9, <1>10, <1>14, <1>15, <1>16, <1>17, <1>18 DEF WriterInv

\* The writer writes a batch.
LEMMA WriterWrites ==
  ASSUME Types, WriterInv, WriterWrite
  PROVE  WriterInv'
<1>1. /\ writer = "writing" /\ Working /\ recorded' = recorded /\ stopAt' = stopAt
      /\ reader' = reader
  BY DEF WriterWrite, Working, appVars, readerVars
<1>2. /\ batch # <<>> /\ batch' = <<>> /\ Len(batch') = 0 /\ DOMAIN batch' = {}
      /\ toWriter' = toWriter
  <2>1. batch # <<>> /\ batch' = <<>> /\ toWriter' = toWriter
    BY WriteIs DEF Types
  <2>2. QED
    BY <2>1
<1>3. PICK b \in Nat, t \in Nat : b = Len(batch) /\ t = Len(toWriter)
  BY WriterIs
<1>4. /\ last \in Nat /\ stopAt \in Nat /\ DOMAIN toWriter = 1..t
      /\ \A i \in 1..t : toWriter[i] = last + b + i \/ Closed(i)
      /\ Closed(t) \/ recorded = last + b + t
      /\ Closed(t) <=> reader = "joining"
      /\ batch[b] = NoRecord => stopAt <= last + b - 1
      /\ \A i \in 1..t : toWriter[i] = NoRecord => stopAt <= last + b + i - 1
      /\ reader # "draining"
  BY <1>1, <1>2, <1>3, WriterIs DEF WriterInv
<1>5. \/ reader = "failed" /\ writer' = "failed" /\ last' = last
      \/ /\ reader # "failed" /\ writer' = IF IsClose \/ ReaderGone THEN "ended" ELSE "idle"
         /\ IsClose <=> batch[b] = NoRecord
         /\ last' = IF IsClose THEN last + b - 1 ELSE last + b
  BY <1>3, WriteIs DEF Types
<1>6. CASE reader = "failed"
  BY <1>1, <1>5, <1>6 DEF WriterInv, Working
<1>7. CASE reader # "failed" /\ IsClose
  <2>1. writer' = "ended" /\ ~Working' /\ last' = last + b - 1 /\ batch[b] = NoRecord
    BY <1>5, <1>7 DEF Working
  <2>2. QED
    BY <1>1, <1>4, <2>1 DEF WriterInv
<1>8. CASE reader = "ended" /\ ~IsClose
  <2>1. writer' = "ended" /\ ~Working'
    BY <1>5, <1>8 DEF Working, ReaderGone
  <2>2. QED
    BY <1>1, <1>8, <2>1 DEF WriterInv
<1>9. CASE ~ReaderGone /\ ~IsClose
  <2>1. writer' = "idle" /\ Working' /\ last' = last + b /\ batch[b] # NoRecord
    BY <1>5, <1>9 DEF Working, ReaderGone
  <2>2. \A i : Closed(i)' <=> Closed(i)
    BY <1>2, <1>3, <2>1 DEF Closed
  <2>3. /\ \A i \in 1..t : toWriter[i] = last' + 0 + i \/ Closed(i)'
        /\ Closed(t)' \/ recorded = last' + 0 + t
        /\ Closed(t)' <=> reader = "joining"
        /\ \A i \in 1..t : toWriter[i] = NoRecord => stopAt <= last' + 0 + i - 1
    BY <1>3, <1>4, <2>1, <2>2
  <2>4. QED
    BY <1>1, <1>2, <1>3, <1>4, <2>1, <2>3 DEF WriterInv
<1>10. QED
  BY <1>6, <1>7, <1>8, <1>9 DEF ReaderGone

\* Every step keeps the records that the file lacks in order.
LEMMA WriterStep ==
  ASSUME Types, WriterInv, StopInv, Next
  PROVE  WriterInv'
<1>1. CASE OnMsg
  <2>1. /\ toWriter' = Append(toWriter, recorded + 1) /\ UNCHANGED writerVars
        /\ recorded' = recorded + 1 /\ stopAt' = stopAt /\ reader' = reader
    BY <1>1 DEF OnMsg, readerVars
  <2>2. CASE Working
    BY <2>1, <2>2, WriterAppend
  <2>3. CASE ~Working
    BY <2>1, <2>3 DEF WriterInv, Working, writerVars
  <2>4. QED
    BY <2>2, <2>3
<1>2. CASE NormalStop
  <2>1. /\ toWriter' = toWriter /\ UNCHANGED writerVars /\ recorded' = recorded
        /\ reader' = reader /\ stopAt = Running
    BY <1>2 DEF NormalStop, readerVars
  <2>2. reader \notin {"joining", "draining"}
    BY <2>1 DEF StopInv, Ending
  <2>3. QED
    BY <2>1, <2>2, WriterStays
<1>3. CASE WriterRecv
  BY <1>3, WriterTakes
<1>4. CASE WriterCollect
  BY <1>4, WriterCollects
<1>5. CASE WriterWrite
  BY <1>5, WriterWrites
<1>6. CASE ReaderClose
  <2>1. /\ UNCHANGED writerVars /\ recorded' = recorded /\ stopAt' = stopAt /\ reader = "idle"
        /\ recordMsgs # <<>> /\ Head(recordMsgs).type = "Close"
        /\ \/ writer \in {"ended", "failed"} /\ reader' = "failed" /\ toWriter' = toWriter
           \/ /\ writer \notin {"ended", "failed"}
              /\ reader' = "joining" /\ toWriter' = Append(toWriter, NoRecord)
    BY <1>6 DEF ReaderClose, ReaderRecv, appVars
  <2>2. stopAt <= recorded
    <3>1. recordMsgs[1].type = "Close" /\ 1 \in DOMAIN recordMsgs
      BY <2>1, TailIs DEF Types, ReaderTypes
    <3>2. Has(recordMsgs, "Close")
      BY <3>1 DEF Has
    <3>3. QED
      BY <3>2, WriterIs DEF StopInv
  <2>3. CASE writer \in {"ended", "failed"}
    BY <2>1, <2>3, WriterStays
  <2>4. CASE writer \notin {"ended", "failed"}
    <3>1. Working
      BY <2>4 DEF Working, Types, WriterTypes
    <3>2. QED
      BY <2>1, <2>2, <2>4, <3>1, WriterAppend
  <2>5. QED
    BY <2>3, <2>4
<1>7. CASE ReaderJoins
  <2>1. /\ UNCHANGED writerVars /\ stopAt' = stopAt /\ reader = "joining" /\ ~Working
        /\ reader' = IF writer = "ended" THEN "draining" ELSE "failed"
    BY <1>7 DEF ReaderJoins, appVars, Working
  <2>2. ~Working' /\ writer' = writer /\ last' = last
    BY <2>1 DEF Working, writerVars
  <2>3. QED
    BY <2>1, <2>2 DEF WriterInv
<1>8. CASE /\ UNCHANGED appVars /\ UNCHANGED <<toWriter, writerVars>>
           /\ ~ReaderClose /\ ~ReaderJoins
  <2>1. /\ reader' = "joining" <=> reader = "joining"
        /\ reader' = "draining" => reader = "draining"
        /\ reader = "failed" => reader' = "failed"
    <3>1. CASE ReaderNewRecord
      BY <3>1 DEF ReaderNewRecord, ReaderRecv
    <3>2. CASE ReaderReConnect
      BY <3>2 DEF ReaderReConnect
    <3>3. CASE ReaderAwaits
      BY <3>3 DEF ReaderAwaits
    <3>4. CASE ReaderSend
      BY <3>4 DEF ReaderSend, Types, ReaderTypes
    <3>5. CASE ReaderIgnores
      BY <3>5 DEF ReaderIgnores, readerVars
    <3>6. CASE ReaderEnds
      BY <3>6 DEF ReaderEnds
    <3>7. CASE reader' = reader
      BY <3>7
    <3>8. CASE WriterWrite \/ StreamClose \/ MainReplyFails
      BY <3>8 DEF WriterWrite, StreamClose, MainReplyFails, readerVars
    <3>9. QED
      BY <1>8, <3>1, <3>2, <3>3, <3>4, <3>5, <3>6, <3>7, <3>8, Frames DEF readerVars
  <2>2. /\ toWriter' = toWriter /\ UNCHANGED writerVars /\ recorded' = recorded
        /\ stopAt' = stopAt
    BY <1>8 DEF appVars
  <2>3. QED
    BY <2>1, <2>2, WriterStays
<1>9. QED
  BY <1>1, <1>2, <1>3, <1>4, <1>5, <1>6, <1>7, <1>8, Frames

\* What there is in a sequence of messages with one more at its end.
LEMMA HasAppend ==
  ASSUME NEW S, NEW q \in Seq(S), NEW m \in S
  PROVE  /\ \A y : Has(Append(q, m), y) <=> Has(q, y) \/ m.type = y
         /\ \A y : Once(q, y) /\ ~(Has(q, y) /\ m.type = y) => Once(Append(q, m), y)
         /\ Comes(Append(q, m)) <=> Comes(q) \/ (m.type = "AppStart" /\ m.reconnect)
<1>1. PICK n \in Nat : n = Len(q)
  BY AppendIs
<1>2. PICK r : r = Append(q, m)
  OBVIOUS
<1>3. /\ DOMAIN q = 1..n /\ DOMAIN r = 1..n + 1 /\ \A i \in 1..n : r[i] = q[i]
      /\ r[n + 1] = m
  BY <1>1, <1>2, AppendIs
<1>4. n + 1 \in 1..n + 1 /\ \A i \in 1..n + 1 : i \in 1..n \/ i = n + 1
  OBVIOUS
<1>5. \A i \in 1..n : i \in 1..n + 1
  OBVIOUS
<1>6. ASSUME NEW y
      PROVE  Has(r, y) <=> Has(q, y) \/ m.type = y
  BY <1>3, <1>4, <1>5 DEF Has
<1>7. ASSUME NEW y, Once(q, y), ~(Has(q, y) /\ m.type = y)
      PROVE  Once(r, y)
  <2>1. SUFFICES ASSUME NEW i \in 1..n + 1, NEW j \in 1..n + 1, r[i].type = y, r[j].type = y
                 PROVE  i = j
    BY <1>3 DEF Once
  <2>2. i \in 1..n /\ j \in 1..n => i = j
    BY <1>3, <1>7, <2>1 DEF Once
  <2>3. i \in 1..n /\ j = n + 1 => FALSE
    BY <1>3, <1>7, <2>1 DEF Has
  <2>4. j \in 1..n /\ i = n + 1 => FALSE
    BY <1>3, <1>7, <2>1 DEF Has
  <2>5. QED
    BY <1>4, <2>2, <2>3, <2>4
<1>8. Comes(r) <=> Comes(q) \/ (m.type = "AppStart" /\ m.reconnect)
  BY <1>3, <1>4, <1>5 DEF Comes
<1>9. QED
  BY <1>6, <1>7, <1>8, <1>2

\* What is in a sequence of messages without its first.
LEMMA HasTail ==
  ASSUME NEW S, NEW q \in Seq(S), q # <<>>
  PROVE  /\ \A y : Has(q, y) <=> Head(q).type = y \/ Has(Tail(q), y)
         /\ \A y : Once(q, y) =>
                     Once(Tail(q), y) /\ ~(Head(q).type = y /\ Has(Tail(q), y))
         /\ Comes(q) <=> (Head(q).type = "AppStart" /\ Head(q).reconnect) \/ Comes(Tail(q))
<1>1. PICK n \in Nat : n = Len(q)
  BY TailIs
<1>2. PICK r : r = Tail(q)
  OBVIOUS
<1>3. /\ n >= 1 /\ DOMAIN q = 1..n /\ DOMAIN r = 1..n - 1
      /\ \A i \in 1..n - 1 : r[i] = q[i + 1]
      /\ Head(q) = q[1]
  BY <1>1, <1>2, TailIs
<1>4. 1 \in 1..n /\ \A i \in 1..n - 1 : i + 1 \in 1..n /\ i + 1 # 1
  BY <1>3
<1>5. ASSUME NEW i \in 1..n
      PROVE  i = 1 \/ \E j \in 1..n - 1 : i = j + 1
  <2>1. i # 1 => i - 1 \in 1..n - 1 /\ i = (i - 1) + 1
    BY <1>3
  <2>2. QED
    BY <2>1
<1>6. ASSUME NEW y
      PROVE  Has(q, y) <=> Head(q).type = y \/ Has(r, y)
  <2>1. Has(r, y) => Has(q, y)
    BY <1>3, <1>4 DEF Has
  <2>2. Head(q).type = y => Has(q, y)
    BY <1>3, <1>4 DEF Has
  <2>3. ASSUME NEW i \in 1..n, q[i].type = y
        PROVE  Head(q).type = y \/ Has(r, y)
    <3>1. CASE i = 1
      BY <1>3, <2>3, <3>1
    <3>2. CASE \E j \in 1..n - 1 : i = j + 1
      BY <1>3, <2>3, <3>2 DEF Has
    <3>3. QED
      BY <1>5, <3>1, <3>2
  <2>4. QED
    BY <1>3, <2>1, <2>2, <2>3 DEF Has
<1>7. ASSUME NEW y, Once(q, y)
      PROVE  Once(r, y) /\ ~(Head(q).type = y /\ Has(r, y))
  <2>1. ASSUME NEW i \in 1..n - 1, NEW j \in 1..n - 1, r[i].type = y, r[j].type = y
        PROVE  i = j
    <3>1. i + 1 = j + 1
      BY <1>3, <1>4, <1>7, <2>1 DEF Once
    <3>2. QED
      BY <1>3, <3>1
  <2>2. ASSUME Head(q).type = y, NEW i \in 1..n - 1, r[i].type = y
        PROVE  FALSE
    BY <1>3, <1>4, <1>7, <2>2 DEF Once
  <2>3. QED
    BY <1>3, <2>1, <2>2 DEF Once, Has
<1>8. Comes(q) <=> (Head(q).type = "AppStart" /\ Head(q).reconnect) \/ Comes(r)
  <2>1. Comes(r) => Comes(q)
    BY <1>3, <1>4 DEF Comes
  <2>2. Head(q).type = "AppStart" /\ Head(q).reconnect => Comes(q)
    BY <1>3, <1>4 DEF Comes
  <2>3. ASSUME NEW i \in 1..n, q[i].type = "AppStart", q[i].reconnect
        PROVE  (Head(q).type = "AppStart" /\ Head(q).reconnect) \/ Comes(r)
    <3>1. CASE i = 1
      BY <1>3, <2>3, <3>1
    <3>2. CASE \E j \in 1..n - 1 : i = j + 1
      BY <1>3, <2>3, <3>2 DEF Comes
    <3>3. QED
      BY <1>5, <3>1, <3>2
  <2>4. QED
    BY <1>3, <2>1, <2>2, <2>3 DEF Comes
<1>9. QED
  BY <1>6, <1>7, <1>8, <1>2

\* The empty sequence has no message.
LEMMA HasNone ==
  /\ \A y : ~Has(<<>>, y) /\ Once(<<>>, y)
  /\ ~Comes(<<>>)
  /\ \A q : Comes(q) => Has(q, "AppStart")
<1>1. DOMAIN <<>> = {}
  OBVIOUS
<1>2. QED
  BY <1>1 DEF Has, Once, Comes

\* The message that the queue gives, and what remains.
LEMMA QueueGives ==
  ASSUME Types, msgs # <<>>
  PROVE  /\ Head(msgs) \in RecordParam /\ Tail(msgs) \in Seq(RecordParam)
         /\ \A y : Has(msgs, y) <=> Head(msgs).type = y \/ Has(Tail(msgs), y)
         /\ \A y : Once(msgs, y) =>
                     Once(Tail(msgs), y) /\ ~(Head(msgs).type = y /\ Has(Tail(msgs), y))
         /\ Comes(msgs) <=> (Head(msgs).type = "AppStart" /\ Head(msgs).reconnect)
                              \/ Comes(Tail(msgs))
BY TailIs, HasTail DEF Types, StreamTypes

\* What is on the wire without its first message.
LEMMA WireGives ==
  ASSUME Types, wire # <<>>
  PROVE  /\ Head(wire) \in RecordParam /\ Tail(wire) \in Seq(RecordParam)
         /\ \A y : Has(wire, y) <=> Head(wire).type = y \/ Has(Tail(wire), y)
         /\ \A y : Once(wire, y) =>
                     Once(Tail(wire), y) /\ ~(Head(wire).type = y /\ Has(Tail(wire), y))
         /\ Comes(wire) <=> (Head(wire).type = "AppStart" /\ Head(wire).reconnect)
                              \/ Comes(Tail(wire))
BY TailIs, HasTail DEF Types, StreamTypes

\* What is in the queue with one more message at its end.
LEMMA QueueTakes ==
  ASSUME Types, NEW m \in RecordParam
  PROVE  /\ \A y : Has(Append(msgs, m), y) <=> Has(msgs, y) \/ m.type = y
         /\ \A y : Once(msgs, y) /\ ~(Has(msgs, y) /\ m.type = y) => Once(Append(msgs, m), y)
         /\ Comes(Append(msgs, m)) <=> Comes(msgs) \/ (m.type = "AppStart" /\ m.reconnect)
BY HasAppend DEF Types, StreamTypes

\* What is on the wire with one more message at its end.
LEMMA WireTakes ==
  ASSUME Types, NEW m \in RecordParam
  PROVE  /\ \A y : Has(Append(wire, m), y) <=> Has(wire, y) \/ m.type = y
         /\ \A y : Once(wire, y) /\ ~(Has(wire, y) /\ m.type = y) => Once(Append(wire, m), y)
         /\ Comes(Append(wire, m)) <=> Comes(wire) \/ (m.type = "AppStart" /\ m.reconnect)
BY HasAppend DEF Types, StreamTypes

\* A message goes from the queue onto the wire.
LEMMA StartMoves ==
  ASSUME Types, StartInv, msgs # <<>>, msgs' = Tail(msgs), wire' = Append(wire, Head(msgs)),
         UNCHANGED <<main, replySender, server, replies>>
  PROVE  StartInv'
<1>1. PICK m \in RecordParam : m = Head(msgs)
  BY QueueGives
<1>2. /\ Has(msgs, "AppStart") <=> m.type = "AppStart" \/ Has(msgs', "AppStart")
      /\ Once(msgs', "AppStart") /\ ~(m.type = "AppStart" /\ Has(msgs', "AppStart"))
      /\ Comes(msgs) <=> (m.type = "AppStart" /\ m.reconnect) \/ Comes(msgs')
  BY <1>1, QueueGives DEF StartInv
<1>3. /\ Has(wire', "AppStart") <=> Has(wire, "AppStart") \/ m.type = "AppStart"
      /\ Comes(wire') <=> Comes(wire) \/ (m.type = "AppStart" /\ m.reconnect)
  BY <1>1, WireTakes
<1>4. Once(wire', "AppStart")
  <2>1. Once(wire, "AppStart") /\ ~(Has(wire, "AppStart") /\ m.type = "AppStart")
    BY <1>2 DEF StartInv
  <2>2. QED
    BY <1>1, <2>1, WireTakes
<1>5. QED
  BY <1>2, <1>3, <1>4 DEF StartInv, Expects, Called

\* Every step keeps the reconnect_sender with the AppStart that it belongs to.
LEMMA StartStep ==
  ASSUME Types, StartInv, Next
  PROVE  StartInv'
<1> USE DEF Called, Expects
<1>1. CASE NormalStop
  <2>1. /\ msgs' = msgs \/ msgs' = Append(msgs, AppStop)
        /\ UNCHANGED <<stream, wire, main, replySender, server, replies>>
    BY <1>1 DEF NormalStop, mainVars, netVars
  <2>2. /\ Has(msgs', "AppStart") <=> Has(msgs, "AppStart")
        /\ Comes(msgs') <=> Comes(msgs)
        /\ Once(msgs', "AppStart")
    <3>1. Once(msgs, "AppStart")
      BY DEF StartInv
    <3>2. AppStop \in RecordParam /\ AppStop.type = "AppStop"
      BY MessageIs
    <3>3. /\ Has(Append(msgs, AppStop), "AppStart") <=> Has(msgs, "AppStart")
          /\ Comes(Append(msgs, AppStop)) <=> Comes(msgs)
          /\ Once(Append(msgs, AppStop), "AppStart")
      BY <3>1, <3>2, QueueTakes
    <3>4. QED
      BY <2>1, <3>1, <3>3
  <2>3. QED
    BY <2>1, <2>2 DEF StartInv
<1>2. CASE ReaderSend
  <2>1. /\ \/ msgs' = msgs
           \/ Head(toSend) \in Indices /\ msgs' = Append(msgs, Record(Head(toSend)))
        /\ UNCHANGED <<stream, wire, main, replySender, server, replies>>
    BY <1>2, TailIs DEF ReaderSend, mainVars, netVars, Types, ReaderTypes
  <2>2. /\ Has(msgs', "AppStart") <=> Has(msgs, "AppStart")
        /\ Comes(msgs') <=> Comes(msgs)
        /\ Once(msgs', "AppStart")
    <3>1. Once(msgs, "AppStart")
      BY DEF StartInv
    <3>2. ASSUME NEW m, m = Record(Head(toSend)), Head(toSend) \in Indices
          PROVE  /\ Has(Append(msgs, m), "AppStart") <=> Has(msgs, "AppStart")
                 /\ Comes(Append(msgs, m)) <=> Comes(msgs)
                 /\ Once(Append(msgs, m), "AppStart")
      <4>1. m \in RecordParam /\ m.type = "Record"
        BY <3>2, MessageIs
      <4>2. QED
        BY <3>1, <4>1, QueueTakes
    <3>3. QED
      BY <2>1, <3>1, <3>2
  <2>3. QED
    BY <2>1, <2>2 DEF StartInv
<1>3. CASE StreamRecv
  <2>1. /\ msgs # <<>> /\ msgs' = Tail(msgs)
        /\ \/ Head(msgs) = AppStop /\ wire' = wire
           \/ Head(msgs) # AppStop /\ wire' = Append(wire, Head(msgs))
        /\ UNCHANGED <<main, replySender, server, replies>>
    BY <1>3 DEF StreamRecv, mainVars
  <2>2. Head(msgs) = AppStop => Head(msgs).type = "AppStop"
    BY MessageIs
  <2>3. CASE wire' = wire
    BY <2>1, <2>2, <2>3, QueueGives DEF StartInv
  <2>4. CASE wire' = Append(wire, Head(msgs))
    BY <2>1, <2>4, StartMoves
  <2>5. QED
    BY <2>1, <2>3, <2>4
<1>4. CASE StreamClose
  <2>1. /\ wire' = wire \/ wire' = <<>>
        /\ UNCHANGED <<msgs, main, replySender, server, replies>>
    BY <1>4 DEF StreamClose, mainVars, netVars
  <2>2. QED
    BY <2>1, HasNone DEF StartInv
<1>5. CASE StreamDrain
  <2>1. /\ \/ msgs = <<>> /\ msgs' = msgs /\ wire' = Append(wire, AppStop)
           \/ msgs # <<>> /\ msgs' = Tail(msgs) /\ wire' = Append(wire, Head(msgs))
        /\ UNCHANGED <<main, replySender, server, replies>>
    BY <1>5 DEF StreamDrain, mainVars
  <2>2. CASE msgs' = msgs /\ wire' = Append(wire, AppStop)
    <3>1. AppStop \in RecordParam /\ AppStop.type = "AppStop"
      BY MessageIs
    <3>2. Once(wire, "AppStart")
      BY DEF StartInv
    <3>3. /\ Has(wire', "AppStart") <=> Has(wire, "AppStart")
          /\ Comes(wire') <=> Comes(wire)
          /\ Once(wire', "AppStart")
      BY <2>2, <3>1, <3>2, WireTakes
    <3>4. QED
      BY <2>1, <2>2, <3>3 DEF StartInv
  <2>3. CASE msgs # <<>> /\ msgs' = Tail(msgs) /\ wire' = Append(wire, Head(msgs))
    BY <2>1, <2>3, StartMoves
  <2>4. QED
    BY <2>1, <2>2, <2>3
<1>6. CASE ServerFirst
  <2>1. /\ wire # <<>> /\ wire' = Tail(wire) /\ server = "new" /\ Called
        /\ server' = IF Head(wire).type # "AppStart" THEN "panicked"
                     ELSE IF Head(wire).reconnect THEN "querying" ELSE "serving"
        /\ UNCHANGED <<msgs, main, replySender, replies>>
    BY <1>6 DEF ServerFirst, ServerTakes, mainVars
  <2>2. QED
    BY <2>1, WireGives DEF StartInv
<1>7. CASE ServerReplies
  BY <1>7 DEF ServerReplies, StartInv, mainVars
<1>8. CASE ServerServes
  <2>1. /\ wire # <<>> /\ wire' = Tail(wire) /\ server = "serving"
        /\ server' \in {"serving", "stopped"}
        /\ UNCHANGED <<msgs, main, replySender, replies>>
    BY <1>8 DEF ServerServes, ServerTakes, mainVars
  <2>2. QED
    BY <2>1, WireGives DEF StartInv
<1>9. CASE ServerGivesUp
  BY <1>9 DEF ServerGivesUp, StartInv, mainVars
<1>10. CASE Break
  <2>1. /\ wire' = <<>> /\ replies' = <<>>
        /\ UNCHANGED <<msgs, main, replySender, server>>
    BY <1>10 DEF Break
  <2>2. QED
    BY <2>1, HasNone DEF StartInv
<1>11. CASE MainServed
  BY <1>11 DEF MainServed, StartInv, netVars
<1>12. CASE MainCallFails
  <2>1. /\ main' = "calling" /\ server' = "new" /\ wire' = <<>> /\ replies' = <<>>
        /\ UNCHANGED <<msgs, replySender>>
    BY <1>12 DEF MainCallFails, Call
  <2>2. QED
    BY <2>1, HasNone DEF StartInv
<1>13. CASE MainReply
  <2>1. replySender /\ server \in {"serving", "stopped", "gone"} /\ main = "serving"
    <3>1. main = "serving" /\ replies # <<>>
      BY <1>13 DEF MainReply
    <3>2. Called /\ (server = "querying" \/ replies # <<>>)
      BY <3>1
    <3>3. replySender
      BY <3>2 DEF StartInv
    <3>4. server \in {"serving", "stopped", "gone"}
      BY <3>1 DEF StartInv
    <3>5. QED
      BY <3>1, <3>3, <3>4
  <2>2. /\ replies' = Tail(replies) /\ UNCHANGED <<wire, server>>
        /\ \/ main' = main /\ msgs' = msgs
           \/ main' = "returned" /\ msgs' = <<>>
    BY <1>13, <2>1 DEF MainReply, Return
  <2>3. replies' = <<>>
    <3>1. replies \in Seq(Nat) /\ Len(replies) <= 1 /\ replies # <<>>
      BY <1>13 DEF MainReply, Types, ServerTypes
    <3>2. Tail(replies) = <<>>
      BY <3>1
    <3>3. QED
      BY <2>2, <3>2
  <2>4. ~Has(msgs, "AppStart") /\ ~Has(wire, "AppStart")
    BY <2>1 DEF StartInv
  <2>5. ~Comes(msgs') /\ ~Comes(wire') /\ ~Has(msgs', "AppStart") /\ ~Has(wire', "AppStart")
    BY <2>2, <2>4, HasNone
  <2>6. Once(msgs', "AppStart") /\ Once(wire', "AppStart")
    BY <2>2, HasNone DEF StartInv
  <2>7. QED
    BY <2>1, <2>2, <2>3, <2>5, <2>6 DEF StartInv
<1>14. CASE MainStreamEnds
  <2>1. /\ main' = "returned" /\ msgs' = <<>> /\ UNCHANGED <<wire, server, replies>>
        /\ server \in {"stopped", "gone"}
    BY <1>14 DEF MainStreamEnds, Return, netVars
  <2>2. QED
    BY <2>1, HasNone DEF StartInv
<1>15. CASE MainReplyFails
  <2>1. /\ UNCHANGED <<wire, server, replies>> /\ main = "serving"
        /\ \/ main' = "returned" /\ msgs' = <<>>
           \/ main' = "draining" /\ msgs' = msgs /\ replySender'
    BY <1>15 DEF MainReplyFails, Return, netVars
  <2>2. QED
    BY <2>1, HasNone DEF StartInv
<1>16. CASE MainDrain
  <2>1. /\ main = "draining" /\ main' = "restarting" /\ msgs' = <<>>
        /\ UNCHANGED <<wire, server, replies, replySender>>
    BY <1>16 DEF MainDrain, netVars
  <2>2. QED
    BY <2>1, HasNone DEF StartInv
<1>17. CASE MainRestart
  <2>1. /\ main = "restarting" /\ msgs' = Append(msgs, AppStart(TRUE))
        /\ main' = "calling" /\ server' = "new" /\ wire' = <<>> /\ replies' = <<>>
        /\ replySender' = replySender
    BY <1>17 DEF MainRestart, Call
  <2>2. replySender /\ ~Has(msgs, "AppStart") /\ Once(msgs, "AppStart")
    <3>1. replySender
      <4>1. main \in {"draining", "restarting"}
        BY <2>1
      <4>2. QED
        BY <4>1 DEF StartInv
    <3>2. server \in {"serving", "stopped", "gone"}
      BY <2>1 DEF StartInv
    <3>3. QED
      BY <3>1, <3>2 DEF StartInv
  <2>3. Once(msgs', "AppStart")
    BY <2>1, <2>2, MessageIs, QueueTakes
  <2>4. QED
    BY <2>1, <2>2, <2>3, HasNone DEF StartInv
<1>18. CASE UNCHANGED <<msgs, stream, wire>> /\ UNCHANGED <<mainVars, conn>>
            /\ UNCHANGED <<server, replies, received>>
  BY <1>18 DEF StartInv, mainVars
<1>19. QED
  BY <1>1, <1>2, <1>3, <1>4, <1>5, <1>6, <1>7, <1>8, <1>9, <1>10, <1>11, <1>12, <1>13,
     <1>14, <1>15, <1>16, <1>17, <1>18, Frames

\* What the reader is told with one more message at its end.
LEMMA ReaderTakes ==
  ASSUME Types, NEW m \in RecordMsg
  PROVE  /\ \A y : Has(Append(recordMsgs, m), y) <=> Has(recordMsgs, y) \/ m.type = y
         /\ \A y : Once(recordMsgs, y) /\ ~(Has(recordMsgs, y) /\ m.type = y)
                     => Once(Append(recordMsgs, m), y)
BY HasAppend DEF Types, ReaderTypes

\* What the reader is told without the first of it.
LEMMA ReaderGives ==
  ASSUME Types, recordMsgs # <<>>
  PROVE  /\ Head(recordMsgs) \in RecordMsg
         /\ \A y : Has(recordMsgs, y) <=> Head(recordMsgs).type = y \/ Has(Tail(recordMsgs), y)
         /\ \A y : Once(recordMsgs, y) =>
                     /\ Once(Tail(recordMsgs), y)
                     /\ ~(Head(recordMsgs).type = y /\ Has(Tail(recordMsgs), y))
BY TailIs, HasTail DEF Types, ReaderTypes

\* What a step takes from where AppStop is, and brings nowhere else.
LEMMA StopStays ==
  ASSUME StopInv,
         Has(msgs', "AppStop") => Has(msgs, "AppStop"), Once(msgs', "AppStop"),
         Has(recordMsgs', "Close") => Has(recordMsgs, "Close"), Once(recordMsgs', "Close"),
         stream' = "stopping" => stream = "stopping",
         Ending' => Ending, stopAt' = stopAt,
         stream' = "failed" => stream = "failed", reader = "failed" => reader' = "failed"
  PROVE  StopInv'
BY DEF StopInv

\* Every step keeps the one AppStop, or what it has become, ahead of the reader's end.
LEMMA StopStep ==
  ASSUME Types, WriterInv, StopInv, Next
  PROVE  StopInv'
<1>1. Once(msgs, "AppStop") /\ Once(recordMsgs, "Close")
  BY DEF StopInv
<1>2. reader = "failed" /\ UNCHANGED reader => reader' = "failed"
  OBVIOUS
<1>3. main = "returned" => main' = "returned"
  BY Frames DEF MainServed, MainCallFails, MainReply, MainStreamEnds, MainReplyFails, MainDrain,
                MainRestart, Return, Call, StreamClose, Break, mainVars, Called, Polled
<1>4. CASE NormalStop
  <2>1. /\ stopAt = Running /\ stopAt' = recorded
        /\ msgs' = msgs \/ msgs' = Append(msgs, AppStop)
        /\ UNCHANGED <<recordMsgs, reader, stream, main>>
    BY <1>4 DEF NormalStop, readerVars, mainVars
  <2>2. ~Has(msgs, "AppStop") /\ stream # "stopping" /\ ~Has(recordMsgs, "Close") /\ ~Ending
    BY <2>1 DEF StopInv
  <2>3. AppStop \in RecordParam /\ AppStop.type = "AppStop"
    BY MessageIs
  <2>4. Once(Append(msgs, AppStop), "AppStop")
    BY <1>1, <2>2, <2>3, QueueTakes
  <2>5. stopAt' # Running
    BY <2>1, ConstantsAre DEF Types, AppTypes
  <2>6. Ending' <=> Ending
    BY <2>1 DEF Ending
  <2>7. Once(msgs', "AppStop")
    BY <1>1, <2>1, <2>4
  <2>8. QED
    BY <2>1, <2>2, <2>5, <2>6, <2>7 DEF StopInv
<1>5. CASE WriterWrite
  <2>1. /\ UNCHANGED <<msgs, reader, stream, main, stopAt>>
        /\ recordMsgs' = recordMsgs \/ recordMsgs' = Append(recordMsgs, NewRecord(batch[1]))
    BY <1>5 DEF WriterWrite, readerVars, mainVars, appVars
  <2>2. batch[1] \in Indices
    BY <1>5, WriteIs DEF Types
  <2>3. PICK m \in RecordMsg : m = NewRecord(batch[1]) /\ m.type = "NewRecord"
    BY <2>2, RecordMsgIs
  <2>4. /\ Has(Append(recordMsgs, m), "Close") => Has(recordMsgs, "Close")
        /\ Once(Append(recordMsgs, m), "Close")
    BY <1>1, <2>3, ReaderTakes
  <2>5. /\ Has(recordMsgs', "Close") => Has(recordMsgs, "Close")
        /\ Once(recordMsgs', "Close")
    BY <1>1, <2>1, <2>3, <2>4
  <2>6. Ending' => Ending
    BY <2>1 DEF Ending
  <2>7. QED
    BY <1>1, <2>1, <2>5, <2>6, StopStays
<1>6. CASE ReaderNewRecord \/ ReaderIgnores \/ ReaderAwaits
  <2>1. /\ recordMsgs # <<>> /\ recordMsgs' = Tail(recordMsgs)
        /\ UNCHANGED <<msgs, stream, main, stopAt>>
        /\ \/ reader' = reader
           \/ reader \in {"idle", "awaiting"} /\ reader' = "idle"
           \/ reader = "idle" /\ reader' = "ended" /\ main = "returned"
    <3>1. CASE ReaderNewRecord
      BY <3>1 DEF ReaderNewRecord, ReaderRecv, mainVars, appVars
    <3>2. CASE ReaderIgnores
      BY <3>2 DEF ReaderIgnores, ReaderRecv, mainVars, appVars, readerVars
    <3>3. CASE ReaderAwaits
      <4>1. reader = "awaiting" /\ recordMsgs # <<>>
        BY <3>3 DEF ReaderAwaits, Types, ReaderTypes
      <4>2. QED
        BY <3>3, <4>1 DEF ReaderAwaits, mainVars, appVars
    <3>4. QED
      BY <1>6, <3>1, <3>2, <3>3
  <2>2. /\ Has(recordMsgs', "Close") => Has(recordMsgs, "Close")
        /\ Once(recordMsgs', "Close")
    BY <1>1, <2>1, ReaderGives
  <2>3. Ending' => Ending
    BY <2>1 DEF Ending
  <2>4. QED
    BY <1>1, <2>1, <2>2, <2>3, StopStays
<1>7. CASE ReaderReConnect \/ ReaderJoins \/ ReaderEnds
  <2>1. /\ UNCHANGED <<recordMsgs, msgs, stream, main, stopAt>>
        /\ Ending' => Ending
        /\ reader = "failed" => reader' = "failed"
    BY <1>7 DEF ReaderReConnect, ReaderJoins, ReaderEnds, Ending, mainVars, appVars
  <2>2. QED
    BY <1>1, <2>1, StopStays
<1>8. CASE ReaderSend
  <2>1. /\ \/ msgs' = msgs
           \/ Head(toSend) \in Indices /\ msgs' = Append(msgs, Record(Head(toSend)))
        /\ UNCHANGED <<recordMsgs, stream, main, stopAt>>
        /\ reader' = reader \/ reader' = "failed"
    BY <1>8, TailIs DEF ReaderSend, mainVars, appVars, Types, ReaderTypes
  <2>2. ASSUME NEW m, m = Record(Head(toSend)), Head(toSend) \in Indices
        PROVE  /\ Has(Append(msgs, m), "AppStop") <=> Has(msgs, "AppStop")
               /\ Once(Append(msgs, m), "AppStop")
    <3>1. m \in RecordParam /\ m.type = "Record"
      BY <2>2, MessageIs
    <3>2. QED
      BY <1>1, <3>1, QueueTakes
  <2>3. (Has(msgs', "AppStop") => Has(msgs, "AppStop")) /\ Once(msgs', "AppStop")
    BY <1>1, <2>1, <2>2
  <2>4. Ending' => Ending
    BY <2>1 DEF Ending
  <2>5. QED
    BY <1>1, <2>1, <2>3, <2>4, StopStays
<1>9. CASE ReaderClose
  <2>1. /\ recordMsgs # <<>> /\ recordMsgs' = Tail(recordMsgs) /\ Head(recordMsgs).type = "Close"
        /\ UNCHANGED <<msgs, stream, main, stopAt>> /\ reader = "idle"
        /\ reader' \in {"failed", "joining"}
    BY <1>9 DEF ReaderClose, ReaderRecv, mainVars, appVars
  <2>2. Has(recordMsgs, "Close") /\ ~Has(recordMsgs', "Close") /\ Once(recordMsgs', "Close")
    BY <1>1, <2>1, ReaderGives
  <2>3. stopAt # Running /\ ~Has(msgs, "AppStop") /\ stream # "stopping"
    BY <2>2 DEF StopInv
  <2>4. stream # "failed"
    BY <2>1 DEF StopInv
  <2>5. QED
    BY <1>1, <2>1, <2>2, <2>3, <2>4 DEF StopInv
<1>10. CASE StreamRecv
  <2>1. /\ msgs # <<>> /\ msgs' = Tail(msgs) /\ UNCHANGED <<recordMsgs, reader, main, stopAt>>
        /\ stream = "open"
        /\ stream' = stream \/ (stream' = "stopping" /\ Head(msgs) = AppStop)
    BY <1>10 DEF StreamRecv, Polled, readerVars, mainVars, appVars
  <2>2. /\ Has(msgs', "AppStop") => Has(msgs, "AppStop")
        /\ Once(msgs', "AppStop")
        /\ Head(msgs) = AppStop => Has(msgs, "AppStop") /\ ~Has(msgs', "AppStop")
    <3>1. AppStop.type = "AppStop"
      BY MessageIs
    <3>2. QED
      BY <1>1, <2>1, <3>1, QueueGives
  <2>3. Ending' <=> Ending
    BY <2>1 DEF Ending
  <2>4. CASE stream' = stream
    BY <1>1, <2>1, <2>2, <2>3, <2>4, StopStays
  <2>5. CASE stream' = "stopping" /\ Head(msgs) = AppStop
    BY <1>1, <2>1, <2>2, <2>3, <2>5 DEF StopInv
  <2>6. QED
    BY <2>1, <2>4, <2>5
<1>11. CASE StreamClose
  <2>1. /\ UNCHANGED <<msgs, reader, main, stopAt>> /\ stream = "stopping" /\ main # "returned"
        /\ \/ ReaderGone /\ stream' = "failed" /\ recordMsgs' = recordMsgs
           \/ stream' = "closing" /\ recordMsgs' = Append(recordMsgs, Close)
    BY <1>11 DEF StreamClose, Polled, Called, readerVars, mainVars, appVars
  <2>2. /\ ~Has(msgs, "AppStop") /\ ~Has(recordMsgs, "Close") /\ ~Ending /\ stopAt # Running
    BY <2>1 DEF StopInv
  <2>3. Ending' <=> Ending
    BY <2>1 DEF Ending
  <2>4. CASE ReaderGone /\ stream' = "failed" /\ recordMsgs' = recordMsgs
    <3>1. reader = "failed"
      BY <2>1, <2>2, <2>4 DEF ReaderGone, Ending
    <3>2. QED
      BY <1>1, <2>1, <2>2, <2>3, <2>4, <3>1 DEF StopInv
  <2>5. CASE stream' = "closing" /\ recordMsgs' = Append(recordMsgs, Close)
    <3>1. Close \in RecordMsg /\ Close.type = "Close"
      BY RecordMsgIs
    <3>2. Once(recordMsgs', "Close")
      BY <1>1, <2>2, <2>5, <3>1, ReaderTakes
    <3>3. QED
      BY <1>1, <2>1, <2>2, <2>3, <2>5, <3>2 DEF StopInv
  <2>6. QED
    BY <2>1, <2>4, <2>5
<1>12. CASE StreamDrain
  <2>1. /\ msgs' = msgs \/ (msgs # <<>> /\ msgs' = Tail(msgs))
        /\ UNCHANGED <<recordMsgs, reader, main, stopAt>> /\ stream' \in {"draining", "ended"}
    BY <1>12 DEF StreamDrain, readerVars, mainVars, appVars
  <2>2. (Has(msgs', "AppStop") => Has(msgs, "AppStop")) /\ Once(msgs', "AppStop")
    BY <1>1, <2>1, QueueGives
  <2>3. Ending' => Ending
    BY <2>1 DEF Ending
  <2>4. QED
    BY <1>1, <2>1, <2>2, <2>3, StopStays
<1>13. CASE MainCallFails \/ MainReply \/ MainStreamEnds \/ MainDrain \/ MainServed
  <2>1. /\ msgs' = msgs \/ msgs' = <<>>
        /\ UNCHANGED <<recordMsgs, reader, stopAt>> /\ stream' \in {stream, "open"}
    BY <1>13 DEF MainCallFails, MainReply, MainStreamEnds, MainDrain, MainServed, Return, Call,
                 readerVars, appVars
  <2>2. (Has(msgs', "AppStop") => Has(msgs, "AppStop")) /\ Once(msgs', "AppStop")
    BY <1>1, <2>1, HasNone
  <2>3. Ending' => Ending
    BY <1>3, <2>1 DEF Ending
  <2>4. QED
    BY <1>1, <2>1, <2>2, <2>3, StopStays
<1>14. CASE MainReplyFails
  <2>1. /\ msgs' = msgs \/ msgs' = <<>>
        /\ UNCHANGED <<reader, stopAt, stream>>
        /\ \/ recordMsgs' = recordMsgs
           \/ recordMsgs' = Append(recordMsgs, ReConnect(reconnects + 1))
    BY <1>14 DEF MainReplyFails, Return, readerVars, appVars
  <2>2. (Has(msgs', "AppStop") => Has(msgs, "AppStop")) /\ Once(msgs', "AppStop")
    BY <1>1, <2>1, HasNone
  <2>3. Ending' => Ending
    BY <1>3, <2>1 DEF Ending
  <2>4. (Has(recordMsgs', "Close") => Has(recordMsgs, "Close")) /\ Once(recordMsgs', "Close")
    <3>1. CASE recordMsgs' = recordMsgs
      BY <1>1, <3>1
    <3>2. CASE recordMsgs' # recordMsgs
      <4>1. PICK n : n = reconnects + 1 /\ recordMsgs' = Append(recordMsgs, ReConnect(n))
        BY <2>1, <3>2
      <4>2. n \in 1..MaxBreaks[0]
        <5>1. ~ReaderGone /\ main = "serving" /\ conn = "broken"
          BY <1>14, <3>2 DEF MainReplyFails
        <5>2. stream # "failed"
          BY <5>1 DEF StopInv, ReaderGone
        <5>3. QED
          BY <4>1, <5>1, <5>2, ReconnectsBound DEF Types, Called
      <4>3. PICK m \in RecordMsg : m = ReConnect(n) /\ m.type = "ReConnect"
        BY <4>2, RecordMsgIs
      <4>4. /\ Has(Append(recordMsgs, m), "Close") => Has(recordMsgs, "Close")
            /\ Once(Append(recordMsgs, m), "Close")
        BY <1>1, <4>3, ReaderTakes
      <4>5. QED
        BY <4>1, <4>3, <4>4
    <3>3. QED
      BY <3>1, <3>2
  <2>5. QED
    BY <1>1, <2>1, <2>2, <2>3, <2>4, StopStays
<1>15. CASE MainRestart
  <2>1. /\ msgs' = Append(msgs, AppStart(TRUE)) /\ stream' = "open" /\ main' = "calling"
        /\ UNCHANGED <<recordMsgs, reader, stopAt>>
    BY <1>15 DEF MainRestart, Call, readerVars, appVars
  <2>2. PICK m \in RecordParam : m = AppStart(TRUE) /\ m.type = "AppStart"
    BY MessageIs
  <2>3. (Has(msgs', "AppStop") => Has(msgs, "AppStop")) /\ Once(msgs', "AppStop")
    BY <1>1, <2>1, <2>2, QueueTakes
  <2>4. Ending' => Ending
    BY <1>3, <2>1 DEF Ending
  <2>5. QED
    BY <1>1, <2>1, <2>3, <2>4, StopStays
<1>16. CASE /\ UNCHANGED <<recordMsgs, readerVars, stopAt>> /\ msgs' = msgs /\ stream' = stream
            /\ main' = main
  <2>1. Ending' => Ending
    BY <1>16 DEF Ending, readerVars
  <2>2. QED
    BY <1>1, <1>16, <2>1, StopStays DEF readerVars
<1>17. CASE OnMsg \/ Break \/ ServerFirst \/ ServerServes
  <2>1. /\ UNCHANGED <<recordMsgs, readerVars, stopAt>> /\ msgs' = msgs /\ stream' = stream
        /\ main' = main
    BY <1>17 DEF OnMsg, Break, ServerFirst, ServerServes, readerVars, mainVars, appVars
  <2>2. QED
    BY <1>16, <2>1
<1>18. QED
  BY <1>4, <1>5, <1>6, <1>7, <1>8, <1>9, <1>10, <1>11, <1>12, <1>13, <1>14, <1>15, <1>16, <1>17,
     Frames DEF mainVars, appVars

\* But for 0, what is in R is in S.
Covered(R, S) == R \ {NoRecord} \subseteq S

\* Records that follow one another behind R do so behind more than R.
LEMMA FollowMore ==
  ASSUME NEW f \in Seq(Nat), NEW R, NEW S, Follow(f, R), Covered(R, S)
  PROVE  Follow(f, S)
<1>1. SUFFICES ASSUME NEW i \in DOMAIN f, NEW n \in 1..f[i] - 1
               PROVE  n \in S \/ \E j \in 1..i - 1 : f[j] = n
  BY DEF Follow
<1>2. f[i] \in Nat
  BY <1>1
<1>3. n # 0
  BY <1>1, <1>2
<1>4. n \in R \/ \E j \in 1..i - 1 : f[j] = n
  BY <1>1 DEF Follow
<1>5. QED
  BY <1>3, <1>4, ConstantsAre DEF Covered

\* A record may come to the end if all before it are there.
LEMMA FollowAppend ==
  ASSUME NEW f \in Seq(Nat), NEW R, Follow(f, R), NEW m \in Nat,
         \A n \in 1..m - 1 : n \in R \cup In(f)
  PROVE  Follow(Append(f, m), R)
<1>1. PICK k \in Nat : k = Len(f)
  BY AppendIs
<1>2. PICK g : g = Append(f, m)
  OBVIOUS
<1>3. /\ DOMAIN f = 1..k /\ DOMAIN g = 1..k + 1 /\ \A i \in 1..k : g[i] = f[i]
      /\ g[k + 1] = m
  BY <1>1, <1>2, AppendIs
<1>4. SUFFICES ASSUME NEW i \in 1..k + 1, NEW n \in 1..g[i] - 1
               PROVE  n \in R \/ \E j \in 1..i - 1 : g[j] = n
  BY <1>2, <1>3 DEF Follow
<1>5. CASE i \in 1..k
  <2>1. n \in R \/ \E j \in 1..i - 1 : f[j] = n
    BY <1>3, <1>4, <1>5 DEF Follow
  <2>2. \A j \in 1..i - 1 : j \in 1..k
    BY <1>5
  <2>3. QED
    BY <1>3, <2>1, <2>2
<1>6. CASE i = k + 1
  <2>1. n \in R \/ \E j \in 1..k : f[j] = n
    BY <1>3, <1>4, <1>6 DEF In
  <2>2. i - 1 = k
    BY <1>6
  <2>3. QED
    BY <1>3, <2>1, <2>2
<1>7. QED
  BY <1>4, <1>5, <1>6

\* The first may go when all before it are in R, which then has it too.
LEMMA FollowTail ==
  ASSUME NEW f \in Seq(Nat), f # <<>>, NEW R, Follow(f, R)
  PROVE  /\ Head(f) \in Nat
         /\ \A n \in 1..Head(f) - 1 : n \in R
         /\ \A S : Covered(R \cup {Head(f)}, S) => Follow(Tail(f), S)
<1>1. PICK k \in Nat : k = Len(f)
  BY TailIs
<1>2. PICK g : g = Tail(f)
  OBVIOUS
<1>3. /\ k >= 1 /\ DOMAIN f = 1..k /\ DOMAIN g = 1..k - 1 /\ \A i \in 1..k - 1 : g[i] = f[i + 1]
      /\ Head(f) = f[1] /\ Head(f) \in Nat /\ g \in Seq(Nat)
  BY <1>1, <1>2, TailIs
<1>4. \A n \in 1..Head(f) - 1 : n \in R
  <2>1. 1 \in DOMAIN f /\ 1..1 - 1 = {}
    BY <1>3
  <2>2. \A n \in 1..f[1] - 1 : n \in R \/ \E j \in 1..1 - 1 : f[j] = n
    BY <2>1 DEF Follow
  <2>3. QED
    BY <1>3, <2>1, <2>2
<1>5. ASSUME NEW i \in 1..k - 1, NEW n \in 1..g[i] - 1
      PROVE  n \in R \cup {Head(f)} \/ \E j \in 1..i - 1 : g[j] = n
  <2>1. PICK h \in 1..k : h = i + 1
    BY <1>3, <1>5
  <2>2. h \in DOMAIN f /\ n \in 1..f[h] - 1 /\ h - 1 = i
    BY <1>3, <1>5, <2>1
  <2>3. n \in R \/ \E j \in 1..h - 1 : f[j] = n
    BY <2>2 DEF Follow
  <2>4. n \in R \/ \E j \in 1..i : f[j] = n
    BY <2>2, <2>3
  <2>5. ASSUME NEW j \in 1..i, f[j] = n, j # 1
        PROVE  j - 1 \in 1..i - 1 /\ g[j - 1] = n
    <3>1. j - 1 \in 1..i - 1 /\ j - 1 \in 1..k - 1 /\ (j - 1) + 1 = j
      BY <1>5, <2>5
    <3>2. QED
      BY <1>3, <2>5, <3>1
  <2>6. QED
    BY <1>3, <2>4, <2>5
<1>6. Follow(g, R \cup {Head(f)})
  BY <1>3, <1>5 DEF Follow
<1>7. QED
  BY <1>2, <1>3, <1>4, <1>6, FollowMore

\* What is in a sequence with one more, without its first, and in none.
LEMMA InIs ==
  ASSUME NEW S, NEW f \in Seq(S)
  PROVE  /\ In(f) \subseteq S
         /\ \A m \in S : In(Append(f, m)) = In(f) \cup {m}
         /\ f # <<>> => In(f) = {Head(f)} \cup In(Tail(f)) /\ Head(f) \in S
         /\ In(<<>>) = {}
<1>1. ASSUME NEW m \in S
      PROVE  In(Append(f, m)) = In(f) \cup {m}
  <2>1. PICK k \in Nat : k = Len(f)
    BY AppendIs
  <2>2. PICK g : g = Append(f, m)
    OBVIOUS
  <2>3. /\ DOMAIN f = 1..k /\ DOMAIN g = 1..k + 1 /\ \A i \in 1..k : g[i] = f[i]
        /\ g[k + 1] = m
    BY <2>1, <2>2, AppendIs
  <2>4. k + 1 \in 1..k + 1 /\ (\A i \in 1..k + 1 : i \in 1..k \/ i = k + 1)
        /\ \A i \in 1..k : i \in 1..k + 1
    OBVIOUS
  <2>5. QED
    BY <2>2, <2>3, <2>4 DEF In
<1>2. ASSUME f # <<>>
      PROVE  In(f) = {Head(f)} \cup In(Tail(f)) /\ Head(f) \in S
  <2>1. PICK k \in Nat : k = Len(f)
    BY TailIs, <1>2
  <2>2. PICK g : g = Tail(f)
    OBVIOUS
  <2>3. /\ k >= 1 /\ DOMAIN f = 1..k /\ DOMAIN g = 1..k - 1
        /\ \A i \in 1..k - 1 : g[i] = f[i + 1]
        /\ Head(f) = f[1] /\ Head(f) \in S
    BY <1>2, <2>1, <2>2, TailIs
  <2>4. 1 \in 1..k /\ \A i \in 1..k - 1 : i + 1 \in 1..k
    BY <2>3
  <2>5. ASSUME NEW i \in 1..k, i # 1
        PROVE  f[i] \in In(g)
    <3>1. i - 1 \in 1..k - 1 /\ (i - 1) + 1 = i
      BY <2>5
    <3>2. QED
      BY <2>3, <3>1 DEF In
  <2>6. In(g) \subseteq In(f)
    BY <2>3, <2>4 DEF In
  <2>7. In(f) \subseteq {Head(f)} \cup In(g)
    BY <2>3, <2>5 DEF In
  <2>8. Head(f) \in In(f)
    BY <2>3, <2>4 DEF In
  <2>9. QED
    BY <2>2, <2>3, <2>6, <2>7, <2>8
<1>3. In(<<>>) = {} /\ In(f) \subseteq S
  BY DEF In
<1>4. QED
  BY <1>1, <1>2, <1>3

\* The numbers of a queue with one more message, without its first, and of none.
LEMMA NumbersAre ==
  ASSUME NEW q \in Seq(RecordParam)
  PROVE  /\ Numbers(q) \in Seq(Nat)
         /\ \A m \in RecordParam : /\ Number(m) \in Nat
                                   /\ Numbers(Append(q, m)) = Append(Numbers(q), Number(m))
         /\ q # <<>> => /\ Numbers(q) # <<>> /\ Head(q) \in RecordParam
                        /\ Head(Numbers(q)) = Number(Head(q))
                        /\ Tail(Numbers(q)) = Numbers(Tail(q))
         /\ Numbers(<<>>) = <<>>
<1>1. \A m \in RecordParam : Number(m) \in Nat
  BY MessageIs, ConstantsAre DEF Number
<1>2. PICK k \in Nat : k = Len(q) /\ DOMAIN q = 1..k /\ \A i \in 1..k : q[i] \in RecordParam
  OBVIOUS
<1>3. Numbers(q) \in Seq(Nat) /\ Len(Numbers(q)) = k
  BY <1>1, <1>2 DEF Numbers
<1>4. \A i \in 1..k : Numbers(q)[i] = Number(q[i])
  BY <1>2 DEF Numbers
<1>5. ASSUME NEW m \in RecordParam
      PROVE  Numbers(Append(q, m)) = Append(Numbers(q), Number(m))
  <2>1. PICK f, g, h : f = Numbers(q) /\ g = Append(q, m) /\ h = Append(f, Number(m))
    OBVIOUS
  <2>2. /\ g \in Seq(RecordParam) /\ DOMAIN g = 1..k + 1 /\ \A i \in 1..k : g[i] = q[i]
        /\ g[k + 1] = m
    BY <1>2, <2>1, AppendIs
  <2>3. /\ h \in Seq(Nat) /\ DOMAIN h = 1..k + 1 /\ \A i \in 1..k : h[i] = f[i]
        /\ h[k + 1] = Number(m)
    BY <1>1, <1>3, <2>1, AppendIs
  <2>4. DOMAIN Numbers(g) = 1..k + 1 /\ \A i \in 1..k + 1 : Numbers(g)[i] = Number(g[i])
    BY <2>2 DEF Numbers
  <2>5. \A i \in 1..k + 1 : i \in 1..k \/ i = k + 1
    OBVIOUS
  <2>6. \A i \in 1..k + 1 : Numbers(g)[i] = h[i]
    BY <1>4, <2>1, <2>2, <2>3, <2>4, <2>5
  <2>7. Numbers(g) = [i \in 1..k + 1 |-> Numbers(g)[i]] /\ h = [i \in 1..k + 1 |-> h[i]]
    <3>1. Numbers(g) = [i \in DOMAIN g |-> Number(g[i])]
      BY DEF Numbers
    <3>2. QED
      BY <2>2, <2>3, <2>4, <3>1
  <2>8. Numbers(g) = h
    BY <2>6, <2>7
  <2>9. QED
    BY <2>1, <2>8
<1>6. ASSUME q # <<>>
      PROVE  /\ Numbers(q) # <<>> /\ Head(q) \in RecordParam
             /\ Head(Numbers(q)) = Number(Head(q))
             /\ Tail(Numbers(q)) = Numbers(Tail(q))
  <2>1. PICK f, g, h : f = Numbers(q) /\ g = Tail(q) /\ h = Tail(f)
    OBVIOUS
  <2>2. /\ k >= 1 /\ g \in Seq(RecordParam) /\ DOMAIN g = 1..k - 1
        /\ \A i \in 1..k - 1 : g[i] = q[i + 1]
        /\ Head(q) = q[1] /\ Head(q) \in RecordParam
    BY <1>2, <1>6, <2>1, TailIs
  <2>3. f # <<>>
    BY <1>3, <2>1, <2>2
  <2>4. /\ h \in Seq(Nat) /\ DOMAIN h = 1..k - 1 /\ \A i \in 1..k - 1 : h[i] = f[i + 1]
        /\ Head(f) = f[1]
    BY <1>3, <2>1, <2>3, TailIs
  <2>5. DOMAIN Numbers(g) = 1..k - 1 /\ \A i \in 1..k - 1 : Numbers(g)[i] = Number(g[i])
    BY <2>2 DEF Numbers
  <2>6. 1 \in 1..k /\ \A i \in 1..k - 1 : i + 1 \in 1..k
    BY <2>2
  <2>7. \A i \in 1..k - 1 : Numbers(g)[i] = h[i]
    BY <1>4, <2>1, <2>2, <2>4, <2>5, <2>6
  <2>8. Numbers(g) = [i \in 1..k - 1 |-> Numbers(g)[i]] /\ h = [i \in 1..k - 1 |-> h[i]]
    <3>1. Numbers(g) = [i \in DOMAIN g |-> Number(g[i])]
      BY DEF Numbers
    <3>2. QED
      BY <2>2, <2>4, <2>5, <3>1
  <2>9. Numbers(g) = h
    BY <2>7, <2>8
  <2>10. QED
    BY <1>4, <2>1, <2>2, <2>3, <2>4, <2>6, <2>9
<1>7. Numbers(<<>>) = <<>>
  BY DEF Numbers
<1>8. QED
  BY <1>1, <1>3, <1>5, <1>6, <1>7

\* The invariant, while the first connection and the reader stand.
First == Types /\ WriterInv /\ StartInv /\ StopInv /\ FirstInv /\ Standing

\* No step mends a connection that broke, or a reader that failed.
LEMMA StandsOn ==
  ASSUME Types, Next, Standing'
  PROVE  Standing
<1>1. breaks' = 0 => breaks = 0
  <2>1. CASE Break
    <3>1. breaks \in Nat /\ breaks' = breaks + 1
      BY <2>1, ReconnectsBound DEF Break, Types
    <3>2. QED
      BY <3>1
  <2>2. CASE ~Break
    BY <2>2, Frames DEF OnMsg, mainVars
  <2>3. QED
    BY <2>1, <2>2
<1>2. reader = "failed" => reader' = "failed"
  <2>1. CASE ReaderNewRecord
    BY <2>1 DEF ReaderNewRecord, ReaderRecv
  <2>2. CASE ReaderReConnect
    BY <2>2 DEF ReaderReConnect
  <2>3. CASE ReaderAwaits
    BY <2>3 DEF ReaderAwaits
  <2>4. CASE ReaderSend
    BY <2>4 DEF ReaderSend, Types, ReaderTypes
  <2>5. CASE ReaderClose
    BY <2>5 DEF ReaderClose
  <2>6. CASE ReaderJoins
    BY <2>6 DEF ReaderJoins
  <2>7. CASE ReaderIgnores
    BY <2>7 DEF ReaderIgnores
  <2>8. CASE ReaderEnds
    BY <2>8 DEF ReaderEnds
  <2>9. CASE reader' = reader
    BY <2>9
  <2>10. CASE WriterWrite \/ StreamClose \/ MainReplyFails
    BY <2>10 DEF WriterWrite, StreamClose, MainReplyFails, readerVars
  <2>11. QED
    BY <2>1, <2>2, <2>3, <2>4, <2>5, <2>6, <2>7, <2>8, <2>9, <2>10, Frames DEF readerVars
<1>3. QED
  BY <1>1, <1>2 DEF Standing

\* The client is done.
Returns ==
  /\ main = "serving" /\ main' = "returned" /\ msgs' = <<>>
  /\ UNCHANGED <<appVars, toWriter, writerVars, recordMsgs, readerVars, stream, conn, wire, server,
                 received>>

\* The call of a server that has refused it is made again.
CallsAgain ==
  /\ server \in {"panicked", "refused"}
  /\ main' = "calling" /\ conn' = "up" /\ server' = "new" /\ wire' = <<>>
  /\ UNCHANGED <<appVars, toWriter, writerVars, recordMsgs, readerVars, msgs, received>>

\* The steps that keep the first connection and the reader standing.
FirstStep ==
  \/ OnMsg \/ NormalStop \/ WriterRecv \/ WriterCollect \/ WriterWrite
  \/ ReaderNewRecord \/ ReaderSend \/ ReaderClose \/ ReaderJoins \/ ReaderEnds
  \/ StreamRecv \/ (StreamClose /\ ~ReaderGone) \/ StreamDrain
  \/ ServerFirst \/ ServerServes \/ ServerGivesUp \/ MainServed
  \/ CallsAgain \/ Returns

\* A step after which the first connection and the reader stand is one of those.
LEMMA FirstSteps ==
  ASSUME First, Next, Standing'
  PROVE  FirstStep
<1>1. Upright /\ Types /\ StopInv /\ StartInv
  BY DEF First, FirstInv
<1>2. ~ReaderReConnect /\ ~ReaderIgnores
  <2>1. recordMsgs # <<>> => Head(recordMsgs).type # "ReConnect"
    <3>1. recordMsgs # <<>> => (Head(recordMsgs).type = "ReConnect" => Has(recordMsgs, "ReConnect"))
      BY <1>1, ReaderGives
    <3>2. QED
      BY <1>1, <3>1 DEF Upright
  <2>2. QED
    BY <2>1 DEF ReaderReConnect, ReaderIgnores, ReaderRecv
<1>3. ~ReaderAwaits /\ ~ServerReplies /\ ~MainReplyFails /\ ~MainDrain /\ ~MainRestart
  BY <1>1 DEF Upright, ReaderAwaits, ServerReplies, MainReplyFails, MainDrain, MainRestart
<1>4. ~Break
  <2>1. Break => breaks' = breaks + 1 /\ breaks = 0 /\ breaks' = 0
    BY DEF Break, First, Standing
  <2>2. QED
    BY <2>1
<1>5. StreamClose => ~ReaderGone
  <2>1. StreamClose => stream = "stopping" /\ main # "returned"
    BY DEF StreamClose, Polled, Called
  <2>2. stream = "stopping" => ~Ending
    BY <1>1 DEF StopInv
  <2>3. reader # "failed"
    BY DEF First, Standing
  <2>4. QED
    BY <2>1, <2>2, <2>3 DEF Ending, ReaderGone
<1>6. MainCallFails => CallsAgain
  BY <1>1 DEF MainCallFails, Call, CallsAgain, Upright
<1>7. MainReply \/ MainStreamEnds => Returns
  <2>1. CASE MainReply
    <3>1. Called /\ (server = "querying" \/ replies # <<>>)
      BY <2>1 DEF MainReply, Called
    <3>2. replySender
      BY <1>1, <3>1 DEF StartInv, Expects
    <3>3. ReConnect(reconnects) \notin ToSet(recordMsgs)
      <4>1. ASSUME NEW i \in DOMAIN recordMsgs, recordMsgs[i] = ReConnect(reconnects)
            PROVE  FALSE
        <5>1. ReConnect(reconnects).type = "ReConnect"
          BY DEF ReConnect
        <5>2. QED
          BY <1>1, <4>1, <5>1 DEF Upright, Has
      <4>2. QED
        BY <4>1 DEF ToSet
    <3>4. QED
      BY <2>1, <3>2, <3>3 DEF MainReply, Return, Returns, appVars
  <2>2. CASE MainStreamEnds
    BY <2>2 DEF MainStreamEnds, Return, Returns, netVars
  <2>3. QED
    BY <2>1, <2>2
<1>8. QED
  BY <1>2, <1>3, <1>4, <1>5, <1>6, <1>7 DEF FirstStep, Next, Writer, Reader, Stream, Server, Main

\* The reader is told of records that are written.
LEMMA WrittenStep ==
  ASSUME Types, WriterInv, Written, Next
  PROVE  Written'
<1>1. last \in Nat /\ recordMsgs \in Seq(RecordMsg)
  BY WriterIs DEF Types, ReaderTypes
<1>2. CASE WriterWrite
  <2>1. PICK x \in Indices : x = batch[1]
    BY <1>2, WriteIs DEF Types
  <2>2. last' \in Nat /\ last <= last'
    <3>1. PICK b \in Nat : b = Len(batch)
      BY WriterIs
    <3>2. /\ batch # <<>> /\ b >= 1
      BY <1>2, <3>1, WriteIs, WriterIs DEF Types
    <3>3. last' = last \/ last' = last + b - 1 \/ last' = last + b
      BY <1>2, <3>1, WriteIs DEF Types
    <3>4. QED
      BY <1>1, <3>2, <3>3
  <2>3. CASE recordMsgs' = recordMsgs
    <3>1. \A i \in DOMAIN recordMsgs : recordMsgs[i].type = "NewRecord" =>
            recordMsgs[i].index \in Nat /\ recordMsgs[i].index <= last
      BY <1>1, RecordMsgIs, ConstantsAre DEF Written
    <3>2. QED
      BY <1>1, <2>2, <2>3, <3>1 DEF Written
  <2>4. CASE recordMsgs' # recordMsgs
    <3>1. PICK m \in RecordMsg : m = NewRecord(x) /\ m.type = "NewRecord" /\ m.index = x
      BY RecordMsgIs
    <3>2. recordMsgs' = Append(recordMsgs, m) /\ ~ReaderGone
      BY <1>2, <2>1, <2>4, <3>1 DEF WriterWrite
    <3>3. x <= last'
      <4>1. PICK b \in Nat : b = Len(batch)
        BY WriterIs
      <4>2. b >= 1 /\ batch[1] = last + 1
        BY <1>2, <4>1, WriteIs, WriterIs DEF Types
      <4>3. /\ IsClose <=> batch[b] = NoRecord
            /\ last' = IF IsClose THEN last + b - 1 ELSE last + b
        BY <1>2, <3>2, <4>1, WriteIs DEF Types, ReaderGone
      <4>4. IsClose => b # 1
        BY <1>1, <4>2, <4>3, ConstantsAre
      <4>5. QED
        BY <1>1, <2>1, <4>1, <4>2, <4>3, <4>4
    <3>4. PICK k \in Nat, r \in {recordMsgs'} : k = Len(recordMsgs) /\ r = recordMsgs'
      BY <1>1
    <3>5. /\ DOMAIN recordMsgs = 1..k /\ DOMAIN r = 1..k + 1
          /\ \A i \in 1..k : r[i] = recordMsgs[i]
          /\ r[k + 1] = m
      BY <1>1, <3>2, <3>4, AppendIs
    <3>6. \A i \in 1..k : recordMsgs[i].type = "NewRecord" =>
            recordMsgs[i].index \in Nat /\ recordMsgs[i].index <= last
      BY <1>1, <3>5, RecordMsgIs, ConstantsAre DEF Written
    <3>7. \A i \in 1..k + 1 : i \in 1..k \/ i = k + 1
      OBVIOUS
    <3>8. \A i \in 1..k + 1 : r[i].type = "NewRecord" => r[i].index <= last'
      BY <1>1, <2>2, <3>1, <3>3, <3>5, <3>6, <3>7
    <3>9. QED
      BY <3>4, <3>5, <3>8 DEF Written
  <2>5. QED
    BY <2>3, <2>4
<1>3. CASE UNCHANGED last /\ recordMsgs' = recordMsgs
  BY <1>3 DEF Written
<1>4. CASE UNCHANGED last /\ recordMsgs # <<>> /\ recordMsgs' = Tail(recordMsgs)
  <2>1. PICK k \in Nat : k = Len(recordMsgs)
    BY <1>1, <1>4, TailIs
  <2>2. PICK r : r = recordMsgs'
    OBVIOUS
  <2>3. /\ DOMAIN recordMsgs = 1..k /\ DOMAIN r = 1..k - 1
        /\ \A i \in 1..k - 1 : r[i] = recordMsgs[i + 1]
    BY <1>1, <1>4, <2>1, <2>2, TailIs
  <2>4. \A i \in 1..k - 1 : i + 1 \in 1..k
    OBVIOUS
  <2>5. \A i \in 1..k - 1 : r[i].type = "NewRecord" => r[i].index <= last
    BY <2>3, <2>4 DEF Written
  <2>6. QED
    BY <1>4, <2>2, <2>3, <2>5 DEF Written
<1>5. CASE /\ UNCHANGED last
           /\ \E m : m.type # "NewRecord" /\ recordMsgs' = Append(recordMsgs, m)
  <2>1. PICK m : m.type # "NewRecord" /\ recordMsgs' = Append(recordMsgs, m)
    BY <1>5
  <2>2. PICK k \in Nat : k = Len(recordMsgs)
    BY <1>1
  <2>3. PICK r : r = recordMsgs'
    OBVIOUS
  <2>4. /\ DOMAIN recordMsgs = 1..k /\ DOMAIN r = 1..k + 1
        /\ \A i \in 1..k : r[i] = recordMsgs[i]
        /\ r[k + 1] = m
    <3>1. recordMsgs \in Seq(RecordMsg \cup {m}) /\ m \in RecordMsg \cup {m}
      BY <1>1, SeqWiden
    <3>2. QED
      BY <2>1, <2>2, <2>3, <3>1, AppendIs
  <2>5. \A i \in 1..k + 1 : i \in 1..k \/ i = k + 1
    OBVIOUS
  <2>6. \A i \in 1..k + 1 : r[i].type = "NewRecord" => r[i].index <= last
    BY <2>1, <2>4, <2>5 DEF Written
  <2>7. QED
    BY <1>5, <2>3, <2>4, <2>6 DEF Written
<1>6. CASE ReaderNewRecord \/ ReaderIgnores \/ ReaderClose
  BY <1>4, <1>6 DEF ReaderNewRecord, ReaderIgnores, ReaderClose, ReaderRecv, writerVars
<1>7. CASE ReaderAwaits
  BY <1>4, <1>7 DEF ReaderAwaits, writerVars, Types, ReaderTypes
<1>8. CASE StreamClose
  BY <1>3, <1>5, <1>8, RecordMsgIs DEF StreamClose, writerVars
<1>9. CASE MainReplyFails
  <2>1. ReConnect(reconnects + 1).type # "NewRecord"
    BY DEF ReConnect
  <2>2. QED
    BY <1>3, <1>5, <1>9, <2>1 DEF MainReplyFails, writerVars
<1>10. CASE OnMsg \/ WriterRecv \/ WriterCollect \/ ReaderReConnect \/ ReaderSend \/ ReaderJoins
              \/ ReaderEnds
  BY <1>3, <1>10 DEF OnMsg, WriterRecv, WriterCollect, ReaderReConnect, ReaderSend, ReaderJoins,
                     ReaderEnds, writerVars
<1>11. CASE UNCHANGED <<toWriter, writerVars>> /\ UNCHANGED <<recordMsgs, readerVars>>
  BY <1>3, <1>11 DEF writerVars
<1>12. QED
  BY <1>2, <1>6, <1>7, <1>8, <1>9, <1>10, <1>11, Frames

\* The steps that change neither the queue nor the wire nor what takes from them.
Aside ==
  \/ OnMsg \/ WriterRecv \/ WriterCollect \/ WriterWrite \/ ReaderNewRecord \/ ReaderClose
  \/ ReaderJoins \/ ReaderEnds \/ (StreamClose /\ ~ReaderGone) \/ MainServed \/ ServerGivesUp

\* Those leave the queue, the wire, the connection and what the server has as they are.
LEMMA AsideIs ==
  ASSUME Aside
  PROVE  msgs' = msgs /\ wire' = wire /\ received' = received /\ conn' = conn
<1> USE DEF netVars
<1>1. CASE OnMsg \/ WriterRecv \/ WriterCollect \/ WriterWrite
  BY <1>1 DEF OnMsg, WriterRecv, WriterCollect, WriterWrite
<1>2. CASE ReaderNewRecord \/ ReaderClose \/ ReaderJoins \/ ReaderEnds
  BY <1>2 DEF ReaderNewRecord, ReaderClose, ReaderJoins, ReaderEnds
<1>3. CASE (StreamClose /\ ~ReaderGone) \/ MainServed \/ ServerGivesUp
  BY <1>3 DEF StreamClose, MainServed, ServerGivesUp
<1>4. QED
  BY <1>1, <1>2, <1>3 DEF Aside

\* What the queue is after a step, and what the reader may put into it.
LEMMA QueueStep ==
  ASSUME First, FirstStep
  PROVE  \/ msgs' = msgs
         \/ msgs' = <<>> /\ Returns
         \/ NormalStop /\ msgs' = Append(msgs, AppStop)
         \/ ReaderSend /\ \E h \in Indices : h = Head(toSend) /\ msgs' = Append(msgs, Record(h))
         \/ (StreamRecv \/ StreamDrain) /\ msgs # <<>> /\ msgs' = Tail(msgs)
<1>1. CASE Aside
  BY <1>1, AsideIs
<1>2. CASE NormalStop
  BY <1>2 DEF NormalStop
<1>3. CASE ReaderSend
  <2>1. Head(toSend) \in {AssertionFails} \cup Indices
    BY <1>3, TailIs DEF ReaderSend, First, Types, ReaderTypes
  <2>2. QED
    BY <1>3, <2>1 DEF ReaderSend
<1>4. CASE StreamRecv \/ StreamDrain
  BY <1>4 DEF StreamRecv, StreamDrain
<1>5. CASE ServerFirst \/ ServerServes
  BY <1>5 DEF ServerFirst, ServerServes
<1>6. CASE CallsAgain \/ Returns
  BY <1>6 DEF CallsAgain, Returns
<1>7. QED
  BY <1>1, <1>2, <1>3, <1>4, <1>5, <1>6 DEF FirstStep, Aside

\* What is on the wire after a step.
LEMMA WireStep ==
  ASSUME First, FirstStep
  PROVE  \/ wire' = wire
         \/ wire' = <<>> /\ CallsAgain
         \/ (ServerFirst \/ ServerServes) /\ wire # <<>> /\ wire' = Tail(wire)
         \/ /\ StreamRecv \/ StreamDrain
            /\ msgs # <<>> /\ msgs' = Tail(msgs) /\ wire' = Append(wire, Head(msgs))
         \/ StreamDrain /\ msgs = <<>> /\ msgs' = msgs /\ wire' = Append(wire, AppStop)
<1>1. CASE Aside
  BY <1>1, AsideIs
<1>2. CASE NormalStop \/ ReaderSend
  BY <1>2 DEF NormalStop, ReaderSend, netVars
<1>3. CASE StreamRecv \/ StreamDrain
  BY <1>3 DEF StreamRecv, StreamDrain
<1>4. CASE ServerFirst \/ ServerServes
  BY <1>4 DEF ServerFirst, ServerServes, ServerTakes
<1>5. CASE CallsAgain \/ Returns
  BY <1>5 DEF CallsAgain, Returns
<1>6. QED
  BY <1>1, <1>2, <1>3, <1>4, <1>5 DEF FirstStep, Aside

\* No AppStart comes into the queue, and none onto the wire but from the queue.
LEMMA NoStartComes ==
  ASSUME First, FirstStep
  PROVE  /\ Has(msgs', "AppStart") => Has(msgs, "AppStart")
         /\ Has(wire', "AppStart") => Has(wire, "AppStart") \/ Has(msgs, "AppStart")
         /\ Comes(msgs') => Comes(msgs)
         /\ Comes(wire') => Comes(wire) \/ Comes(msgs)
<1>1. Types
  BY DEF First
<1>2. AppStop \in RecordParam /\ AppStop.type = "AppStop"
  BY MessageIs
<1>3. \A h \in Indices : Record(h) \in RecordParam /\ Record(h).type = "Record"
  BY MessageIs
<1>4. (Has(msgs', "AppStart") => Has(msgs, "AppStart")) /\ (Comes(msgs') => Comes(msgs))
  <2>1. CASE msgs' = msgs \/ msgs' = <<>>
    BY <2>1, HasNone
  <2>2. CASE msgs' = Append(msgs, AppStop)
    BY <1>1, <1>2, <2>2, QueueTakes
  <2>3. CASE \E h \in Indices : msgs' = Append(msgs, Record(h))
    <3>1. PICK m \in RecordParam : msgs' = Append(msgs, m) /\ m.type = "Record"
      BY <1>3, <2>3
    <3>2. QED
      BY <1>1, <3>1, QueueTakes
  <2>4. CASE msgs # <<>> /\ msgs' = Tail(msgs)
    BY <1>1, <2>4, QueueGives
  <2>5. QED
    BY <2>1, <2>2, <2>3, <2>4, QueueStep
<1>5. /\ Has(wire', "AppStart") => Has(wire, "AppStart") \/ Has(msgs, "AppStart")
      /\ Comes(wire') => Comes(wire) \/ Comes(msgs)
  <2>1. CASE wire' = wire \/ wire' = <<>>
    BY <2>1, HasNone
  <2>2. CASE wire # <<>> /\ wire' = Tail(wire)
    BY <1>1, <2>2, WireGives
  <2>3. CASE msgs # <<>> /\ wire' = Append(wire, Head(msgs))
    <3>1. PICK m \in RecordParam : m = Head(msgs)
      BY <1>1, <2>3, QueueGives
    <3>2. /\ m.type = "AppStart" => Has(msgs, "AppStart")
          /\ m.type = "AppStart" /\ m.reconnect => Comes(msgs)
      BY <1>1, <2>3, <3>1, QueueGives
    <3>3. QED
      BY <1>1, <2>3, <3>1, <3>2, WireTakes
  <2>4. CASE wire' = Append(wire, AppStop)
    BY <1>1, <1>2, <2>4, WireTakes
  <2>5. QED
    BY <2>1, <2>2, <2>3, <2>4, WireStep
<1>6. QED
  BY <1>4, <1>5

\* What the reader is told in a step, and what it takes.
LEMMA ToldStep ==
  ASSUME First, FirstStep
  PROVE  \/ recordMsgs' = recordMsgs
         \/ WriterWrite /\ batch[1] \in Indices /\ recordMsgs' = Append(recordMsgs, NewRecord(batch[1]))
         \/ StreamClose /\ recordMsgs' = Append(recordMsgs, Close)
         \/ /\ ReaderNewRecord \/ ReaderClose
            /\ recordMsgs # <<>> /\ recordMsgs' = Tail(recordMsgs)
<1>1. CASE OnMsg \/ NormalStop \/ WriterRecv \/ WriterCollect \/ ReaderSend
  BY <1>1 DEF OnMsg, NormalStop, WriterRecv, WriterCollect, ReaderSend
<1>2. CASE WriterWrite
  BY <1>2, WriteIs DEF WriterWrite, First, Types
<1>3. CASE ReaderNewRecord \/ ReaderClose
  BY <1>3 DEF ReaderNewRecord, ReaderClose, ReaderRecv
<1>4. CASE ReaderJoins \/ ReaderEnds \/ StreamRecv \/ StreamClose \/ StreamDrain
  BY <1>4 DEF ReaderJoins, ReaderEnds, StreamRecv, StreamClose, StreamDrain
<1>5. CASE ServerFirst \/ ServerServes \/ ServerGivesUp \/ MainServed \/ CallsAgain \/ Returns
  BY <1>5 DEF ServerFirst, ServerServes, ServerGivesUp, MainServed, CallsAgain, Returns
<1>6. QED
  BY <1>1, <1>2, <1>3, <1>4, <1>5 DEF FirstStep

\* Without a break nothing comes that only a break brings.
LEMMA UprightStep ==
  ASSUME First, FirstStep
  PROVE  Upright'
<1>1. Upright /\ Types
  BY DEF First, FirstInv
<1>2. ~Has(recordMsgs', "ReConnect")
  <2>1. CASE recordMsgs' = recordMsgs
    BY <1>1, <2>1 DEF Upright
  <2>2. CASE batch[1] \in Indices /\ recordMsgs' = Append(recordMsgs, NewRecord(batch[1]))
    <3>1. PICK m \in RecordMsg : m = NewRecord(batch[1]) /\ m.type = "NewRecord"
      BY <2>2, RecordMsgIs
    <3>2. ~Has(Append(recordMsgs, m), "ReConnect")
      BY <1>1, <3>1, ReaderTakes DEF Upright
    <3>3. QED
      BY <2>2, <3>1, <3>2
  <2>3. CASE recordMsgs' = Append(recordMsgs, Close)
    <3>1. Close \in RecordMsg /\ Close.type = "Close"
      BY RecordMsgIs
    <3>2. QED
      BY <1>1, <2>3, <3>1, ReaderTakes DEF Upright
  <2>4. CASE recordMsgs # <<>> /\ recordMsgs' = Tail(recordMsgs)
    BY <1>1, <2>4, ReaderGives DEF Upright
  <2>5. QED
    BY <2>1, <2>2, <2>3, <2>4, ToldStep
<1>3. /\ main' \in {"calling", "serving", "returned"} /\ conn' = "up"
      /\ server' # "querying" /\ reader' # "awaiting"
  <2>1. CASE OnMsg \/ NormalStop \/ WriterRecv \/ WriterCollect \/ WriterWrite
    BY <1>1, <2>1 DEF OnMsg, NormalStop, WriterRecv, WriterCollect, WriterWrite, Upright,
                      readerVars, mainVars, netVars
  <2>2. CASE ReaderNewRecord \/ ReaderSend \/ ReaderClose \/ ReaderJoins \/ ReaderEnds
    BY <1>1, <2>2 DEF ReaderNewRecord, ReaderSend, ReaderClose, ReaderJoins, ReaderEnds, Upright,
                      mainVars, netVars
  <2>3. CASE StreamRecv \/ (StreamClose /\ ~ReaderGone) \/ StreamDrain
    BY <1>1, <2>3 DEF StreamRecv, StreamClose, StreamDrain, Upright, readerVars, mainVars
  <2>4. CASE ServerFirst
    <3>1. wire # <<>> /\ ~(Head(wire).type = "AppStart" /\ Head(wire).reconnect)
      BY <1>1, <2>4, WireGives DEF ServerFirst, ServerTakes, Upright
    <3>2. server' # "querying"
      BY <2>4, <3>1 DEF ServerFirst
    <3>3. QED
      BY <1>1, <2>4, <3>2 DEF ServerFirst, Upright, readerVars, mainVars
  <2>5. CASE ServerServes \/ ServerGivesUp \/ MainServed
    BY <1>1, <2>5 DEF ServerServes, ServerTakes, ServerGivesUp, MainServed, Upright, readerVars,
                      mainVars, netVars
  <2>6. CASE CallsAgain \/ Returns
    BY <1>1, <2>6 DEF CallsAgain, Returns, Upright, readerVars
  <2>7. QED
    BY <2>1, <2>2, <2>3, <2>4, <2>5, <2>6 DEF FirstStep
<1>4. ~Comes(msgs') /\ ~Comes(wire')
  BY <1>1, NoStartComes DEF Upright
<1>5. QED
  BY <1>2, <1>3, <1>4 DEF Upright

\* The first message of the call goes its way.
LEMMA OpensStays ==
  ASSUME First, FirstStep, Opens, server = "new", server' = "new"
  PROVE  Opens'
<1>1. /\ msgs \in Seq(RecordParam) /\ wire \in Seq(RecordParam)
      /\ stream = "open" => stream # "stopping" /\ stream # "closing" /\ stream # "draining"
  BY DEF First, Types, StreamTypes
<1>2. ASSUME NEW q \in Seq(RecordParam), q # <<>>, NEW m \in RecordParam
      PROVE  Append(q, m) # <<>> /\ Append(q, m)[1] = q[1]
  BY <1>2
<1>3. ~Returns /\ ~CallsAgain /\ ~ServerFirst /\ ~ServerServes
  <2>1. ~Returns
    BY DEF Returns, First, StartInv
  <2>2. QED
    BY <2>1 DEF CallsAgain, ServerFirst, ServerServes, ServerTakes
<1>4. CASE wire # <<>> /\ wire[1].type = "AppStart"
  <2>1. CASE wire' = wire
    BY <1>4, <2>1 DEF Opens
  <2>2. CASE msgs # <<>> /\ wire' = Append(wire, Head(msgs))
    <3>1. Head(msgs) \in RecordParam
      BY <1>1, <2>2, TailIs
    <3>2. wire' # <<>> /\ wire'[1] = wire[1]
      BY <1>1, <1>2, <1>4, <2>2, <3>1
    <3>3. QED
      BY <1>4, <3>2 DEF Opens
  <2>3. CASE wire' = Append(wire, AppStop)
    <3>1. wire' # <<>> /\ wire'[1] = wire[1]
      BY <1>1, <1>2, <1>4, <2>3, MessageIs
    <3>2. QED
      BY <1>4, <3>1 DEF Opens
  <2>4. QED
    BY <1>3, <2>1, <2>2, <2>3, WireStep
<1>5. CASE wire = <<>> /\ stream = "open" /\ msgs # <<>> /\ msgs[1].type = "AppStart"
  <2>1. CASE StreamRecv
    <3>1. Head(msgs) = msgs[1] /\ Head(msgs) \in RecordParam
      BY <1>1, <1>5, TailIs
    <3>2. Head(msgs) # AppStop
      BY <1>5, <3>1, MessageIs
    <3>3. wire' = Append(wire, Head(msgs))
      BY <2>1, <3>2 DEF StreamRecv
    <3>4. wire' # <<>> /\ wire'[1] = msgs[1]
      BY <1>5, <3>1, <3>3
    <3>5. QED
      BY <1>5, <3>4 DEF Opens
  <2>2. ~StreamDrain /\ ~StreamClose
    BY <1>5 DEF StreamDrain, StreamClose, Polled
  <2>3. CASE ~StreamRecv
    <3>1. wire' = wire
      BY <1>3, <2>2, <2>3, WireStep
    <3>2. stream' = stream
      <4>1. CASE OnMsg \/ NormalStop \/ WriterRecv \/ WriterCollect \/ WriterWrite
        BY <4>1 DEF OnMsg, NormalStop, WriterRecv, WriterCollect, WriterWrite
      <4>2. CASE ReaderNewRecord \/ ReaderSend \/ ReaderClose \/ ReaderJoins \/ ReaderEnds
        BY <4>2 DEF ReaderNewRecord, ReaderSend, ReaderClose, ReaderJoins, ReaderEnds
      <4>3. CASE ServerGivesUp \/ MainServed
        BY <4>3 DEF ServerGivesUp, MainServed
      <4>4. QED
        BY <1>3, <2>2, <2>3, <4>1, <4>2, <4>3 DEF FirstStep
    <3>3. msgs' # <<>> /\ msgs'[1] = msgs[1]
      <4>1. CASE msgs' = Append(msgs, AppStop)
        BY <1>1, <1>2, <1>5, <4>1, MessageIs
      <4>2. CASE \E h \in Indices : msgs' = Append(msgs, Record(h))
        <5>1. PICK m \in RecordParam : msgs' = Append(msgs, m)
          BY <4>2, MessageIs
        <5>2. QED
          BY <1>1, <1>2, <1>5, <5>1
      <4>3. QED
        BY <1>3, <1>5, <2>2, <2>3, <4>1, <4>2, QueueStep
    <3>4. QED
      BY <1>5, <3>1, <3>2, <3>3 DEF Opens
  <2>4. QED
    BY <2>1, <2>3
<1>6. QED
  BY <1>4, <1>5 DEF Opens

\* A server that does not serve yet is before its first message, which is AppStart.
LEMMA OpenedStep ==
  ASSUME First, FirstStep
  PROVE  Opened'
<1>1. Opened /\ Types /\ StartInv /\ Upright
  BY DEF First, FirstInv
<1>2. /\ server' = "new" => (server = "new" \/ CallsAgain) /\ received' = received
      /\ server' = "panicked" => (server = "panicked" \/ ServerFirst) /\ received' = received
      /\ server' = "refused" => (server = "refused" \/ ServerGivesUp) /\ received' = received
  <2>1. CASE OnMsg \/ NormalStop \/ WriterRecv \/ WriterCollect \/ WriterWrite
    BY <2>1 DEF OnMsg, NormalStop, WriterRecv, WriterCollect, WriterWrite, netVars
  <2>2. CASE ReaderNewRecord \/ ReaderSend \/ ReaderClose \/ ReaderJoins \/ ReaderEnds
    BY <2>2 DEF ReaderNewRecord, ReaderSend, ReaderClose, ReaderJoins, ReaderEnds, netVars
  <2>3. CASE StreamRecv \/ StreamClose \/ StreamDrain \/ MainServed \/ Returns
    BY <2>3 DEF StreamRecv, StreamClose, StreamDrain, MainServed, Returns, netVars
  <2>4. CASE ServerFirst \/ ServerGivesUp \/ CallsAgain
    BY <2>4 DEF ServerFirst, ServerGivesUp, CallsAgain
  <2>5. CASE ServerServes
    BY <2>5 DEF ServerServes, ServerTakes
  <2>6. QED
    BY <2>1, <2>2, <2>3, <2>4, <2>5 DEF FirstStep
<1>3. ServerFirst => server = "new" /\ wire # <<>> /\ (server' = "panicked" => Head(wire).type # "AppStart")
  BY DEF ServerFirst, ServerTakes
<1>4. ServerGivesUp /\ server' = "refused" => server = "new" /\ wire # <<>>
  BY <1>1 DEF ServerGivesUp, Upright
<1>5. wire # <<>> /\ Opens => Head(wire).type = "AppStart" /\ Has(wire, "AppStart")
  <2>1. wire # <<>> => Head(wire) = wire[1]
    BY <1>1, TailIs DEF Types, StreamTypes
  <2>2. QED
    BY <1>1, <2>1, WireGives DEF Opens
<1>6. ASSUME server' \in {"new", "panicked", "refused"}
      PROVE  received' = {}
  <2>1. server \in {"new", "panicked", "refused"}
    BY <1>2, <1>3, <1>4, <1>6 DEF CallsAgain
  <2>2. QED
    BY <1>1, <1>2, <1>6, <2>1 DEF Opened
<1>7. ASSUME server' \in {"panicked", "refused"}
      PROVE  ~Has(msgs, "AppStart")
  <2>1. CASE server \in {"panicked", "refused"}
    BY <1>1, <2>1 DEF Opened
  <2>2. CASE server = "new" /\ ~Opens
    BY <1>1, <2>2 DEF Opened
  <2>3. CASE server = "new" /\ Opens
    <3>1. ServerGivesUp \/ ServerFirst
      BY <1>2, <1>7, <2>3
    <3>2. Has(wire, "AppStart")
      BY <1>3, <1>4, <1>5, <1>7, <2>3, <3>1 DEF ServerGivesUp
    <3>3. QED
      BY <1>1, <3>2 DEF StartInv
  <2>4. QED
    BY <1>2, <1>3, <1>4, <1>7, <2>1, <2>2, <2>3
<1>8. ASSUME server' = "new", ~Opens'
      PROVE  ~Has(msgs', "AppStart") /\ ~Has(wire', "AppStart")
  <2>1. CASE server = "new"
    <3>1. ~Opens
      BY <1>8, <2>1, OpensStays
    <3>2. QED
      BY <1>1, <2>1, <3>1, NoStartComes DEF Opened
  <2>2. CASE CallsAgain
    BY <1>1, <2>2, HasNone DEF CallsAgain, Opened
  <2>3. QED
    BY <1>2, <1>8, <2>1, <2>2
<1>9. QED
  BY <1>6, <1>7, <1>8, NoStartComes DEF Opened

\* The types of what is on the way.
LEMMA ChainIs ==
  ASSUME Types
  PROVE  /\ Numbers(wire) \in Seq(Nat) /\ Numbers(msgs) \in Seq(Nat) /\ toSend \in Seq(Nat)
         /\ wire \in Seq(RecordParam) /\ msgs \in Seq(RecordParam)
         /\ wire # <<>> => Number(Head(wire)) \in Nat /\ Head(wire) \in RecordParam
         /\ msgs # <<>> => Number(Head(msgs)) \in Nat /\ Head(msgs) \in RecordParam
<1>1. wire \in Seq(RecordParam) /\ msgs \in Seq(RecordParam)
  BY DEF Types, StreamTypes
<1>2. {AssertionFails} \cup Indices \subseteq Nat
  BY ConstantsAre
<1>3. toSend \in Seq(Nat)
  BY <1>2, SeqWiden DEF Types, ReaderTypes
<1>4. (wire # <<>> => Head(wire) \in RecordParam) /\ (msgs # <<>> => Head(msgs) \in RecordParam)
  BY <1>1, TailIs
<1>5. QED
  BY <1>1, <1>3, <1>4, NumbersAre

\* Where a record is there are all before it.
Behind(q, R) == \A n \in 1..Number(q) - 1 : n \in R

\* The records go on: nothing is lost on the way.
OnTheWay == Chain' /\ Covered(OnWire, OnWire') /\ Covered(Sent, Sent')

\* A message is put into the queue, behind all records before it.
LEMMA ChainQueueTakes ==
  ASSUME Types, Chain, NEW m \in RecordParam, Behind(m, InQueue),
         msgs' = Append(msgs, m), wire' = wire, received' = received,
         toSend' = toSend \/ (toSend # <<>> /\ toSend' = Tail(toSend) /\ Head(toSend) = Number(m))
  PROVE  OnTheWay
<1>1. PICK M \in Seq(Nat), x \in Nat : M = Numbers(msgs) /\ x = Number(m)
  BY ChainIs, NumbersAre
<1>2. Numbers(msgs') = Append(M, x) /\ Append(M, x) \in Seq(Nat)
  BY <1>1, ChainIs, NumbersAre, AppendIs
<1>3. OnWire' = OnWire
  BY DEF OnWire
<1>4. In(Append(M, x)) = In(M) \cup {x}
  BY <1>1, InIs
<1>5. InQueue = OnWire \cup In(M) /\ InQueue' = InQueue \cup {x}
  BY <1>1, <1>2, <1>3, <1>4 DEF InQueue
<1>6. Follow(Numbers(msgs'), OnWire')
  <2>1. \A n \in 1..x - 1 : n \in OnWire \cup In(M)
    BY <1>1, <1>5 DEF Behind
  <2>2. Follow(Append(M, x), OnWire)
    BY <1>1, <2>1, FollowAppend DEF Chain
  <2>3. QED
    BY <1>2, <1>3, <2>2
<1>7. Follow(toSend', InQueue') /\ Covered(Sent, Sent')
  <2>1. PICK T \in Seq(Nat) : T = toSend
    BY ChainIs
  <2>2. Follow(T, InQueue)
    BY <2>1 DEF Chain
  <2>3. CASE toSend' = toSend
    <3>1. Follow(T, InQueue')
      BY <1>5, <2>2, FollowMore DEF Covered
    <3>2. QED
      BY <1>5, <2>1, <2>3, <3>1 DEF Sent, Covered
  <2>4. CASE T # <<>> /\ toSend' = Tail(T) /\ Head(T) = x
    <3>1. Follow(Tail(T), InQueue')
      BY <1>5, <2>1, <2>2, <2>4, FollowTail DEF Covered
    <3>2. In(T) = {x} \cup In(Tail(T))
      BY <2>1, <2>4, InIs
    <3>3. QED
      BY <1>5, <2>1, <2>4, <3>1, <3>2 DEF Sent, Covered
  <2>5. QED
    BY <1>1, <2>1, <2>3, <2>4
<1>8. Follow(Numbers(wire'), received')
  BY DEF Chain
<1>9. QED
  BY <1>3, <1>6, <1>7, <1>8 DEF OnTheWay, Chain, Covered

\* A message goes from the queue to the wire, or is kept back if it is none with a
\* record.
LEMMA ChainMoves ==
  ASSUME Types, Chain, msgs # <<>>, msgs' = Tail(msgs), received' = received, toSend' = toSend,
         \/ wire' = Append(wire, Head(msgs))
         \/ wire' = wire /\ Number(Head(msgs)) = NoRecord
  PROVE  OnTheWay
<1>1. PICK M \in Seq(Nat), W \in Seq(Nat), x \in Nat :
        M = Numbers(msgs) /\ W = Numbers(wire) /\ x = Number(Head(msgs))
  BY ChainIs
<1>2. /\ M # <<>> /\ Head(M) = x /\ Numbers(msgs') = Tail(M)
      /\ In(M) = {x} \cup In(Tail(M))
  BY <1>1, ChainIs, NumbersAre, InIs
<1>3. Follow(W, received) /\ Follow(M, OnWire) /\ Follow(toSend, InQueue)
      /\ OnWire = received \cup In(W) /\ InQueue = OnWire \cup In(M)
  BY <1>1 DEF Chain, OnWire, InQueue
<1>4. Follow(Numbers(wire'), received) /\ Covered(OnWire \cup {x}, OnWire')
      /\ Covered(OnWire, OnWire')
  <2>1. CASE wire' = Append(wire, Head(msgs))
    <3>1. Numbers(wire') = Append(W, x)
      BY <1>1, <2>1, ChainIs, NumbersAre
    <3>2. \A n \in 1..x - 1 : n \in received \cup In(W)
      BY <1>2, <1>3, FollowTail
    <3>3. Follow(Append(W, x), received)
      BY <1>3, <3>2, FollowAppend
    <3>4. In(Append(W, x)) = In(W) \cup {x}
      BY <1>1, InIs
    <3>5. OnWire' = OnWire \cup {x}
      BY <1>3, <3>1, <3>4 DEF OnWire
    <3>6. QED
      BY <3>1, <3>3, <3>5 DEF Covered
  <2>2. CASE wire' = wire /\ x = NoRecord
    <3>1. OnWire' = OnWire
      BY <2>2 DEF OnWire
    <3>2. QED
      BY <1>1, <1>3, <2>2, <3>1 DEF Covered
  <2>3. QED
    BY <1>1, <2>1, <2>2
<1>5. Follow(Numbers(msgs'), OnWire')
  BY <1>2, <1>3, <1>4, FollowTail
<1>6. Covered(InQueue, InQueue')
  BY <1>2, <1>3, <1>4 DEF Covered, InQueue
<1>7. Follow(toSend', InQueue')
  BY <1>3, <1>6, ChainIs, FollowMore
<1>8. Covered(Sent, Sent')
  BY <1>6 DEF Sent, Covered
<1>9. QED
  BY <1>4, <1>5, <1>7, <1>8 DEF OnTheWay, Chain

\* The server takes a message, and its record.
LEMMA ChainServes ==
  ASSUME Types, Chain, wire # <<>>, wire' = Tail(wire), msgs' = msgs, toSend' = toSend,
         Covered(received \cup {Number(Head(wire))}, received')
  PROVE  OnTheWay
<1>1. PICK W \in Seq(Nat), x \in Nat : W = Numbers(wire) /\ x = Number(Head(wire))
  BY ChainIs
<1>2. /\ W # <<>> /\ Head(W) = x /\ Numbers(wire') = Tail(W)
      /\ In(W) = {x} \cup In(Tail(W))
  BY <1>1, ChainIs, NumbersAre, InIs
<1>3. Follow(W, received) /\ Follow(Numbers(msgs), OnWire) /\ Follow(toSend, InQueue)
      /\ OnWire = received \cup In(W)
  BY <1>1 DEF Chain, OnWire
<1>4. Follow(Numbers(wire'), received')
  BY <1>1, <1>2, <1>3, FollowTail
<1>5. Covered(OnWire, OnWire')
  BY <1>1, <1>2, <1>3 DEF Covered, OnWire
<1>6. Covered(InQueue, InQueue') /\ Covered(Sent, Sent')
  BY <1>5 DEF Covered, InQueue, Sent
<1>7. Follow(Numbers(msgs'), OnWire') /\ Follow(toSend', InQueue')
  BY <1>3, <1>5, <1>6, ChainIs, FollowMore
<1>8. QED
  BY <1>4, <1>5, <1>6, <1>7 DEF OnTheWay, Chain

\* The last message is put on the wire.
LEMMA ChainEnds ==
  ASSUME Types, Chain, wire' = Append(wire, AppStop), msgs' = msgs, toSend' = toSend,
         received' = received
  PROVE  OnTheWay
<1>1. PICK W \in Seq(Nat) : W = Numbers(wire)
  BY ChainIs
<1>2. AppStop \in RecordParam /\ Number(AppStop) = 0
  BY MessageIs, ConstantsAre DEF Number
<1>3. Numbers(wire') = Append(W, 0) /\ In(Append(W, 0)) = In(W) \cup {0}
  <2>1. Numbers(wire') = Append(W, 0)
    BY <1>1, <1>2, ChainIs, NumbersAre
  <2>2. In(Append(W, 0)) = In(W) \cup {0}
    BY <1>1, InIs
  <2>3. QED
    BY <2>1, <2>2
<1>4. Follow(W, received) /\ Follow(Numbers(msgs), OnWire) /\ Follow(toSend, InQueue)
      /\ OnWire = received \cup In(W)
  BY <1>1 DEF Chain, OnWire
<1>5. Follow(Append(W, 0), received)
  BY <1>4, FollowAppend
<1>6. Covered(OnWire, OnWire') /\ Covered(InQueue, InQueue') /\ Covered(Sent, Sent')
  BY <1>3, <1>4 DEF Covered, OnWire, InQueue, Sent
<1>7. Follow(Numbers(msgs'), OnWire') /\ Follow(toSend', InQueue')
  BY <1>4, <1>6, ChainIs, FollowMore
<1>8. QED
  BY <1>3, <1>5, <1>6, <1>7 DEF OnTheWay, Chain

\* Records are read: those before them are on their way.
LEMMA ChainReads ==
  ASSUME Types, Chain, toSend = <<>>, NEW R, Follow(toSend', R), Covered(R, InQueue),
         toSend' \in Seq(Nat), msgs' = msgs, wire' = wire, received' = received
  PROVE  OnTheWay /\ InQueue' = InQueue
<1>1. OnWire' = OnWire /\ InQueue' = InQueue
  BY DEF OnWire, InQueue
<1>2. In(toSend) = {} /\ Sent = InQueue
  BY InIs DEF Sent
<1>3. Covered(Sent, Sent')
  BY <1>1, <1>2 DEF Sent, Covered
<1>4. Follow(toSend', InQueue)
  BY FollowMore
<1>5. QED
  BY <1>1, <1>3, <1>4 DEF OnTheWay, Chain, Covered

\* A step that moves no record leaves all on its way.
LEMMA ChainStays ==
  ASSUME Chain, msgs' = msgs, wire' = wire, received' = received, toSend' = toSend
  PROVE  OnTheWay
BY DEF OnTheWay, Chain, Covered, OnWire, InQueue, Sent

\* The records up to one are on their way, and stay so.
LEMMA AllCovered ==
  ASSUME Covered(Sent, Sent'), NEW k \in Nat, 1..k \subseteq Sent
  PROVE  1..k \subseteq Sent'
<1>1. \A n \in 1..k : n # NoRecord
  BY ConstantsAre
<1>2. QED
  BY <1>1 DEF Covered

\* What the reader was told stays to be read when it is told of something else, or
\* takes something else.
LEMMA ToldOn ==
  ASSUME Types, Told, Covered(Sent, Sent'), last' = last,
         \/ recordMsgs' = recordMsgs
         \/ \E m \in RecordMsg : m.type # "NewRecord" /\ recordMsgs' = Append(recordMsgs, m)
         \/ /\ recordMsgs # <<>> /\ Head(recordMsgs).type # "NewRecord"
            /\ recordMsgs' = Tail(recordMsgs)
  PROVE  Told'
<1>1. PICK k \in Nat : k = Len(recordMsgs) /\ DOMAIN recordMsgs = 1..k
  BY DEF Types, ReaderTypes
<1>2. last \in Nat /\ recordMsgs \in Seq(RecordMsg)
  BY WriterIs DEF Types, ReaderTypes
<1>3. 1..last \subseteq Sent => 1..last' \subseteq Sent'
  BY <1>2, AllCovered
<1>4. \A i \in 1..k : recordMsgs[i].type = "NewRecord" =>
        \/ 1..recordMsgs[i].index - 1 \subseteq Sent'
        \/ \E j \in 1..i - 1 : recordMsgs[j].type = "NewRecord"
  <2>1. SUFFICES ASSUME NEW i \in 1..k, recordMsgs[i].type = "NewRecord",
                        1..recordMsgs[i].index - 1 \subseteq Sent
                 PROVE  1..recordMsgs[i].index - 1 \subseteq Sent'
    BY <1>1 DEF Told
  <2>2. recordMsgs[i].index - 1 \in Nat
    BY <1>1, <1>2, <2>1, RecordMsgIs, ConstantsAre
  <2>3. QED
    BY <2>1, <2>2, AllCovered
<1>5. CASE recordMsgs' = recordMsgs
  <2>1. Has(recordMsgs, "NewRecord") \/ 1..last \subseteq Sent
    BY DEF Told
  <2>2. QED
    BY <1>1, <1>3, <1>4, <1>5, <2>1 DEF Told
<1>6. CASE \E m \in RecordMsg : m.type # "NewRecord" /\ recordMsgs' = Append(recordMsgs, m)
  <2>1. PICK m \in RecordMsg : m.type # "NewRecord" /\ recordMsgs' = Append(recordMsgs, m)
    BY <1>6
  <2>2. PICK r : r = recordMsgs'
    OBVIOUS
  <2>3. /\ DOMAIN r = 1..k + 1 /\ \A i \in 1..k : r[i] = recordMsgs[i]
        /\ r[k + 1] = m
    BY <1>1, <1>2, <2>1, <2>2, AppendIs
  <2>4. Has(r, "NewRecord") \/ 1..last' \subseteq Sent'
    BY <1>2, <1>3, <2>1, <2>2, ReaderTakes DEF Told
  <2>5. ASSUME NEW i \in 1..k + 1, r[i].type = "NewRecord"
        PROVE  \/ 1..r[i].index - 1 \subseteq Sent'
               \/ \E j \in 1..i - 1 : r[j].type = "NewRecord"
    <3>1. i \in 1..k
      <4>1. i # k + 1
        BY <2>1, <2>3, <2>5
      <4>2. QED
        BY <2>5, <4>1
    <3>2. \A j \in 1..i - 1 : j \in 1..k
      BY <3>1
    <3>3. QED
      BY <1>4, <2>3, <2>5, <3>1, <3>2
  <2>6. QED
    BY <2>2, <2>3, <2>4, <2>5 DEF Told
<1>7. CASE /\ recordMsgs # <<>> /\ Head(recordMsgs).type # "NewRecord"
           /\ recordMsgs' = Tail(recordMsgs)
  <2>1. PICK r : r = recordMsgs'
    OBVIOUS
  <2>2. /\ k >= 1 /\ DOMAIN r = 1..k - 1 /\ \A i \in 1..k - 1 : r[i] = recordMsgs[i + 1]
        /\ Head(recordMsgs) = recordMsgs[1]
    BY <1>1, <1>2, <1>7, <2>1, TailIs
  <2>3. Has(r, "NewRecord") \/ 1..last' \subseteq Sent'
    BY <1>3, <1>7, <2>1, ReaderGives DEF Told
  <2>4. ASSUME NEW i \in 1..k - 1, r[i].type = "NewRecord"
        PROVE  \/ 1..r[i].index - 1 \subseteq Sent'
               \/ \E j \in 1..i - 1 : r[j].type = "NewRecord"
    <3>1. PICK h \in 1..k : h = i + 1 /\ h - 1 = i
      BY <1>1, <2>2, <2>4
    <3>2. r[i] = recordMsgs[h]
      BY <2>2, <3>1
    <3>3. \/ 1..recordMsgs[h].index - 1 \subseteq Sent'
          \/ \E j \in 1..h - 1 : recordMsgs[j].type = "NewRecord"
      BY <1>4, <2>4, <3>1, <3>2
    <3>4. ASSUME NEW j \in 1..h - 1, recordMsgs[j].type = "NewRecord"
          PROVE  \E l \in 1..i - 1 : r[l].type = "NewRecord"
      <4>1. j # 1
        BY <1>7, <2>2, <3>4
      <4>2. j - 1 \in 1..i - 1 /\ j - 1 \in 1..k - 1 /\ (j - 1) + 1 = j
        BY <2>4, <3>1, <3>4, <4>1
      <4>3. r[j - 1] = recordMsgs[j]
        BY <2>2, <4>2
      <4>4. QED
        BY <3>4, <4>2, <4>3
    <3>5. QED
      BY <3>2, <3>3, <3>4
  <2>5. QED
    BY <2>1, <2>2, <2>3, <2>4 DEF Told
<1>8. QED
  BY <1>5, <1>6, <1>7

\* The reader is told of the batch that was written.
LEMMA ToldOfBatch ==
  ASSUME Types, Told, Sent' = Sent, NEW x \in Indices, x = last + 1,
         recordMsgs' = Append(recordMsgs, NewRecord(x))
  PROVE  Told'
<1>1. PICK k \in Nat : k = Len(recordMsgs) /\ DOMAIN recordMsgs = 1..k
  BY DEF Types, ReaderTypes
<1>2. last \in Nat /\ recordMsgs \in Seq(RecordMsg)
  BY WriterIs DEF Types, ReaderTypes
<1>3. PICK m \in RecordMsg : m = NewRecord(x) /\ m.type = "NewRecord" /\ m.index = x
  BY RecordMsgIs
<1>4. PICK r : r = recordMsgs'
  OBVIOUS
<1>5. /\ DOMAIN r = 1..k + 1 /\ \A i \in 1..k : r[i] = recordMsgs[i]
      /\ r[k + 1] = m
  BY <1>1, <1>2, <1>3, <1>4, AppendIs
<1>6. Has(r, "NewRecord")
  BY <1>3, <1>4, ReaderTakes
<1>7. ASSUME NEW i \in 1..k + 1, r[i].type = "NewRecord"
      PROVE  \/ 1..r[i].index - 1 \subseteq Sent
             \/ \E j \in 1..i - 1 : r[j].type = "NewRecord"
  <2>1. CASE i \in 1..k
    <3>1. \/ 1..recordMsgs[i].index - 1 \subseteq Sent
          \/ \E j \in 1..i - 1 : recordMsgs[j].type = "NewRecord"
      BY <1>1, <1>5, <1>7, <2>1 DEF Told
    <3>2. \A j \in 1..i - 1 : j \in 1..k
      BY <2>1
    <3>3. QED
      BY <1>5, <2>1, <3>1, <3>2
  <2>2. CASE i = k + 1
    <3>1. r[i].index - 1 = last
      BY <1>2, <1>3, <1>5, <2>2
    <3>2. i - 1 = k
      BY <2>2
    <3>3. CASE Has(recordMsgs, "NewRecord")
      BY <1>1, <1>5, <3>2, <3>3 DEF Has
    <3>4. CASE 1..last \subseteq Sent
      BY <3>1, <3>4
    <3>5. QED
      BY <3>3, <3>4 DEF Told
  <2>3. QED
    BY <1>7, <2>1, <2>2
<1>8. QED
  BY <1>4, <1>5, <1>6, <1>7 DEF Told

\* The records that the reader reads: all that were written, or its reading fails.
LEMMA ReadsOn ==
  ASSUME Types, Written, Written', Flow, Called, ReaderNewRecord
  PROVE  OnTheWay /\ (Doomed \/ Told)'
<1>1. /\ toSend = <<>> /\ recordMsgs # <<>> /\ Head(recordMsgs).type = "NewRecord"
      /\ recordMsgs' = Tail(recordMsgs)
      /\ msgs' = msgs /\ wire' = wire /\ received' = received /\ last' = last
      /\ toSend' = ReadFrom(Head(recordMsgs).index)
  BY DEF ReaderNewRecord, ReaderRecv, Called, netVars, writerVars
<1>2. PICK x \in Nat \ {0}, f \in {ReadFrom(Head(recordMsgs).index)} :
        x = Head(recordMsgs).index /\ f = ReadFrom(x)
  BY <1>1, ReaderGives, RecordMsgIs, ConstantsAre
<1>3. last \in Nat /\ x <= last /\ Head(recordMsgs) = recordMsgs[1] /\ 1 \in DOMAIN recordMsgs
  <2>1. Head(recordMsgs) = recordMsgs[1] /\ 1 \in DOMAIN recordMsgs
    BY <1>1, TailIs DEF Types, ReaderTypes
  <2>2. QED
    BY <1>1, <1>2, <2>1, WriterIs DEF Written
<1>4. /\ f \in Seq({AssertionFails} \cup Indices) /\ Follow(f, 1..x - 1)
      /\ AssertionFails \in In(f) \/ 1..last \subseteq (1..x - 1) \cup In(f)
  BY <1>2, <1>3, ReadFromIs DEF Types
<1>5. f \in Seq(Nat) /\ toSend' = f
  BY <1>1, <1>2, <1>4, ConstantsAre, SeqWiden
<1>6. 1..x - 1 \subseteq Sent /\ Sent = InQueue
  <2>1. ~Doomed /\ Sent = InQueue
    <3>1. In(toSend) = {}
      BY <1>1 DEF In
    <3>2. QED
      BY <3>1 DEF Doomed, Sent
  <2>2. \/ 1..recordMsgs[1].index - 1 \subseteq Sent
        \/ \E j \in 1..1 - 1 : recordMsgs[j].type = "NewRecord"
    BY <1>1, <1>3, <2>1 DEF Flow, Told
  <2>3. QED
    BY <1>2, <1>3, <2>1, <2>2
<1>7. OnTheWay /\ InQueue' = InQueue
  <2>1. Covered(1..x - 1, InQueue)
    BY <1>6 DEF Covered
  <2>2. Follow(toSend', 1..x - 1) /\ toSend' \in Seq(Nat)
    BY <1>4, <1>5
  <2>3. QED
    BY <1>1, <2>1, <2>2, ChainReads DEF Flow
<1>8. Sent' = InQueue \cup In(f)
  BY <1>5, <1>7 DEF Sent
<1>9. CASE AssertionFails \in In(f)
  BY <1>5, <1>7, <1>9 DEF Doomed
<1>10. CASE 1..last \subseteq (1..x - 1) \cup In(f)
  <2>1. 1..last' \subseteq Sent'
    BY <1>1, <1>6, <1>8, <1>10
  <2>2. recordMsgs' \in Seq(RecordMsg)
    BY <1>1, TailIs DEF Types, ReaderTypes
  <2>3. ASSUME NEW i \in DOMAIN recordMsgs', recordMsgs'[i].type = "NewRecord"
        PROVE  1..recordMsgs'[i].index - 1 \subseteq Sent'
    <3>1. recordMsgs'[i].index \in Nat /\ recordMsgs'[i].index <= last'
      BY <2>2, <2>3, RecordMsgIs, ConstantsAre DEF Written
    <3>2. 1..recordMsgs'[i].index - 1 \subseteq 1..last'
      BY <1>1, <1>3, <3>1
    <3>3. QED
      BY <2>1, <3>2
  <2>4. Told'
    BY <2>1, <2>3 DEF Told
  <2>5. QED
    BY <1>7, <2>4
<1>11. QED
  BY <1>4, <1>9, <1>10

\* Each step, while the call is alive.
LEMMA WayStep ==
  ASSUME First, FirstStep, Flow, Alive, Alive', Standing'
  PROVE  OnTheWay
<1>1. Types /\ Chain /\ StartInv /\ Called
  BY DEF First, Flow, Alive
<1>2. ~CallsAgain /\ ~Returns /\ server' # "panicked"
  BY DEF CallsAgain, Returns, Alive, Called
<1>3. ReaderNewRecord \/ ReaderSend \/ toSend' = toSend
  <2>1. CASE OnMsg \/ NormalStop \/ WriterRecv \/ WriterCollect \/ WriterWrite
    BY <2>1 DEF OnMsg, NormalStop, WriterRecv, WriterCollect, WriterWrite, readerVars
  <2>2. CASE ReaderClose \/ ReaderJoins \/ ReaderEnds
    BY <2>2 DEF ReaderClose, ReaderJoins, ReaderEnds
  <2>3. CASE StreamRecv \/ StreamClose \/ StreamDrain
    BY <2>3 DEF StreamRecv, StreamClose, StreamDrain, readerVars
  <2>4. CASE ServerFirst \/ ServerServes \/ ServerGivesUp \/ MainServed
    BY <2>4 DEF ServerFirst, ServerServes, ServerGivesUp, MainServed, readerVars
  <2>5. QED
    BY <1>2, <2>1, <2>2, <2>3, <2>4 DEF FirstStep
<1>4. CASE ReaderNewRecord
  BY <1>1, <1>4, ReadsOn, WrittenStep DEF First, FirstInv, Next, Reader
<1>5. CASE Aside /\ ~ReaderNewRecord
  <2>1. toSend' = toSend
    BY <1>3, <1>5 DEF Aside, ReaderSend, OnMsg, WriterRecv, WriterCollect, WriterWrite,
       ReaderClose, ReaderJoins, ReaderEnds, StreamClose, MainServed, ServerGivesUp, readerVars
  <2>2. QED
    BY <1>1, <1>5, <2>1, AsideIs, ChainStays
<1>6. CASE NormalStop
  <2>1. AppStop \in RecordParam /\ Number(AppStop) = 0
    BY MessageIs, ConstantsAre DEF Number
  <2>2. Behind(AppStop, InQueue)
    BY <2>1 DEF Behind
  <2>3. wire' = wire /\ received' = received /\ toSend' = toSend
    BY <1>6 DEF NormalStop, netVars, readerVars
  <2>4. msgs' = msgs \/ msgs' = Append(msgs, AppStop)
    BY <1>6 DEF NormalStop
  <2>5. QED
    BY <1>1, <2>1, <2>2, <2>3, <2>4, ChainQueueTakes, ChainStays
<1>7. CASE ReaderSend
  <2>1. toSend # <<>> /\ toSend' = Tail(toSend) /\ wire' = wire /\ received' = received
    BY <1>7 DEF ReaderSend, netVars
  <2>2. Head(toSend) # AssertionFails
    BY <1>7 DEF ReaderSend, Standing
  <2>3. PICK h \in Indices : h = Head(toSend)
    BY <1>1, <2>1, <2>2, TailIs DEF Types, ReaderTypes
  <2>4. PICK m \in RecordParam : m = Record(h) /\ Number(m) = h
    BY MessageIs DEF Number
  <2>5. msgs' = Append(msgs, m)
    BY <1>1, <1>7, <2>2, <2>3, <2>4 DEF ReaderSend, Called
  <2>6. Behind(m, InQueue)
    BY <1>1, <2>1, <2>3, <2>4, ChainIs, FollowTail DEF Behind, Chain
  <2>7. QED
    BY <1>1, <2>1, <2>3, <2>4, <2>5, <2>6, ChainQueueTakes
<1>8. CASE StreamRecv
  <2>1. msgs # <<>> /\ msgs' = Tail(msgs) /\ received' = received /\ toSend' = toSend
    BY <1>8 DEF StreamRecv, readerVars
  <2>2. Number(AppStop) = NoRecord
    BY MessageIs DEF Number
  <2>3. wire' = Append(wire, Head(msgs)) \/ (wire' = wire /\ Number(Head(msgs)) = NoRecord)
    BY <1>8, <2>2 DEF StreamRecv
  <2>4. QED
    BY <1>1, <2>1, <2>3, ChainMoves
<1>9. CASE StreamDrain
  <2>1. received' = received /\ toSend' = toSend
    BY <1>9 DEF StreamDrain, readerVars
  <2>2. CASE msgs = <<>>
    <3>1. wire' = Append(wire, AppStop) /\ msgs' = msgs
      BY <1>9, <2>2 DEF StreamDrain
    <3>2. QED
      BY <1>1, <2>1, <3>1, ChainEnds
  <2>3. CASE msgs # <<>>
    <3>1. wire' = Append(wire, Head(msgs)) /\ msgs' = Tail(msgs)
      BY <1>9, <2>3 DEF StreamDrain
    <3>2. QED
      BY <1>1, <2>1, <2>3, <3>1, ChainMoves
  <2>4. QED
    BY <2>2, <2>3
<1>10. CASE ServerFirst
  <2>1. /\ wire # <<>> /\ wire' = Tail(wire) /\ msgs' = msgs /\ toSend' = toSend
        /\ received' = received /\ server = "new"
    BY <1>10 DEF ServerFirst, ServerTakes, readerVars
  <2>2. Number(Head(wire)) = NoRecord
    BY <1>2, <1>10 DEF ServerFirst, Number
  <2>3. Covered(received \cup {Number(Head(wire))}, received')
    BY <2>1, <2>2 DEF Covered
  <2>4. QED
    BY <1>1, <2>1, <2>3, ChainServes
<1>11. CASE ServerServes
  <2>1. wire # <<>> /\ wire' = Tail(wire) /\ msgs' = msgs /\ toSend' = toSend
    BY <1>11 DEF ServerServes, ServerTakes, readerVars
  <2>2. Covered(received \cup {Number(Head(wire))}, received')
    BY <1>11 DEF ServerServes, Number, Covered
  <2>3. QED
    BY <1>1, <2>1, <2>2, ChainServes
<1>12. QED
  BY <1>2, <1>4, <1>5, <1>6, <1>7, <1>8, <1>9, <1>10, <1>11 DEF FirstStep, Aside

\* What changes the state of the request stream.
LEMMA StreamMoves ==
  ASSUME FirstStep, ~CallsAgain
  PROVE  stream' = stream \/ StreamRecv \/ StreamClose \/ StreamDrain
<1>1. CASE OnMsg \/ NormalStop \/ WriterRecv \/ WriterCollect \/ WriterWrite
  BY <1>1 DEF OnMsg, NormalStop, WriterRecv, WriterCollect, WriterWrite
<1>2. CASE ReaderNewRecord \/ ReaderSend \/ ReaderClose \/ ReaderJoins \/ ReaderEnds
  BY <1>2 DEF ReaderNewRecord, ReaderSend, ReaderClose, ReaderJoins, ReaderEnds
<1>3. CASE ServerFirst \/ ServerServes \/ ServerGivesUp \/ MainServed \/ Returns
  BY <1>3 DEF ServerFirst, ServerServes, ServerGivesUp, MainServed, Returns
<1>4. QED
  BY <1>1, <1>2, <1>3 DEF FirstStep

\* The reader fails or is told of what is written and not sent.
LEMMA ReaderIsTold ==
  ASSUME First, FirstStep, Flow, Alive, Alive', Standing'
  PROVE  (Doomed \/ Told)'
<1>1. Types /\ WriterInv /\ Called /\ (Doomed \/ Told) /\ OnTheWay
  BY WayStep DEF First, Flow, Alive
<1>2. Covered(Sent, Sent')
  BY <1>1 DEF OnTheWay
<1>3. ~Returns /\ ~CallsAgain
  BY DEF CallsAgain, Returns, Alive, Called
<1>4. CASE ReaderNewRecord
  BY <1>1, <1>4, ReadsOn, WrittenStep DEF First, FirstInv, Next, Reader
<1>5. CASE ~ReaderNewRecord
  <2>1. Doomed => Doomed'
    <3>1. CASE ReaderSend
      <4>1. toSend # <<>> /\ toSend' = Tail(toSend) /\ Head(toSend) # AssertionFails
        BY <3>1 DEF ReaderSend, Standing
      <4>2. In(toSend) = {Head(toSend)} \cup In(toSend')
        BY <1>1, <4>1, ChainIs, InIs
      <4>3. QED
        BY <4>1, <4>2 DEF Doomed
    <3>2. CASE OnMsg \/ NormalStop \/ WriterRecv \/ WriterCollect \/ WriterWrite
      BY <3>2 DEF OnMsg, NormalStop, WriterRecv, WriterCollect, WriterWrite, readerVars, Doomed
    <3>3. CASE ReaderClose \/ ReaderJoins \/ ReaderEnds
      BY <3>3 DEF ReaderClose, ReaderJoins, ReaderEnds, Doomed
    <3>4. CASE StreamRecv \/ StreamClose \/ StreamDrain
      BY <3>4 DEF StreamRecv, StreamClose, StreamDrain, readerVars, Doomed
    <3>5. CASE ServerFirst \/ ServerServes \/ ServerGivesUp \/ MainServed
      BY <3>5 DEF ServerFirst, ServerServes, ServerGivesUp, MainServed, readerVars, Doomed
    <3>6. QED
      BY <1>3, <1>5, <3>1, <3>2, <3>3, <3>4, <3>5 DEF FirstStep
  <2>2. CASE WriterWrite
    <3>1. writer = "writing" /\ Working
      BY <2>2 DEF WriterWrite, Working
    <3>2. reader # "ended" /\ reader # "failed"
      BY <3>1 DEF Flow, Drained, First, Standing
    <3>3. batch[1] \in Indices /\ batch[1] = last + 1
      BY <1>1, <2>2, WriteIs DEF Types
    <3>4. recordMsgs' = Append(recordMsgs, NewRecord(batch[1]))
      BY <2>2, <3>2 DEF WriterWrite, ReaderGone
    <3>5. PICK x \in Indices : x = batch[1]
      BY <3>3
    <3>6. Sent' = Sent
      BY <2>2 DEF WriterWrite, Sent, InQueue, OnWire, readerVars, netVars
    <3>7. QED
      BY <1>1, <2>1, <3>3, <3>4, <3>5, <3>6, ToldOfBatch
  <2>3. CASE ~WriterWrite
    <3>1. last' = last
      <4>1. CASE OnMsg \/ NormalStop \/ WriterRecv \/ WriterCollect
        BY <4>1 DEF OnMsg, NormalStop, WriterRecv, WriterCollect, writerVars
      <4>2. CASE ReaderSend \/ ReaderClose \/ ReaderJoins \/ ReaderEnds
        BY <4>2 DEF ReaderSend, ReaderClose, ReaderJoins, ReaderEnds, writerVars
      <4>3. CASE StreamRecv \/ StreamClose \/ StreamDrain
        BY <4>3 DEF StreamRecv, StreamClose, StreamDrain, writerVars
      <4>4. CASE ServerFirst \/ ServerServes \/ ServerGivesUp \/ MainServed
        BY <4>4 DEF ServerFirst, ServerServes, ServerGivesUp, MainServed, writerVars
      <4>5. QED
        BY <1>3, <1>5, <2>3, <4>1, <4>2, <4>3, <4>4 DEF FirstStep
    <3>2. \/ recordMsgs' = recordMsgs
          \/ \E m \in RecordMsg : m.type # "NewRecord" /\ recordMsgs' = Append(recordMsgs, m)
          \/ /\ recordMsgs # <<>> /\ Head(recordMsgs).type # "NewRecord"
             /\ recordMsgs' = Tail(recordMsgs)
      <4>1. Close \in RecordMsg /\ Close.type # "NewRecord"
        BY RecordMsgIs
      <4>2. ReaderClose => Head(recordMsgs).type = "Close"
        BY DEF ReaderClose, ReaderRecv
      <4>3. QED
        BY <1>5, <2>3, <4>1, <4>2, ToldStep
    <3>3. Told => Told'
      BY <1>1, <1>2, <3>1, <3>2, ToldOn
    <3>4. QED
      BY <1>1, <2>1, <3>3
  <2>4. QED
    BY <2>2, <2>3
<1>6. QED
  BY <1>4, <1>5

\* The reader ends, and when it has the writer and the queue of the reader rest.
LEMMA DrainedStep ==
  ASSUME First, FirstStep, Flow, Alive, Alive', Standing'
  PROVE  Drained'
<1>1. Types /\ WriterInv /\ Called /\ Drained /\ ~Returns /\ ~CallsAgain
  BY DEF First, Flow, CallsAgain, Returns, Alive, Called
<1>2. reader = "ended" => stopAt # Running /\ ~Working
  BY <1>1, WriterIs, ConstantsAre DEF Drained
<1>3. reader = "ended" =>
        UNCHANGED <<writer, last, stopAt, toSend, recordMsgs, reader>>
  <2>1. SUFFICES ASSUME reader = "ended"
                 PROVE  UNCHANGED <<writer, last, stopAt, toSend, recordMsgs, reader>>
    OBVIOUS
  <2>2. ~WriterRecv /\ ~WriterCollect /\ ~WriterWrite /\ ~NormalStop
    BY <1>2, <2>1 DEF Working, WriterRecv, WriterCollect, WriterWrite, NormalStop
  <2>3. /\ ~ReaderNewRecord /\ ~ReaderClose /\ ~ReaderJoins /\ ~ReaderEnds /\ ~ReaderSend
        /\ ~(StreamClose /\ ~ReaderGone)
    BY <1>1, <2>1 DEF ReaderNewRecord, ReaderRecv, ReaderClose, ReaderJoins, ReaderEnds, ReaderSend,
                      ReaderGone, Drained
  <2>4. CASE OnMsg \/ StreamRecv \/ StreamDrain
    BY <2>4 DEF OnMsg, StreamRecv, StreamDrain, writerVars, readerVars, appVars
  <2>5. CASE ServerFirst \/ ServerServes \/ ServerGivesUp \/ MainServed
    BY <2>5 DEF ServerFirst, ServerServes, ServerGivesUp, MainServed, writerVars, readerVars, appVars
  <2>6. QED
    BY <1>1, <2>2, <2>3, <2>4, <2>5 DEF FirstStep
<1>4. reader' = "ended" => reader = "ended" \/ ReaderEnds
  <2>1. CASE OnMsg \/ NormalStop \/ WriterRecv \/ WriterCollect \/ WriterWrite
    BY <2>1 DEF OnMsg, NormalStop, WriterRecv, WriterCollect, WriterWrite, readerVars
  <2>2. CASE ReaderNewRecord \/ ReaderSend \/ ReaderClose \/ ReaderJoins
    BY <1>1, <2>2 DEF ReaderNewRecord, ReaderSend, ReaderClose, ReaderJoins, Called
  <2>3. CASE StreamRecv \/ StreamClose \/ StreamDrain
    BY <2>3 DEF StreamRecv, StreamClose, StreamDrain, readerVars
  <2>4. CASE ServerFirst \/ ServerServes \/ ServerGivesUp \/ MainServed
    BY <2>4 DEF ServerFirst, ServerServes, ServerGivesUp, MainServed, readerVars
  <2>5. QED
    BY <1>1, <2>1, <2>2, <2>3, <2>4 DEF FirstStep
<1>5. reader' = "ended" =>
        ~Working' /\ stopAt' <= last' /\ toSend' = <<>> /\ recordMsgs' = <<>>
  <2>1. CASE reader = "ended"
    BY <1>1, <1>3, <2>1 DEF Drained, Working
  <2>2. CASE ReaderEnds
    <3>1. reader = "draining" /\ ~Working /\ stopAt <= last
      BY <1>1, <2>2 DEF ReaderEnds, WriterInv
    <3>2. /\ toSend' = <<>> /\ recordMsgs' = <<>>
          /\ UNCHANGED <<writer, stopAt, last>>
      BY <2>2 DEF ReaderEnds, writerVars, appVars
    <3>3. QED
      BY <3>1, <3>2 DEF Working
  <2>3. QED
    BY <1>4, <2>1, <2>2
<1>6. stream' \in {"draining", "ended"} => reader' = "ended"
  <2>1. StreamDrain => reader = "ended"
    <3>1. StreamDrain => ReaderGone \/ stream = "draining"
      BY DEF StreamDrain, CloseAnswered, Polled
    <3>2. reader # "failed"
      BY DEF First, Standing
    <3>3. QED
      BY <1>1, <3>1, <3>2 DEF ReaderGone, Drained
  <2>2. stream' = stream \/ StreamRecv \/ StreamClose \/ StreamDrain
    BY <1>1, StreamMoves
  <2>3. StreamRecv \/ StreamClose => stream' \notin {"draining", "ended"}
    BY DEF StreamRecv, StreamClose, Polled
  <2>4. QED
    BY <1>1, <1>3, <2>1, <2>2, <2>3 DEF Drained
<1>7. QED
  BY <1>5, <1>6 DEF Drained

\* AppStop comes onto the wire behind all records until the stop.
LEMMA StopIsLastStep ==
  ASSUME First, FirstStep, Flow, Alive, Alive', Standing'
  PROVE  StopIsLast'
<1>1. /\ Types /\ WriterInv /\ StopInv /\ Called /\ Drained /\ StopIsLast /\ (Doomed \/ Told)
      /\ OnTheWay /\ ~Returns /\ ~CallsAgain
  BY WayStep DEF First, Flow, CallsAgain, Returns, Alive, Called
<1>2. reader = "ended" => stopAt # Running
  BY <1>1, WriterIs, ConstantsAre DEF Drained
<1>3. wire \in Seq(RecordParam) /\ DOMAIN wire = 1..Len(wire) /\ Len(wire) \in Nat
  BY <1>1 DEF Types, StreamTypes
<1>4. stopAt' = stopAt \/ NormalStop
  BY <1>1, Frames DEF FirstStep, OnMsg, NormalStop, appVars, WriterRecv, WriterCollect, WriterWrite,
    ReaderNewRecord, ReaderSend, ReaderClose, ReaderJoins, ReaderEnds, StreamRecv, StreamClose,
    StreamDrain, ServerFirst, ServerServes, ServerGivesUp, MainServed
<1>5. CASE StreamDrain /\ msgs = <<>>
  <2>1. /\ wire' = Append(wire, AppStop) /\ msgs' = msgs /\ stream' = "ended" /\ stopAt' = stopAt
        /\ received' = received /\ stream # "ended"
    BY <1>5 DEF StreamDrain, CloseAnswered, Polled, appVars
  <2>2. reader = "ended"
    <3>1. ReaderGone \/ stream = "draining"
      BY <1>5 DEF StreamDrain, CloseAnswered, Polled
    <3>2. reader # "failed"
      BY DEF First, Standing
    <3>3. QED
      BY <1>1, <3>1, <3>2 DEF ReaderGone, Drained
  <2>3. toSend = <<>> /\ recordMsgs = <<>> /\ stopAt <= last
    BY <1>1, <2>2 DEF Drained
  <2>4. In(toSend) = {} /\ In(Numbers(msgs)) = {} /\ Sent = OnWire
    <3>1. In(toSend) = {}
      BY <2>3 DEF In
    <3>2. DOMAIN msgs = {}
      BY <1>5
    <3>3. In(Numbers(msgs)) = {}
      BY <3>2 DEF In, Numbers
    <3>4. QED
      BY <3>1, <3>3 DEF Sent, InQueue
  <2>5. 1..last \subseteq OnWire
    <3>1. ~Doomed /\ ~Has(recordMsgs, "NewRecord")
      BY <2>3, <2>4, HasNone DEF Doomed
    <3>2. QED
      BY <1>1, <2>4, <3>1 DEF Told
  <2>6. 1..stopAt \subseteq OnWire
    BY <1>1, <2>3, <2>5, WriterIs
  <2>7. 1..stopAt' \subseteq OnWire'
    <3>1. \A n \in 1..stopAt : n # NoRecord
      BY <1>1, WriterIs, ConstantsAre
    <3>2. QED
      BY <1>1, <2>1, <2>6, <3>1 DEF OnTheWay, Covered
  <2>8. \A i \in 1..Len(wire) : wire[i].type # "AppStop"
    BY <1>1, <1>3, <2>1 DEF StopIsLast
  <2>9. PICK k \in Nat, r \in {wire'} : k = Len(wire) /\ r = wire'
    BY <1>3
  <2>10. /\ DOMAIN r = 1..k + 1 /\ Len(r) = k + 1 /\ \A i \in 1..k : r[i] = wire[i]
    BY <1>3, <2>1, <2>9, MessageIs, AppendIs
  <2>11. \A i \in 1..k + 1 : r[i].type = "AppStop" => i = k + 1
    BY <2>8, <2>9, <2>10
  <2>12. QED
    BY <2>1, <2>7, <2>9, <2>10, <2>11 DEF StopIsLast
<1>6. CASE (StreamRecv \/ StreamDrain) /\ msgs # <<>> /\ wire' = Append(wire, Head(msgs))
  <2>1. stream # "ended" /\ stream' # "ended"
    BY <1>6 DEF StreamRecv, StreamDrain, Polled
  <2>2. Head(msgs).type # "AppStop" /\ Head(msgs) \in RecordParam
    <3>1. CASE StreamRecv /\ Head(msgs) # AppStop
      BY <1>1, <1>6, <3>1, QueueGives, MessageIs
    <3>2. CASE StreamRecv /\ Head(msgs) = AppStop
      <4>1. wire' = wire
        BY <3>2 DEF StreamRecv
      <4>2. Len(wire') = Len(wire) + 1
        BY <1>1, <1>3, <1>6, QueueGives, AppendIs
      <4>3. QED
        BY <1>3, <4>1, <4>2
    <3>3. CASE StreamDrain
      <4>1. reader = "ended" /\ main # "returned"
        <5>1. ReaderGone \/ stream = "draining"
          BY <3>3 DEF StreamDrain, CloseAnswered, Polled
        <5>2. reader # "failed"
          BY DEF First, Standing
        <5>3. QED
          BY <1>1, <5>1, <5>2 DEF ReaderGone, Drained, Called
      <4>2. ~Has(msgs, "AppStop")
        BY <1>1, <4>1 DEF StopInv, Ending
      <4>3. QED
        BY <1>1, <1>6, <4>2, QueueGives
    <3>4. QED
      BY <1>6, <3>1, <3>2, <3>3
  <2>3. PICK k \in Nat, r \in {wire'} : k = Len(wire) /\ r = wire'
    BY <1>3
  <2>4. PICK m \in RecordParam : m = Head(msgs)
    BY <2>2
  <2>5. /\ DOMAIN r = 1..k + 1 /\ \A i \in 1..k : r[i] = wire[i]
        /\ r[k + 1] = m
    BY <1>3, <1>6, <2>3, <2>4, AppendIs
  <2>6. \A i \in 1..k : wire[i].type # "AppStop"
    BY <1>1, <1>3, <2>1, <2>3 DEF StopIsLast
  <2>7. \A i \in 1..k + 1 : i \in 1..k \/ i = k + 1
    OBVIOUS
  <2>8. \A i \in 1..k + 1 : r[i].type # "AppStop"
    BY <2>2, <2>4, <2>5, <2>6, <2>7
  <2>9. QED
    BY <2>1, <2>3, <2>5, <2>8 DEF StopIsLast
<1>7. ASSUME wire' = wire \/ ((ServerFirst \/ ServerServes) /\ wire # <<>> /\ wire' = Tail(wire)),
             ~StreamDrain
      PROVE  StopIsLast'
  <2>1. stream' = stream \/ (stream # "ended" /\ stream' # "ended")
    BY <1>1, <1>7, StreamMoves DEF StreamRecv, StreamClose, Polled
  <2>2. ASSUME stream' = "ended"
        PROVE  1..stopAt' \subseteq OnWire'
    <3>1. stream = "ended" /\ reader = "ended"
      BY <1>1, <2>1, <2>2 DEF Drained
    <3>2. stopAt' = stopAt
      BY <1>2, <1>4, <3>1 DEF NormalStop
    <3>3. 1..stopAt \subseteq OnWire /\ \A n \in 1..stopAt : n # NoRecord
      BY <1>1, <3>1, WriterIs, ConstantsAre DEF StopIsLast
    <3>4. QED
      BY <1>1, <3>2, <3>3 DEF OnTheWay, Covered
  <2>3. CASE wire' = wire
    BY <1>1, <2>1, <2>2, <2>3 DEF StopIsLast
  <2>4. CASE (ServerFirst \/ ServerServes) /\ wire # <<>> /\ wire' = Tail(wire)
    <3>1. stream' = stream
      BY <2>4 DEF ServerFirst, ServerServes
    <3>2. PICK k \in Nat, r \in {wire'} : k = Len(wire) /\ r = wire'
      BY <1>3
    <3>3. /\ DOMAIN r = 1..k - 1 /\ Len(r) = k - 1 /\ \A i \in 1..k - 1 : r[i] = wire[i + 1]
      BY <1>3, <2>4, <3>2, TailIs
    <3>4. ASSUME NEW i \in 1..k - 1, r[i].type = "AppStop"
          PROVE  i = k - 1 /\ stream = "ended"
      <4>1. PICK h \in 1..k : h = i + 1
        BY <3>4
      <4>2. wire[h].type = "AppStop" /\ h \in DOMAIN wire
        BY <1>3, <3>2, <3>3, <3>4, <4>1
      <4>3. h = k /\ stream = "ended"
        BY <1>1, <3>2, <4>2 DEF StopIsLast
      <4>4. QED
        BY <3>4, <4>1, <4>3
    <3>5. QED
      BY <2>2, <3>1, <3>2, <3>3, <3>4 DEF StopIsLast
  <2>5. QED
    BY <1>7, <2>3, <2>4
<1>8. CASE StreamDrain
  <2>1. CASE msgs # <<>>
    <3>1. wire' = Append(wire, Head(msgs))
      BY <1>8, <2>1 DEF StreamDrain
    <3>2. QED
      BY <1>6, <1>8, <2>1, <3>1
  <2>2. QED
    BY <1>5, <1>8, <2>1
<1>9. CASE ~StreamDrain
  <2>1. CASE StreamRecv /\ msgs # <<>> /\ wire' = Append(wire, Head(msgs))
    BY <1>6, <2>1
  <2>2. CASE wire' = wire \/ ((ServerFirst \/ ServerServes) /\ wire # <<>> /\ wire' = Tail(wire))
    BY <1>7, <1>9, <2>2
  <2>3. QED
    BY <1>1, <1>9, <2>1, <2>2, WireStep
<1>10. QED
  BY <1>8, <1>9

\* The way of the records stays in order, through to the stop.
LEMMA FlowStep ==
  ASSUME First, FirstStep, Flow, Alive, Alive', Standing'
  PROVE  Flow'
BY WayStep, ReaderIsTold, DrainedStep, StopIsLastStep DEF Flow, OnTheWay

\* What a step makes of the server.
LEMMA ServerMoves ==
  ASSUME First, FirstStep
  PROVE  /\ server' = "serving" =>
              \/ server = "serving"
              \/ ServerFirst /\ server = "new" /\ wire # <<>> /\ Head(wire).type = "AppStart"
         /\ server' = "new" => server = "new" \/ CallsAgain
         /\ server' = "stopped" => server = "stopped" \/ ServerServes
         /\ ServerServes \/ received' = received
<1> USE DEF netVars
<1>1. CASE OnMsg \/ NormalStop \/ WriterRecv \/ WriterCollect \/ WriterWrite
  BY <1>1 DEF OnMsg, NormalStop, WriterRecv, WriterCollect, WriterWrite
<1>2. CASE ReaderNewRecord \/ ReaderSend \/ ReaderClose \/ ReaderJoins \/ ReaderEnds
  BY <1>2 DEF ReaderNewRecord, ReaderSend, ReaderClose, ReaderJoins, ReaderEnds
<1>3. CASE StreamRecv \/ StreamClose \/ StreamDrain \/ MainServed \/ Returns
  BY <1>3 DEF StreamRecv, StreamClose, StreamDrain, MainServed, Returns
<1>4. CASE ServerFirst
  BY <1>4 DEF ServerFirst, ServerTakes
<1>5. CASE ServerServes
  BY <1>5 DEF ServerServes, ServerTakes
<1>6. CASE ServerGivesUp \/ CallsAgain
  BY <1>6 DEF ServerGivesUp, CallsAgain
<1>7. QED
  BY <1>1, <1>2, <1>3, <1>4, <1>5, <1>6 DEF FirstStep

\* A call that can still serve could do so before the step.
LEMMA AliveStays ==
  ASSUME First, FirstStep, Types', Alive'
  PROVE  Alive
<1>1. Opened /\ Types /\ StartInv
  BY DEF First, FirstInv
<1>2. Opens' => Has(msgs', "AppStart") \/ Has(wire', "AppStart")
  <2>1. wire' \in Seq(RecordParam) /\ msgs' \in Seq(RecordParam)
    BY DEF Types, StreamTypes
  <2>2. (wire' # <<>> => 1 \in DOMAIN wire') /\ (msgs' # <<>> => 1 \in DOMAIN msgs')
    BY <2>1
  <2>3. QED
    BY <2>2 DEF Opens, Has
<1>3. ~CallsAgain
  <2>1. CallsAgain => ~Has(msgs', "AppStart") /\ ~Has(wire', "AppStart") /\ server' = "new"
    BY <1>1, HasNone DEF CallsAgain, Opened
  <2>2. QED
    BY <1>2, <2>1 DEF Alive
<1>4. Called
  <2>1. main' = main \/ MainServed \/ Returns
    <3>1. CASE OnMsg \/ NormalStop \/ WriterRecv \/ WriterCollect \/ WriterWrite
      BY <3>1 DEF OnMsg, NormalStop, WriterRecv, WriterCollect, WriterWrite, mainVars
    <3>2. CASE ReaderNewRecord \/ ReaderSend \/ ReaderClose \/ ReaderJoins \/ ReaderEnds
      BY <3>2 DEF ReaderNewRecord, ReaderSend, ReaderClose, ReaderJoins, ReaderEnds, mainVars
    <3>3. CASE StreamRecv \/ StreamClose \/ StreamDrain
      BY <3>3 DEF StreamRecv, StreamClose, StreamDrain, mainVars
    <3>4. CASE ServerFirst \/ ServerServes \/ ServerGivesUp
      BY <3>4 DEF ServerFirst, ServerServes, ServerGivesUp, mainVars
    <3>5. QED
      BY <1>3, <3>1, <3>2, <3>3, <3>4 DEF FirstStep
  <2>2. QED
    BY <2>1 DEF Alive, Called, MainServed, Returns
<1>5. CASE server' = "serving"
  <2>1. CASE server = "serving"
    BY <1>4, <2>1 DEF Alive
  <2>2. CASE server = "new" /\ wire # <<>> /\ Head(wire).type = "AppStart"
    <3>1. Has(wire, "AppStart")
      BY <1>1, <2>2, WireGives
    <3>2. Opens
      BY <1>1, <2>2, <3>1 DEF Opened
    <3>3. QED
      BY <1>4, <2>2, <3>2 DEF Alive
  <2>3. QED
    BY <1>5, <2>1, <2>2, ServerMoves
<1>6. CASE server' = "new" /\ Opens'
  <2>1. server = "new"
    BY <1>3, <1>6, ServerMoves
  <2>2. Has(msgs, "AppStart") \/ Has(wire, "AppStart")
    BY <1>2, <1>6, NoStartComes
  <2>3. Opens
    BY <1>1, <2>1, <2>2 DEF Opened
  <2>4. QED
    BY <1>4, <2>1, <2>3 DEF Alive
<1>7. QED
  BY <1>5, <1>6 DEF Alive

\* The server has with a record those before it, and at the stop all until the stop.
LEMMA ReachedStep ==
  ASSUME First, FirstStep
  PROVE  Reached'
<1>1. Reached /\ Types /\ received \subseteq 1..MaxIndex
  BY ConstantsAre DEF First, FirstInv, Types, ServerTypes
<1>2. CASE ServerServes
  <2>1. /\ server = "serving" /\ Called /\ wire # <<>> /\ stopAt' = stopAt
    BY <1>2 DEF ServerServes, ServerTakes, appVars
  <2>2. Flow
    BY <2>1 DEF Alive, First, FirstInv
  <2>3. PICK W \in Seq(Nat) : W = Numbers(wire)
    BY <1>1, ChainIs
  <2>4. CASE Head(wire).type = "Record"
    <3>1. server' = "serving" /\ received' = received \cup {Head(wire).index}
      BY <1>2, <2>1, <2>4 DEF ServerServes
    <3>2. PICK x \in Nat : x = Head(W) /\ x = Head(wire).index /\ W # <<>>
      BY <1>1, <2>1, <2>3, <2>4, ChainIs, NumbersAre DEF Number
    <3>3. \A n \in 1..x - 1 : n \in received
      BY <2>2, <2>3, <3>2, FollowTail DEF Flow, Chain
    <3>4. ASSUME NEW i \in received', NEW n \in 1..i
          PROVE  n \in received'
      <4>1. CASE i \in received
        BY <1>1, <3>1, <3>4, <4>1 DEF Reached
      <4>2. CASE i = x
        <5>1. n \in 1..x - 1 \/ n = x
          BY <3>4, <4>2
        <5>2. QED
          BY <3>1, <3>2, <3>3, <5>1
      <4>3. QED
        BY <3>1, <3>2, <3>4, <4>1, <4>2
    <3>5. QED
      BY <3>1, <3>4 DEF Reached
  <2>5. CASE Head(wire).type # "Record"
    <3>1. received' = received
      BY <1>2, <2>5 DEF ServerServes
    <3>2. Head(wire).type = "AppStop"
      <4>1. Head(wire).type \in {"AppStart", "AppStop", "Record"}
        BY <1>1, <2>1, WireGives, MessageIs
      <4>2. ~Has(wire, "AppStart")
        BY <2>1 DEF First, StartInv
      <4>3. QED
        BY <1>1, <2>1, <2>5, <4>1, <4>2, WireGives
    <3>3. DOMAIN wire = {1} /\ wire[1].type = "AppStop" /\ stream = "ended"
      <4>1. /\ Head(wire) = wire[1] /\ Len(wire) \in Nat /\ Len(wire) >= 1
            /\ DOMAIN wire = 1..Len(wire)
        BY <1>1, <2>1, ChainIs, TailIs
      <4>2. Len(wire) = 1 /\ stream = "ended"
        BY <2>2, <3>2, <4>1 DEF Flow, StopIsLast
      <4>3. QED
        BY <3>2, <4>1, <4>2
    <3>4. In(Numbers(wire)) = {NoRecord}
      <4>1. Number(wire[1]) = NoRecord
        BY <3>3 DEF Number
      <4>2. QED
        BY <3>3, <4>1 DEF In, Numbers
    <3>5. \A n \in 1..stopAt : n \in received
      <4>1. 1..stopAt \subseteq received \cup {NoRecord}
        BY <2>2, <3>3, <3>4 DEF Flow, StopIsLast, OnWire
      <4>2. \A n \in 1..stopAt : n # NoRecord
        BY <1>1, WriterIs, ConstantsAre
      <4>3. QED
        BY <4>1, <4>2
    <3>6. QED
      BY <1>1, <2>1, <3>1, <3>5 DEF Reached
  <2>6. QED
    BY <2>4, <2>5
<1>3. CASE ~ServerServes
  <2>1. received' = received /\ (server' = "stopped" => server = "stopped")
    BY <1>3, ServerMoves
  <2>2. server = "stopped" => stopAt' = stopAt
    <3>1. CASE NormalStop
      <4>1. stopAt = MaxIndex + 1 /\ MaxIndex \in Nat
        BY <3>1, ConstantsAre DEF NormalStop
      <4>2. MaxIndex + 1 \in 1..stopAt /\ MaxIndex + 1 \notin received
        BY <1>1, <4>1
      <4>3. QED
        BY <1>1, <4>2 DEF Reached
    <3>2. CASE UNCHANGED appVars
      BY <3>2 DEF appVars
    <3>3. CASE OnMsg \/ CallsAgain \/ Returns
      BY <3>3 DEF OnMsg, CallsAgain, Returns, appVars
    <3>4. CASE WriterRecv \/ WriterCollect \/ WriterWrite
      BY <3>4 DEF WriterRecv, WriterCollect, WriterWrite, appVars
    <3>5. CASE ReaderNewRecord \/ ReaderSend \/ ReaderClose \/ ReaderJoins \/ ReaderEnds
      BY <3>5 DEF ReaderNewRecord, ReaderSend, ReaderClose, ReaderJoins, ReaderEnds, appVars
    <3>6. CASE StreamRecv \/ StreamClose \/ StreamDrain
      BY <3>6 DEF StreamRecv, StreamClose, StreamDrain, appVars
    <3>7. CASE ServerFirst \/ ServerGivesUp \/ MainServed
      BY <3>7 DEF ServerFirst, ServerGivesUp, MainServed, appVars
    <3>8. QED
      BY <1>3, <3>1, <3>3, <3>4, <3>5, <3>6, <3>7 DEF FirstStep
  <2>3. QED
    BY <1>1, <2>1, <2>2 DEF Reached
<1>4. QED
  BY <1>2, <1>3

\* The first connection keeps the order as long as it stands.
LEMMA FirstInvStep ==
  ASSUME IInv, Types', Next
  PROVE  FirstInv'
<1>1. Written'
  BY WrittenStep DEF IInv, FirstInv
<1>2. ASSUME Standing'
      PROVE  Upright' /\ Opened' /\ Reached' /\ (Alive' => Flow')
  <2>1. First
    BY <1>2, StandsOn DEF First, IInv
  <2>2. FirstStep
    BY <1>2, <2>1, FirstSteps
  <2>3. ASSUME Alive'
        PROVE  Flow'
    <3>1. Alive
      BY <2>1, <2>2, <2>3, AliveStays
    <3>2. Flow
      BY <2>1, <3>1 DEF First, FirstInv
    <3>3. QED
      BY <1>2, <2>1, <2>2, <2>3, <3>1, <3>2, FlowStep
  <2>4. QED
    BY <2>1, <2>2, <2>3, UprightStep, OpenedStep, ReachedStep
<1>3. QED
  BY <1>1, <1>2 DEF FirstInv
-----------------------------------------------------------------------------
\* At the start nothing is recorded and AppStart is in the queue.
LEMMA InitIInv == Init => IInv
<1> SUFFICES ASSUME Init PROVE IInv
  OBVIOUS
<1>1. /\ MaxIndex \in Nat /\ Running = MaxIndex + 1 /\ NoRecord = 0
      /\ MaxBreaks[0] \in Nat
  BY ConstantsAre, ConstantsAssumption
<1>2. PICK m \in RecordParam : m = AppStart(FALSE) /\ m.type = "AppStart" /\ ~m.reconnect
  BY MessageIs
<1>3. /\ msgs = <<m>> /\ msgs \in Seq(RecordParam) /\ DOMAIN msgs = {1}
      /\ msgs # <<>> /\ msgs[1] = m
  <2>1. msgs = <<m>>
    BY <1>2 DEF Init
  <2>2. <<m>> \in Seq(RecordParam)
    OBVIOUS
  <2>3. DOMAIN <<m>> = {1} /\ <<m>>[1] = m /\ <<m>> # <<>>
    OBVIOUS
  <2>4. QED
    BY <2>1, <2>2, <2>3
<1>4. DOMAIN wire = {} /\ DOMAIN recordMsgs = {} /\ DOMAIN toWriter = {} /\ DOMAIN toSend = {}
      /\ DOMAIN batch = {}
  BY DEF Init
<1>5. Types
  <2>1. Nothing \in Nat /\ 0 \in 0..MaxIndex /\ 0 \in 0..0
    BY <1>1 DEF Nothing
  <2>2. AppTypes
    BY <1>1, <2>1 DEF Init, AppTypes
  <2>3. WriterTypes
    BY <1>1, <2>1, ConstantsAre DEF Init, WriterTypes
  <2>4. ReaderTypes
    BY DEF Init, ReaderTypes
  <2>5. StreamTypes
    <3>1. wire = <<>> /\ Len(wire) = 0 /\ wire \in Seq(RecordParam) /\ stream = "open"
      BY DEF Init
    <3>2. Window \in Nat
      BY ConstantsAssumption
    <3>3. QED
      BY <1>3, <3>1, <3>2 DEF StreamTypes
  <2>6. MainTypes
    <3>1. /\ reconnects = 0 /\ breaks = 0 /\ recorded = 0 /\ conn = "up" /\ replySender = FALSE
          /\ main = "calling"
      BY DEF Init
    <3>2. answers \in [1..MaxBreaks[0] -> Nat]
      BY <2>1 DEF Init
    <3>3. 0 \in 0..MaxBreaks[0]
      BY <1>1
    <3>4. QED
      BY <2>1, <3>1, <3>2, <3>3 DEF MainTypes
  <2>7. ServerTypes
    BY DEF Init, ServerTypes
  <2>8. QED
    BY <2>2, <2>3, <2>4, <2>5, <2>6, <2>7 DEF Types
<1>6. WriterInv
  <2>1. ~Closed(Len(toWriter)) /\ Len(toWriter) = 0 /\ Len(batch) = 0
    BY DEF Init, Closed
  <2>2. QED
    BY <1>4, <2>1 DEF Init, WriterInv
<1>7. StartInv
  <2>1. Once(msgs, "AppStart") /\ ~Comes(msgs)
    BY <1>2, <1>3 DEF Once, Comes
  <2>2. ~Has(wire, "AppStart") /\ Once(wire, "AppStart") /\ ~Comes(wire)
    BY HasNone DEF Init
  <2>3. QED
    BY <2>1, <2>2 DEF Init, StartInv, Expects
<1>8. StopInv
  <2>1. ~Has(msgs, "AppStop") /\ Once(msgs, "AppStop")
    BY <1>2, <1>3 DEF Has, Once
  <2>2. ~Has(recordMsgs, "Close") /\ Once(recordMsgs, "Close") /\ ~Ending
    BY HasNone DEF Init, Ending
  <2>3. QED
    BY <2>1, <2>2 DEF Init, StopInv
<1>9. FirstInv
  <2>1. Upright
    <3>1. ~Comes(msgs)
      BY <1>2, <1>3 DEF Comes
    <3>2. QED
      BY <3>1, HasNone DEF Init, Upright
  <2>2. Opened
    <3>1. Opens
      BY <1>2, <1>3 DEF Init, Opens
    <3>2. QED
      BY <3>1 DEF Init, Opened
  <2>3. Reached
    BY DEF Init, Reached
  <2>4. Chain
    <3>1. DOMAIN Numbers(wire) = {} /\ DOMAIN Numbers(msgs) = {1} /\ Numbers(msgs)[1] = 0
      BY <1>1, <1>2, <1>3, <1>4 DEF Numbers, Number
    <3>2. 1..0 - 1 = {}
      OBVIOUS
    <3>3. QED
      BY <1>4, <3>1, <3>2 DEF Chain, Follow
  <2>5. Told
    BY <1>4 DEF Init, Told
  <2>6. Drained /\ StopIsLast
    BY <1>4 DEF Init, Drained, StopIsLast
  <2>7. QED
    BY <1>4, <2>1, <2>2, <2>3, <2>4, <2>5, <2>6 DEF FirstInv, Flow, Written
<1>10. QED
  BY <1>5, <1>6, <1>7, <1>8, <1>9 DEF IInv

\* The invariant is about the variables of the module only.
LEMMA StutterIInv ==
  ASSUME IInv, UNCHANGED vars
  PROVE  IInv'
<1> USE DEF vars, appVars, writerVars, readerVars, mainVars, netVars
<1>1. Types'
  BY DEF IInv, Types, AppTypes, WriterTypes, ReaderTypes, StreamTypes, MainTypes, ServerTypes, Called
<1>2. WriterInv'
  BY DEF IInv, WriterInv, Working, Closed
<1>3. StartInv'
  BY DEF IInv, StartInv, Expects, Called, Has, Once, Comes
<1>4. StopInv'
  BY DEF IInv, StopInv, Ending, Has, Once
<1>5. FirstInv'
  <2>1. Written' /\ (Standing' => Standing)
    BY DEF IInv, FirstInv, Written, Standing
  <2>2. (Upright => Upright') /\ (Reached => Reached')
    BY DEF Upright, Reached, Comes, Has
  <2>3. (Opened => Opened') /\ (Alive' => Alive)
    BY DEF Opened, Alive, Opens, Has, Called
  <2>4. Flow => Flow'
    <3>1. OnWire' = OnWire /\ InQueue' = InQueue /\ Sent' = Sent /\ (Doomed => Doomed')
      BY DEF OnWire, InQueue, Sent, Doomed
    <3>2. (Chain => Chain') /\ (Told => Told')
      BY <3>1 DEF Chain, Told, Has
    <3>3. (Drained => Drained') /\ (StopIsLast => StopIsLast')
      BY <3>1 DEF Drained, StopIsLast, Working
    <3>4. QED
      BY <3>1, <3>2, <3>3 DEF Flow
  <2>5. QED
    BY <2>1, <2>2, <2>3, <2>4 DEF IInv, FirstInv
<1>6. QED
  BY <1>1, <1>2, <1>3, <1>4, <1>5 DEF IInv

\* The inductive invariant holds in every state of the client and the server.
THEOREM Invariance == Spec => []IInv
<1>1. IInv /\ [Next]_vars => IInv'
  <2>1. ASSUME IInv, Next
        PROVE  IInv'
    <3>1. Types'
      BY <2>1, TypesStep DEF IInv
    <3>2. WriterInv' /\ StartInv' /\ StopInv'
      BY <2>1, WriterStep, StartStep, StopStep DEF IInv
    <3>3. FirstInv'
      BY <2>1, <3>1, FirstInvStep
    <3>4. QED
      BY <3>1, <3>2, <3>3 DEF IInv
  <2>2. QED
    BY <2>1, StutterIInv
<1>2. QED
  BY <1>1, InitIInv, PTL DEF Spec

\* The tasks and the channels of the client keep to their types, the writer's batch
\* to the size of a block, the wire to its window and the file to what was recorded.
THEOREM TypeCorrect == Spec => []TypeOK
<1>1. IInv => TypeOK
  <2>1. SUFFICES ASSUME IInv PROVE TypeOK
    OBVIOUS
  <2>2. Types
    BY <2>1 DEF IInv
  <2>3. /\ recorded \in 0..MaxIndex /\ stopAt \in (0..MaxIndex) \cup {Running}
        /\ 0..recorded \subseteq {NoRecord} \cup Indices
    BY <2>2, ConstantsAre DEF Types, AppTypes
  <2>4. toWriter \in Seq({NoRecord} \cup Indices) /\ batch \in Seq({NoRecord} \cup Indices)
    BY <2>2, <2>3, WriterIs
  <2>5. QED
    BY <2>2, <2>3, <2>4
       DEF TypeOK, Types, WriterTypes, ReaderTypes, StreamTypes, MainTypes, ServerTypes
<1>2. QED
  BY <1>1, Invariance, PTL

\* While the first connection stands the server has the records without a gap,
\* whatever batches the writer makes and however late the reader reads them.
THEOREM NoGapsHold == Spec => []NoGaps
<1>1. IInv => NoGaps
  <2>1. SUFFICES ASSUME IInv, Standing PROVE received = 1..Cardinality(received)
    BY DEF NoGaps
  <2>2. received \subseteq 1..MaxIndex /\ MaxIndex \in Nat /\ \A i \in received : 1..i \subseteq received
    BY <2>1, ConstantsAre DEF IInv, Types, ServerTypes, FirstInv, Reached
  <2>3. PICK m \in Nat : m + 1 \notin received /\ \A n \in Nat : n + 1 \notin received => m <= n
    <3>1. PICK T : T = {n \in Nat : n + 1 \notin received}
      OBVIOUS
    <3>2. MaxIndex \in T
      BY <2>2, <3>1
    <3>3. Min(T) \in T /\ \A n \in T : Min(T) <= n
      BY <3>1, <3>2, MinIs
    <3>4. QED
      BY <3>1, <3>3
  <2>4. received = 1..m
    <3>1. ASSUME NEW n \in 1..m
          PROVE  n \in received
      <4>1. n - 1 \in Nat /\ ~(m <= n - 1) /\ n - 1 + 1 = n
        BY <3>1
      <4>2. QED
        BY <2>3, <4>1
    <3>2. ASSUME NEW n \in received
          PROVE  n \in 1..m
      <4>1. n \in Nat /\ n >= 1
        BY <2>2
      <4>2. m + 1 \notin 1..n
        BY <2>2, <2>3
      <4>3. QED
        BY <4>1, <4>2
    <3>3. QED
      BY <3>1, <3>2
  <2>5. Cardinality(1..m) = m
    BY FS_Interval
  <2>6. QED
    BY <2>4, <2>5
<1>2. QED
  BY <1>1, Invariance, PTL

\* A server that took AppStop on the first connection has every record that was made
\* before the stop.
THEOREM StopIsComplete == Spec => []StopComplete
<1>1. IInv => StopComplete
  BY DEF IInv, FirstInv, Reached, StopComplete
<1>2. QED
  BY <1>1, Invariance, PTL

\* The main loop never gets a reply without a reconnect_sender for it.
THEOREM ReplyFindsItsSender == Spec => []ReplyFindsSender
<1>1. IInv => ReplyFindsSender
  BY DEF IInv, StartInv, ReplyFindsSender
<1>2. QED
  BY <1>1, Invariance, PTL

\* The request stream never fails to reach a reader whose reading did not fail.
THEOREM CloseFindsItsReader == Spec => []CloseFindsReader
<1>1. IInv => CloseFindsReader
  BY DEF IInv, StopInv, CloseFindsReader
<1>2. QED
  BY <1>1, Invariance, PTL
=============================================================================
