------------------------- MODULE RunPipelineProofs --------------------------
(***************************************************************************)
(* What RunPipeline keeps for every number of records and watchers, every  *)
(* buffer size and every filter.                                           *)
(*                                                                         *)
(* The inductive invariant says where each record sent is: the rows        *)
(* stored, the statement being executed, buf_records_2, buf_records_1 and  *)
(* the channel hold, in that order, consecutive stretches of 1..sent.      *)
(***************************************************************************)
EXTENDS RunPipeline, TLAPS, SequenceTheorems

\* The record at each place of s, when s starts after record n.
Follows(s, n) == \A i \in 1..Len(s) : s[i] = n + i

\* How many records have left the channel.
Taken == Len(stored) + Len(inserting) + Len(buf2) + Len(buf1)

\* The records of the channel q, between watchers, are those after t up to u,
\* in order.
Carries(q, t, u) ==
  /\ t <= u
  /\ \A i \in 1..Len(q) : q[i].type = "Record" => q[i].id > t /\ q[i].id <= u
  /\ \A i, j \in 1..Len(q) :
       i < j /\ q[i].type = "Record" /\ q[j].type = "Record" => q[i].id < q[j].id
  /\ \A n \in t + 1..u : \E i \in 1..Len(q) : q[i] = Record(n)

ChannelInv == Carries(queue, Taken, sent)

BuffersInv ==
  /\ Follows(stored, 0)
  /\ Follows(inserting, Len(stored))
  /\ Follows(buf2, Len(stored) + Len(inserting))
  /\ Follows(buf1, Len(stored) + Len(inserting) + Len(buf2))

\* What each future holds where it stands.
ControlInv ==
  /\ flush = "exec" => buf2 = <<>>
  /\ flush = "prep" => inserting = <<>> /\ dtos = <<>>
  /\ fill = "first" => buf1 = <<>>
  /\ fill = "eof" => buf1 = <<>> /\ queue = <<>> /\ senders = {}
  /\ fill = "more" => Len(buf1) < Capacity
  /\ Len(buf1) <= Capacity /\ Len(buf2) <= Capacity /\ Len(inserting) <= Capacity
  /\ task = "finished" => Len(stored) = sent

IInv == Types /\ ChannelInv /\ BuffersInv /\ ControlInv

-----------------------------------------------------------------------------
\* The message at the head of the channel is a message, and the rest is a
\* channel shorter by one.
LEMMA ChannelTail ==
  ASSUME NEW q \in Seq(AppRunMsg), q # <<>>
  PROVE  /\ Head(q) \in AppRunMsg
         /\ Head(q) = q[1]
         /\ Len(q) \in Nat \ {0}
         /\ Tail(q) \in Seq(AppRunMsg)
         /\ Len(Tail(q)) = Len(q) - 1
         /\ \A i \in 1..Len(Tail(q)) : Tail(q)[i] = q[i + 1]
  BY HeadTailProperties, EmptySeq

\* A message of the channel is a record or a watcher.
LEMMA MessageKinds ==
  ASSUME NEW m \in AppRunMsg
  PROVE  \/ m.type = "Record" /\ m.id \in Nat
         \/ m.type = "AddRecordWatcher" /\ m.watcher \in Watchers
  BY DEF AppRunMsg

LEMMA RecordsAreMessages ==
  /\ \A n \in Nat : Record(n) \in AppRunMsg /\ Record(n).type = "Record" /\ Record(n).id = n
  /\ \A w \in Watchers : /\ AddRecordWatcher(w) \in AppRunMsg
                          /\ AddRecordWatcher(w).type = "AddRecordWatcher"
                          /\ AddRecordWatcher(w).watcher = w
  BY DEF AppRunMsg, Record, AddRecordWatcher

\* A buffer has room for two records.
LEMMA CapacityType == Capacity \in Nat /\ 1 < Capacity
  BY ConstantsAssumption DEF Capacity

LEMMA FollowsEmpty ==
  ASSUME NEW n \in Nat
  PROVE  Follows(<<>>, n)
  BY EmptySeq DEF Follows

\* A stretch grows by the record that comes after it.
LEMMA FollowsAppend ==
  ASSUME NEW s \in Seq(Nat), NEW n \in Nat, Follows(s, n)
  PROVE  Follows(Append(s, n + Len(s) + 1), n)
  BY AppendProperties, LenProperties, SMTT(20) DEF Follows

\* Two stretches, one after the other, make one.
LEMMA FollowsConcat ==
  ASSUME NEW s \in Seq(Nat), NEW t \in Seq(Nat), NEW n \in Nat,
         Follows(s, n), Follows(t, n + Len(s))
  PROVE  /\ Follows(s \o t, n)
         /\ Len(s \o t) = Len(s) + Len(t)
  BY ConcatProperties, LenProperties DEF Follows

\* Sending the next record.
LEMMA CarriesRecord ==
  ASSUME NEW q \in Seq(AppRunMsg), NEW t \in Nat, NEW u \in Nat, Carries(q, t, u)
  PROVE  Carries(Append(q, Record(u + 1)), t, u + 1)
<1> DEFINE r == Append(q, Record(u + 1))
<1>1. /\ r \in Seq(AppRunMsg)
      /\ Len(r) = Len(q) + 1 /\ Len(q) \in Nat
      /\ \A i \in 1..Len(q) : r[i] = q[i]
      /\ r[Len(q) + 1] = Record(u + 1)
  BY AppendProperties, LenProperties, RecordsAreMessages
<1>2. Record(u + 1).type = "Record" /\ Record(u + 1).id = u + 1
  BY RecordsAreMessages
<1>3. \A i \in 1..Len(r) : i \in 1..Len(q) \/ i = Len(q) + 1
  BY <1>1
<1>4. \A i \in 1..Len(r) : r[i].type = "Record" => r[i].id > t /\ r[i].id <= u + 1
  <2> SUFFICES ASSUME NEW i \in 1..Len(r), r[i].type = "Record"
               PROVE  r[i].id > t /\ r[i].id <= u + 1
    OBVIOUS
  <2>1. CASE i \in 1..Len(q)
    <3>1. q[i] \in AppRunMsg /\ q[i].type = "Record"
      BY <2>1, <1>1, ElementOfSeq
    <3>2. q[i].id \in Nat
      BY <3>1, MessageKinds
    <3> QED BY <2>1, <3>1, <3>2, <1>1 DEF Carries
  <2>2. CASE i = Len(q) + 1
    BY <2>2, <1>1, <1>2 DEF Carries
  <2> QED BY <2>1, <2>2, <1>3
<1>5. \A i, j \in 1..Len(r) :
        i < j /\ r[i].type = "Record" /\ r[j].type = "Record" => r[i].id < r[j].id
  <2> SUFFICES ASSUME NEW i \in 1..Len(r), NEW j \in 1..Len(r), i < j,
                      r[i].type = "Record", r[j].type = "Record"
               PROVE  r[i].id < r[j].id
    OBVIOUS
  <2>1. i \in 1..Len(q) /\ q[i].type = "Record" /\ q[i].id <= u
    BY <1>1, <1>3 DEF Carries
  <2>2. q[i].id \in Nat
    BY <2>1, MessageKinds, ElementOfSeq
  <2>3. CASE j \in 1..Len(q)
    BY <2>1, <2>3, <1>1 DEF Carries
  <2>4. CASE j = Len(q) + 1
    BY <2>1, <2>2, <2>4, <1>1, <1>2
  <2> QED BY <2>3, <2>4, <1>3
<1>6. \A n \in t + 1..u + 1 : \E i \in 1..Len(r) : r[i] = Record(n)
  <2> SUFFICES ASSUME NEW n \in t + 1..u + 1
               PROVE  \E i \in 1..Len(r) : r[i] = Record(n)
    OBVIOUS
  <2>1. CASE n = u + 1
    BY <2>1, <1>1
  <2>2. CASE n \in t + 1..u
    BY <2>2, <1>1 DEF Carries
  <2> QED BY <2>1, <2>2
<1> QED BY <1>4, <1>5, <1>6 DEF Carries

\* Forwarding a watcher.
LEMMA CarriesWatcher ==
  ASSUME NEW q \in Seq(AppRunMsg), NEW t \in Nat, NEW u \in Nat, Carries(q, t, u),
         NEW w \in Watchers
  PROVE  Carries(Append(q, AddRecordWatcher(w)), t, u)
<1> DEFINE r == Append(q, AddRecordWatcher(w))
<1>1. /\ r \in Seq(AppRunMsg)
      /\ Len(r) = Len(q) + 1 /\ Len(q) \in Nat
      /\ \A i \in 1..Len(q) : r[i] = q[i]
      /\ r[Len(q) + 1] = AddRecordWatcher(w)
  BY AppendProperties, LenProperties, RecordsAreMessages
<1>2. AddRecordWatcher(w).type # "Record"
  BY RecordsAreMessages
<1>3. \A i \in 1..Len(r) : r[i].type = "Record" => i \in 1..Len(q) /\ r[i] = q[i]
  BY <1>1, <1>2
<1> QED BY <1>1, <1>3 DEF Carries

\* Receiving a record: it is the next one.
LEMMA CarriesTake ==
  ASSUME NEW q \in Seq(AppRunMsg), NEW t \in Nat, NEW u \in Nat, Carries(q, t, u),
         q # <<>>, Head(q).type = "Record"
  PROVE  /\ Head(q).id = t + 1
         /\ Carries(Tail(q), t + 1, u)
<1> DEFINE r == Tail(q)
<1>1. /\ Head(q) = q[1] /\ Len(q) \in Nat \ {0}
      /\ Len(r) = Len(q) - 1
      /\ \A i \in 1..Len(r) : r[i] = q[i + 1]
  BY ChannelTail
<1>2. \A i \in 1..Len(q) : q[i].type = "Record" => q[i].id \in Nat
  BY MessageKinds, ElementOfSeq
<1>3. \A n \in Nat : Record(n).type = "Record" /\ Record(n).id = n
  BY RecordsAreMessages
<1>4. q[1].id > t /\ q[1].id <= u /\ q[1].id \in Nat
  BY <1>1, <1>2 DEF Carries
<1>5. q[1].id = t + 1
  <2>1. PICK i \in 1..Len(q) : q[i] = Record(t + 1)
    BY <1>4 DEF Carries
  <2>2. q[i].type = "Record" /\ q[i].id = t + 1
    BY <2>1, <1>3
  <2>3. i = 1 \/ q[1].id < t + 1
    BY <2>2, <1>1 DEF Carries
  <2> QED BY <2>2, <2>3, <1>4
<1>6. \A i \in 1..Len(r) : r[i].type = "Record" => r[i].id > t + 1 /\ r[i].id <= u
  <2> SUFFICES ASSUME NEW i \in 1..Len(r), r[i].type = "Record"
               PROVE  r[i].id > t + 1 /\ r[i].id <= u
    OBVIOUS
  <2>1. i + 1 \in 1..Len(q) /\ r[i] = q[i + 1] /\ 1 < i + 1 /\ 1 \in 1..Len(q)
    BY <1>1
  <2>2. q[1].id < q[i + 1].id /\ q[i + 1].id <= u
    BY <2>1, <1>1 DEF Carries
  <2> QED BY <2>1, <2>2, <1>5
<1>7. \A i, j \in 1..Len(r) :
        i < j /\ r[i].type = "Record" /\ r[j].type = "Record" => r[i].id < r[j].id
  BY <1>1 DEF Carries
<1>8. \A n \in (t + 1) + 1..u : \E i \in 1..Len(r) : r[i] = Record(n)
  <2> SUFFICES ASSUME NEW n \in (t + 1) + 1..u
               PROVE  \E i \in 1..Len(r) : r[i] = Record(n)
    OBVIOUS
  <2>1. PICK i \in 1..Len(q) : q[i] = Record(n)
    BY DEF Carries
  <2>2. i # 1
    BY <2>1, <1>3, <1>5
  <2>3. i - 1 \in 1..Len(r) /\ r[i - 1] = q[i]
    BY <2>2, <1>1
  <2> QED BY <2>1, <2>3
<1> QED BY <1>1, <1>4, <1>5, <1>6, <1>7, <1>8 DEF Carries

\* Receiving a watcher leaves the records in the channel.
LEMMA CarriesPass ==
  ASSUME NEW q \in Seq(AppRunMsg), NEW t \in Nat, NEW u \in Nat, Carries(q, t, u),
         q # <<>>, Head(q).type # "Record"
  PROVE  Carries(Tail(q), t, u)
<1> DEFINE r == Tail(q)
<1>1. /\ Head(q) = q[1] /\ Len(q) \in Nat \ {0}
      /\ Len(r) = Len(q) - 1
      /\ \A i \in 1..Len(r) : r[i] = q[i + 1]
  BY ChannelTail
<1>2. \A n \in t + 1..u : \E i \in 1..Len(r) : r[i] = Record(n)
  <2> SUFFICES ASSUME NEW n \in t + 1..u
               PROVE  \E i \in 1..Len(r) : r[i] = Record(n)
    OBVIOUS
  <2>1. PICK i \in 1..Len(q) : q[i] = Record(n)
    BY DEF Carries
  <2>2. i # 1
    BY <2>1, <1>1, RecordsAreMessages
  <2>3. i - 1 \in 1..Len(r) /\ r[i - 1] = q[i]
    BY <2>2, <1>1
  <2> QED BY <2>1, <2>3
<1> QED BY <1>1, <1>2 DEF Carries

\* The types are preserved by receiving a message.
LEMMA PreHandleType ==
  ASSUME Types, PreHandleMsg
  PROVE  /\ queue' \in Seq(AppRunMsg)
         /\ buf1' \in Seq(Nat)
         /\ newWatchers' \subseteq Watchers
<1>1. /\ Head(queue) \in AppRunMsg
      /\ queue' \in Seq(AppRunMsg)
  BY ChannelTail DEF Types, PreHandleMsg
<1>2. CASE Head(queue).type = "Record"
  <2>1. buf1' = Append(buf1, Head(queue).id) /\ newWatchers' = newWatchers
    BY <1>2 DEF PreHandleMsg
  <2>2. Head(queue).id \in Nat
    BY <1>1, <1>2, MessageKinds
  <2> QED BY <1>1, <2>1, <2>2, AppendProperties DEF Types
<1>3. CASE Head(queue).type = "AddRecordWatcher"
  <2>1. buf1' = buf1 /\ newWatchers' = newWatchers \cup {Head(queue).watcher}
    BY <1>3 DEF PreHandleMsg
  <2>2. Head(queue).watcher \in Watchers
    BY <1>1, <1>3, MessageKinds
  <2> QED BY <1>1, <2>1, <2>2 DEF Types
<1> QED BY <1>1, <1>2, <1>3, MessageKinds

\* No step takes a variable out of its type.
LEMMA TypeStep ==
  ASSUME Types, [Next]_vars
  PROVE  Types'
<1> USE DEF Types, senderVars, fillVars, flushVars
<1>1. CASE Send
  BY <1>1, RecordsAreMessages, AppendProperties DEF Send
<1>2. CASE LifetimeEnds
  BY <1>2 DEF LifetimeEnds
<1>3. CASE RegistryDrops
  BY <1>3 DEF RegistryDrops
<1>4. CASE Abort
  BY <1>4 DEF Abort
<1>5. ASSUME NEW w \in Watchers, ForwardWatcher(w) PROVE Types'
  BY <1>5, RecordsAreMessages, AppendProperties DEF ForwardWatcher
<1>6. ASSUME NEW w \in Watchers, WatcherLeaves(w) PROVE Types'
  BY <1>6 DEF WatcherLeaves
<1>7. CASE RecvFirst
  BY <1>7, PreHandleType DEF RecvFirst
<1>8. CASE RecvEof
  BY <1>8 DEF RecvEof
<1>9. CASE RecvMore
  BY <1>9, PreHandleType DEF RecvMore
<1>10. CASE StopFilling
  BY <1>10 DEF StopFilling
<1>11. CASE PrepareFlush
  BY <1>11, EmptySeq DEF PrepareFlush
<1>12. CASE InsertRows
  BY <1>12, ConcatProperties, EmptySeq DEF InsertRows
<1>13. CASE InsertFails
  BY <1>13 DEF InsertFails
<1>14. CASE Notify
  <2>1. dtos' \in Seq(Nat) /\ Head(dtos) \in Nat
    BY <1>14, HeadTailProperties DEF Notify
  <2>2. feed' \in [Watchers -> Seq(Nat)]
    BY <1>14, <2>1, AppendProperties DEF Notify
  <2> QED BY <1>14, <2>1, <2>2 DEF Notify
<1>15. CASE Swap
  <2>1. Len(stored) + 1 \in Nat
    BY LenProperties
  <2>2. since' \in [Watchers -> Nat]
    BY <1>15, <2>1 DEF Swap
  <2> QED BY <1>15, <2>2 DEF Swap
<1>16. CASE Rest
  BY <1>16 DEF Rest, vars
<1>17. CASE UNCHANGED vars
  BY <1>17 DEF vars
<1> QED
  BY <1>1, <1>2, <1>3, <1>4, <1>5, <1>6, <1>7, <1>8, <1>9, <1>10, <1>11,
     <1>12, <1>13, <1>14, <1>15, <1>16, <1>17
     DEF Next, Task, Fill, Flush, Environment

-----------------------------------------------------------------------------
\* A message received moves from the channel to buf_records_1, if it is a
\* record, and the stretches stay consecutive.
LEMMA PreHandleInv ==
  ASSUME IInv, PreHandleMsg, UNCHANGED <<sent, stored, inserting, buf2>>
  PROVE  /\ ChannelInv' /\ BuffersInv'
         /\ Len(buf1) \in Nat /\ Len(buf1') \in Nat
         /\ Head(queue).type = "Record" => Len(buf1') = Len(buf1) + 1
         /\ Head(queue).type # "Record" => buf1' = buf1
<1> DEFINE base == Len(stored) + Len(inserting) + Len(buf2)
<1>1. /\ base \in Nat /\ Len(buf1) \in Nat /\ Taken \in Nat /\ Taken = base + Len(buf1)
      /\ sent \in Nat /\ queue \in Seq(AppRunMsg) /\ buf1 \in Seq(Nat)
      /\ queue # <<>> /\ queue' = Tail(queue)
  BY LenProperties DEF IInv, Types, Taken, PreHandleMsg
<1>2. Carries(queue, Taken, sent) /\ Follows(buf1, base)
  BY DEF IInv, ChannelInv, BuffersInv
<1>3. CASE Head(queue).type = "Record"
  <2>1. buf1' = Append(buf1, Head(queue).id)
    BY <1>3 DEF PreHandleMsg
  <2>2. Head(queue).id = base + Len(buf1) + 1 /\ Carries(Tail(queue), Taken + 1, sent)
    BY <1>1, <1>2, <1>3, CarriesTake
  <2>3. Follows(buf1', base)
    BY <2>1, <2>2, <1>1, <1>2, FollowsAppend
  <2>4. Len(buf1') = Len(buf1) + 1 /\ Taken' = Taken + 1
    BY <2>1, <2>2, <1>1, AppendProperties DEF Taken
  <2> QED BY <2>2, <2>3, <2>4, <1>1, <1>3 DEF ChannelInv, BuffersInv, IInv
<1>4. CASE Head(queue).type # "Record"
  <2>1. buf1' = buf1 /\ Taken' = Taken
    BY <1>4 DEF PreHandleMsg, Taken
  <2>2. Carries(Tail(queue), Taken, sent)
    BY <1>1, <1>2, <1>4, CarriesPass
  <2> QED BY <2>1, <2>2, <1>1, <1>4 DEF ChannelInv, BuffersInv, IInv
<1> QED BY <1>3, <1>4

\* Every step keeps the stretches consecutive.
LEMMA InvariantStep ==
  ASSUME IInv, [Next]_vars
  PROVE  IInv'
<1> USE DEF senderVars, fillVars, flushVars
<1>1. Types'
  BY TypeStep DEF IInv
<1>2. /\ Len(stored) \in Nat /\ Len(inserting) \in Nat /\ Len(buf1) \in Nat /\ Len(buf2) \in Nat
      /\ stored \in Seq(Nat) /\ inserting \in Seq(Nat) /\ buf1 \in Seq(Nat) /\ buf2 \in Seq(Nat)
      /\ sent \in Nat /\ queue \in Seq(AppRunMsg) /\ Taken \in Nat
      /\ Capacity \in Nat
  BY LenProperties, CapacityType DEF IInv, Types, Taken
<1> SUFFICES ChannelInv' /\ BuffersInv' /\ ControlInv'
  BY <1>1 DEF IInv
<1>3. CASE Send
  <2>1. Carries(Append(queue, Record(sent + 1)), Taken, sent + 1)
    BY <1>2, CarriesRecord DEF IInv, ChannelInv
  <2>2. ChannelInv' /\ BuffersInv'
    BY <1>3, <2>1 DEF Send, IInv, ChannelInv, BuffersInv, Taken
  <2>3. ControlInv'
    BY <1>3 DEF Send, IInv, ControlInv
  <2> QED BY <2>2, <2>3
<1>4. ASSUME NEW w \in Watchers, ForwardWatcher(w)
      PROVE  ChannelInv' /\ BuffersInv' /\ ControlInv'
  <2>1. Carries(Append(queue, AddRecordWatcher(w)), Taken, sent)
    BY <1>2, CarriesWatcher DEF IInv, ChannelInv
  <2>2. ChannelInv' /\ BuffersInv'
    BY <1>4, <2>1 DEF ForwardWatcher, IInv, ChannelInv, BuffersInv, Taken
  <2>3. ControlInv'
    BY <1>4 DEF ForwardWatcher, IInv, ControlInv
  <2> QED BY <2>2, <2>3
<1>5. CASE LifetimeEnds \/ RegistryDrops \/ Abort \/ InsertFails
           \/ (\E w \in Watchers : WatcherLeaves(w))
  <2>1. UNCHANGED <<sent, queue, fill, flush, buf1, buf2, inserting, dtos, stored>>
    BY <1>5 DEF LifetimeEnds, RegistryDrops, Abort, InsertFails, WatcherLeaves
  <2>2. task' = task \/ task' \in {"aborted", "failed"}
    BY <1>5 DEF LifetimeEnds, RegistryDrops, Abort, InsertFails, WatcherLeaves
  <2>3. senders' \subseteq senders
    BY <1>5 DEF LifetimeEnds, RegistryDrops, Abort, InsertFails, WatcherLeaves
  <2> QED BY <2>1, <2>2, <2>3 DEF IInv, ChannelInv, BuffersInv, ControlInv, Taken
<1>6. CASE RecvFirst
  <2>1. ChannelInv' /\ BuffersInv'
    BY <1>6, PreHandleInv DEF RecvFirst
  <2>2. PreHandleMsg /\ UNCHANGED <<sent, stored, inserting, buf2>> /\ buf1 = <<>>
    BY <1>6 DEF RecvFirst, IInv, ControlInv
  <2>3. Len(buf1') \in {0, 1}
    BY <2>2, PreHandleInv, EmptySeq
  <2>4. Len(buf1') < Capacity
    BY <2>3, CapacityType
  <2>5. ControlInv'
    BY <1>2, <1>6, <2>3, <2>4 DEF RecvFirst, IInv, ControlInv
  <2> QED BY <2>1, <2>5
<1>7. CASE RecvMore
  <2>1. ChannelInv' /\ BuffersInv'
    BY <1>7, PreHandleInv DEF RecvMore
  <2>2. /\ Len(buf1) < Capacity /\ Len(buf1') \in Nat
        /\ Len(buf1') = Len(buf1) \/ Len(buf1') = Len(buf1) + 1
    BY <1>2, <1>7, PreHandleInv DEF RecvMore, IInv, ControlInv
  <2>3. fill' = "more" => Len(buf1') < Capacity
    BY <1>2, <1>7, <2>2, PreHandleInv, ConstantsAssumption
       DEF RecvMore, BufFilled, Capacity
  <2>4. ControlInv'
    BY <1>2, <1>7, <2>2, <2>3 DEF RecvMore, IInv, ControlInv
  <2> QED BY <2>1, <2>4
<1>8. CASE RecvEof
  <2>1. ChannelInv' /\ BuffersInv'
    BY <1>8 DEF RecvEof, IInv, ChannelInv, BuffersInv, Taken
  <2>2. ControlInv'
    BY <1>8 DEF RecvEof, IInv, ControlInv
  <2> QED BY <2>1, <2>2
<1>9. CASE StopFilling
  <2>1. ChannelInv' /\ BuffersInv'
    BY <1>9 DEF StopFilling, IInv, ChannelInv, BuffersInv, Taken
  <2>2. ControlInv'
    BY <1>9 DEF StopFilling, IInv, ControlInv
  <2> QED BY <2>1, <2>2
<1>10. CASE PrepareFlush
  <2>1. inserting = <<>> /\ Len(inserting) = 0 /\ Len(buf2') = 0
    BY <1>10, EmptySeq DEF PrepareFlush, IInv, ControlInv
  <2>2. Taken' = Taken
    BY <1>2, <1>10, <2>1 DEF PrepareFlush, Taken
  <2>3. ChannelInv'
    BY <1>10, <2>2 DEF PrepareFlush, IInv, ChannelInv
  <2>4. BuffersInv'
    BY <1>2, <1>10, <2>1, FollowsEmpty DEF PrepareFlush, IInv, BuffersInv
  <2>5. ControlInv'
    BY <1>2, <1>10, <2>1 DEF PrepareFlush, IInv, ControlInv
  <2> QED BY <2>3, <2>4, <2>5
<1>11. CASE InsertRows
  <2>1. /\ Follows(stored', 0) /\ Len(stored') = Len(stored) + Len(inserting)
        /\ Len(inserting') = 0
    BY <1>2, <1>11, FollowsConcat, EmptySeq DEF InsertRows, IInv, BuffersInv
  <2>2. Taken' = Taken
    BY <1>2, <1>11, <2>1 DEF InsertRows, Taken
  <2>3. ChannelInv'
    BY <1>11, <2>2 DEF InsertRows, IInv, ChannelInv
  <2>4. BuffersInv'
    BY <1>2, <1>11, <2>1, FollowsEmpty DEF InsertRows, IInv, BuffersInv
  <2>5. ControlInv'
    BY <1>2, <1>11, <2>1 DEF InsertRows, IInv, ControlInv
  <2> QED BY <2>3, <2>4, <2>5
<1>12. CASE Notify
  <2>1. ChannelInv' /\ BuffersInv'
    BY <1>12 DEF Notify, IInv, ChannelInv, BuffersInv, Taken
  <2>2. ControlInv'
    BY <1>12 DEF Notify, IInv, ControlInv
  <2> QED BY <2>1, <2>2
<1>13. CASE Swap
  <2>1. /\ buf2 = <<>> /\ Len(buf2) = 0 /\ inserting = <<>> /\ Len(inserting) = 0
        /\ buf1' = <<>> /\ Len(buf1') = 0 /\ buf2' = buf1
    BY <1>13, EmptySeq DEF Swap, IInv, ControlInv
  <2>2. Taken' = Taken
    BY <1>2, <1>13, <2>1 DEF Swap, Taken
  <2>3. ChannelInv'
    BY <1>13, <2>2 DEF Swap, IInv, ChannelInv
  <2>4. BuffersInv'
    BY <1>2, <1>13, <2>1, FollowsEmpty DEF Swap, IInv, BuffersInv
  <2>5. fill = "eof" => Len(stored) = sent
    <3> SUFFICES ASSUME fill = "eof" PROVE Len(stored) = sent
      OBVIOUS
    <3>1. Len(queue) = 0 /\ Taken = Len(stored)
      BY <1>2, <2>1, EmptySeq DEF IInv, ControlInv, Taken
    <3>2. Taken <= sent /\ Taken + 1 \notin Taken + 1..sent
      BY <3>1 DEF IInv, ChannelInv, Carries
    <3> QED BY <1>2, <3>1, <3>2
  <2>6. ControlInv'
    BY <1>2, <1>13, <2>1, <2>5 DEF Swap, IInv, ControlInv
  <2> QED BY <2>3, <2>4, <2>6
<1>14. CASE UNCHANGED vars
  BY <1>14 DEF vars, IInv, ChannelInv, BuffersInv, ControlInv, Taken
<1> QED
  BY <1>3, <1>4, <1>5, <1>6, <1>7, <1>8, <1>9, <1>10, <1>11, <1>12, <1>13, <1>14
     DEF Next, Task, Fill, Flush, Environment, Rest

\* The inductive invariant holds throughout.
THEOREM Invariance == Spec => []IInv
<1>1. Init => IInv
  <2> SUFFICES ASSUME Init PROVE IInv
    OBVIOUS
  <2>1. Types
    BY EmptySeq DEF Init, Types
  <2>2. Len(queue) = 0 /\ Taken = 0
    BY EmptySeq DEF Init, Taken
  <2>3. Capacity \in Nat
    BY CapacityType
  <2>4. ChannelInv
    BY <2>2 DEF Init, ChannelInv, Carries
  <2>5. BuffersInv
    BY EmptySeq DEF Init, BuffersInv, Follows
  <2>6. ControlInv
    BY <2>3, EmptySeq DEF Init, ControlInv
  <2> QED BY <2>1, <2>4, <2>5, <2>6 DEF IInv
<1>2. IInv /\ [Next]_vars => IInv'
  BY InvariantStep
<1> QED BY <1>1, <1>2, PTL DEF Spec

\* Every variable keeps to its type, and a turn never buffers more than
\* Capacity records.
THEOREM TypeCorrect == Spec => []TypeOK
<1>1. IInv => TypeOK
  BY DEF IInv, ControlInv, TypeOK
<1> QED BY <1>1, Invariance, PTL

\* The rows stored are the first so many records sent, for any buffer size and
\* any number of records, whatever becomes of the task.
THEOREM RowsInOrder == Spec => []StoredInOrder
<1>1. IInv => StoredInOrder
  BY LenProperties DEF IInv, Types, ChannelInv, Carries, BuffersInv, Follows,
                       Taken, StoredInOrder
<1> QED BY <1>1, Invariance, PTL

\* A task that returns has stored every record sent to it.
THEOREM FinishedComplete == Spec => []NothingLost
<1>1. IInv => NothingLost
  BY DEF IInv, ControlInv, NothingLost
<1> QED BY <1>1, Invariance, PTL

-----------------------------------------------------------------------------
\* A statement that follows the rows is the next batch of the abstract log.
LEMMA InsertingIsNextBatch ==
  ASSUME IInv, inserting # <<>>
  PROVE  /\ Len(inserting) \in 1..Capacity
         /\ Len(stored) + Len(inserting) <= sent
         /\ inserting = Log!NextBatch(Len(inserting))
<1>1. /\ inserting \in Seq(Nat) /\ Len(stored) \in Nat /\ Len(inserting) \in Nat
      /\ Len(buf1) \in Nat /\ Len(buf2) \in Nat /\ sent \in Nat
  BY LenProperties DEF IInv, Types
<1>2. Len(inserting) \in 1..Capacity
  BY <1>1, EmptySeq, CapacityType DEF IInv, ControlInv
<1>3. Len(stored) + Len(inserting) <= sent
  BY <1>1 DEF IInv, ChannelInv, Carries, Taken
<1>4. \A i \in 1..Len(inserting) : inserting[i] = Len(stored) + i
  BY DEF IInv, BuffersInv, Follows
<1>5. inserting = [i \in 1..Len(inserting) |-> Len(stored) + i]
  <2>1. inserting = [i \in 1..Len(inserting) |-> inserting[i]]
    BY <1>1, LenProperties
  <2> QED BY <2>1, <1>4
<1> QED BY <1>2, <1>3, <1>5 DEF Log!NextBatch

\* Every step of the pipeline is a step of the log or leaves it unchanged: a
\* send accepts a record, the insert statement stores a batch, the swap after a
\* closed channel finishes, and an abort or a failed insert breaks the log off.
LEMMA LogStep ==
  ASSUME IInv, IInv', [Next]_vars
  PROVE  [Log!Next]_Log!logVars
<1> USE DEF senderVars, fillVars, flushVars
<1> DEFINE outcome == IF task \in {"running", "finished"} THEN task ELSE "broken"
<1>1. CASE Send
  <2>1. Log!Accept
    BY <1>1 DEF Send, Log!Accept
  <2> QED BY <2>1 DEF Log!Next
<1>2. CASE InsertRows
  <2>1. inserting # <<>> /\ stored' = stored \o inserting
        /\ task = "running" /\ task' = task /\ sent' = sent
    BY <1>2 DEF InsertRows
  <2>2. Log!Store
    BY <2>1, InsertingIsNextBatch DEF Log!Store
  <2> QED BY <2>2 DEF Log!Next
<1>3. CASE Abort \/ InsertFails
  <2>1. Log!Break
    BY <1>3 DEF Abort, InsertFails, Log!Break
  <2> QED BY <2>1 DEF Log!Next
<1>4. CASE Swap
  <2>1. CASE fill = "eof"
    <3>1. task = "running" /\ task' = "finished" /\ UNCHANGED <<sent, stored>>
      BY <1>4, <2>1 DEF Swap
    <3>2. Len(stored') = sent'
      BY <3>1 DEF IInv, ControlInv
    <3>3. Log!Finish
      BY <3>1, <3>2 DEF Log!Finish
    <3> QED BY <3>3 DEF Log!Next
  <2>2. CASE fill # "eof"
    BY <1>4, <2>2 DEF Swap, Log!logVars
  <2> QED BY <2>1, <2>2
<1>5. CASE RecvFirst \/ RecvMore \/ RecvEof \/ StopFilling
  BY <1>5 DEF RecvFirst, RecvMore, RecvEof, StopFilling, Log!logVars
<1>6. CASE PrepareFlush \/ Notify
  BY <1>6 DEF PrepareFlush, Notify, Log!logVars
<1>7. CASE LifetimeEnds \/ RegistryDrops \/ (\E w \in Watchers : ForwardWatcher(w) \/ WatcherLeaves(w))
  BY <1>7 DEF LifetimeEnds, RegistryDrops, ForwardWatcher, WatcherLeaves, Log!logVars
<1>8. CASE UNCHANGED vars
  BY <1>8 DEF vars, Log!logVars
<1> QED
  BY <1>1, <1>2, <1>3, <1>4, <1>5, <1>6, <1>7, <1>8
     DEF Next, Task, Fill, Flush, Environment, Rest

\* The double-buffered task implements the abstract log of a run.
THEOREM Refinement == Spec => ImplementsRunLog
<1>1. Init => Log!Init
  BY DEF Init, Log!Init
<1>2. IInv /\ IInv' /\ [Next]_vars => [Log!Next]_Log!logVars
  BY LogStep
<1> QED BY <1>1, <1>2, Invariance, PTL DEF Spec, ImplementsRunLog, Log!Spec

-----------------------------------------------------------------------------
(***************************************************************************)
(* What the live watchers of a run are sent, for any watchers, filters,    *)
(* buffer size and number of records.                                      *)
(*                                                                         *)
(* The above says where each record is.  To that comes where each watcher  *)
(* is: it has been forwarded to the channel, waits there, has been set     *)
(* aside, is served, each of these once; and that the notifications still  *)
(* to be sent are the last of the rows stored or in the statement.         *)
(***************************************************************************)

\* The last record the watchers have been told of.
Told == (Len(stored) + Len(inserting)) - Len(dtos)

DtosInv ==
  /\ Told \in Nat
  /\ Follows(dtos, Told)

\* Watcher w waits in the channel at place i.
WaitsAt(w, i) == queue[i].type = "AddRecordWatcher" /\ queue[i].watcher = w

\* A watcher is in one place, and is sent nothing before it is let in.
WhereInv(w) ==
  /\ \A i \in 1..Len(queue) : WaitsAt(w, i) =>
       /\ w \in known \ newWatchers /\ since[w] = 0
       /\ \A j \in 1..Len(queue) : WaitsAt(w, j) => i = j
  /\ w \in newWatchers => w \in known /\ since[w] = 0
  /\ w \in watchers => since[w] # 0
  /\ since[w] # 0 => w \in known
  /\ since[w] = 0 => feed[w] = <<>>

Increasing(s) == \A i, j \in 1..Len(s) : i < j => s[i] < s[j]

\* The elements of s are the records from a to b that pass the filter of w.
IsFeed(w, s, a, b) ==
  \A r \in Nat : (\E i \in 1..Len(s) : s[i] = r)
                   <=> a <= r /\ r <= b /\ r \in Wanted[w] \ Orphan

FeedInv(w) ==
  /\ Increasing(feed[w])
  /\ \A i \in 1..Len(feed[w]) : feed[w][i] <= Told
  /\ since[w] <= Told + 1
  /\ task = "running" /\ w \in watchers \ gone => IsFeed(w, feed[w], since[w], Told)

FInv == IInv /\ DtosInv /\ \A w \in Watchers : WhereInv(w) /\ FeedInv(w)

-----------------------------------------------------------------------------
\* The lengths that Told is made of.
LEMMA Lengths ==
  ASSUME Types
  PROVE  /\ Len(stored) \in Nat /\ Len(inserting) \in Nat /\ Len(dtos) \in Nat
         /\ Len(buf2) \in Nat /\ Len(queue) \in Nat
         /\ \A w \in Watchers : feed[w] \in Seq(Nat) /\ Len(feed[w]) \in Nat /\ since[w] \in Nat
  BY LenProperties DEF Types

\* An increasing feed takes the next record that its watcher wants.
LEMMA FeedTakes ==
  ASSUME NEW w \in Watchers, NEW s \in Seq(Nat), NEW a \in Nat, NEW b \in Nat,
         Increasing(s), \A i \in 1..Len(s) : s[i] <= b,
         NEW P, P => IsFeed(w, s, a, b) /\ a <= b + 1 /\ b + 1 \in Wanted[w] \ Orphan
  PROVE  /\ Increasing(Append(s, b + 1))
         /\ \A i \in 1..Len(Append(s, b + 1)) : Append(s, b + 1)[i] <= b + 1
         /\ P => IsFeed(w, Append(s, b + 1), a, b + 1)
<1> DEFINE t == Append(s, b + 1)
<1>1. /\ Len(s) \in Nat /\ Len(t) = Len(s) + 1
      /\ \A i \in 1..Len(s) : t[i] = s[i] /\ s[i] \in Nat
      /\ t[Len(s) + 1] = b + 1
  BY AppendProperties, LenProperties, ElementOfSeq
<1>2. \A i \in 1..Len(t) : i \in 1..Len(s) \/ i = Len(s) + 1
  BY <1>1
<1>3. \A i \in 1..Len(t) : t[i] <= b + 1
  BY <1>1, <1>2
<1>4. Increasing(t)
  <2> SUFFICES ASSUME NEW i \in 1..Len(t), NEW j \in 1..Len(t), i < j
               PROVE  t[i] < t[j]
    BY DEF Increasing
  <2>1. i \in 1..Len(s)
    BY <1>1, <1>2
  <2>2. CASE j \in 1..Len(s)
    BY <1>1, <2>1, <2>2 DEF Increasing
  <2>3. CASE j = Len(s) + 1
    BY <1>1, <2>1, <2>3
  <2>4. QED
    BY <1>2, <2>2, <2>3
<1>5. ASSUME P
      PROVE  IsFeed(w, t, a, b + 1)
  <2> SUFFICES ASSUME NEW r \in Nat
               PROVE  (\E i \in 1..Len(t) : t[i] = r)
                        <=> a <= r /\ r <= b + 1 /\ r \in Wanted[w] \ Orphan
    BY DEF IsFeed
  <2>1. (\E i \in 1..Len(t) : t[i] = r) <=> (\E i \in 1..Len(s) : s[i] = r) \/ r = b + 1
    <3>1. Len(s) + 1 \in 1..Len(t) /\ \A i \in 1..Len(s) : i \in 1..Len(t)
      BY <1>1
    <3>2. ASSUME NEW i \in 1..Len(t), t[i] = r
          PROVE  (\E j \in 1..Len(s) : s[j] = r) \/ r = b + 1
      BY <1>1, <1>2, <3>2
    <3>3. ASSUME NEW i \in 1..Len(s), s[i] = r
          PROVE  i \in 1..Len(t) /\ t[i] = r
      BY <1>1, <3>1, <3>3
    <3>4. r = b + 1 => t[Len(s) + 1] = r
      BY <1>1
    <3>5. QED
      BY <3>1, <3>2, <3>3, <3>4
  <2>2. (\E i \in 1..Len(s) : s[i] = r) <=> a <= r /\ r <= b /\ r \in Wanted[w] \ Orphan
    BY <1>5 DEF IsFeed
  <2>3. a <= b + 1 /\ b + 1 \in Wanted[w] \ Orphan
    BY <1>5
  <2>4. QED
    BY <2>1, <2>2, <2>3
<1>6. QED
  BY <1>3, <1>4, <1>5

\* A feed without the next record, which its watcher does not want, is complete.
LEMMA FeedPasses ==
  ASSUME NEW w \in Watchers, NEW s, NEW a \in Nat, NEW b \in Nat,
         IsFeed(w, s, a, b), b + 1 \notin Wanted[w] \ Orphan
  PROVE  IsFeed(w, s, a, b + 1)
<1> SUFFICES ASSUME NEW r \in Nat
             PROVE  (r <= b /\ r \in Wanted[w] \ Orphan)
                      <=> (r <= b + 1 /\ r \in Wanted[w] \ Orphan)
  BY DEF IsFeed
<1>1. r <= b + 1 <=> r <= b \/ r = b + 1
  OBVIOUS
<1>2. QED
  BY <1>1

-----------------------------------------------------------------------------
\* A message received from the channel: a watcher is set aside, once.
LEMMA ReceiveKeeps ==
  ASSUME FInv, IInv', PreHandleMsg,
         UNCHANGED <<senderVars, task, buf2, watchers, since, flushVars>>
  PROVE  FInv'
<1>1. DtosInv' /\ \A w \in Watchers : FeedInv(w)'
  BY DEF FInv, DtosInv, Told, FeedInv, flushVars, senderVars
<1>2. /\ queue \in Seq(AppRunMsg) /\ queue # <<>> /\ queue' = Tail(queue)
  BY DEF FInv, IInv, Types, PreHandleMsg
<1>3. /\ Head(queue) = queue[1] /\ Len(queue) \in Nat \ {0}
      /\ Head(queue) \in AppRunMsg
      /\ Len(queue') = Len(queue) - 1
      /\ \A i \in 1..Len(queue') : queue'[i] = queue[i + 1]
  BY <1>2, ChannelTail
<1>4. \A i \in 1..Len(queue') : i + 1 \in 1..Len(queue) /\ i + 1 # 1 /\ 1 \in 1..Len(queue)
  BY <1>3
<1>5. ASSUME NEW w \in Watchers
      PROVE  WhereInv(w)'
  <2>1. WhereInv(w)
    BY DEF FInv
  <2>2. /\ since' = since /\ known' = known /\ watchers' = watchers /\ feed' = feed
    BY DEF senderVars, flushVars
  <2>3. CASE WaitsAt(w, 1)
    <3>1. newWatchers' = newWatchers \cup {w}
      BY <1>3, <2>3 DEF PreHandleMsg, WaitsAt
    <3>2. w \in known /\ since[w] = 0
      BY <1>3, <1>4, <2>1, <2>3 DEF WhereInv
    <3>3. \A i \in 1..Len(queue') : ~WaitsAt(w, i)'
      BY <1>3, <1>4, <2>1, <2>3 DEF WhereInv, WaitsAt
    <3>4. QED
      BY <2>1, <2>2, <3>1, <3>2, <3>3 DEF WhereInv
  <2>4. CASE ~WaitsAt(w, 1)
    <3>1. w \in newWatchers' <=> w \in newWatchers
      BY <1>3, <2>4 DEF PreHandleMsg, WaitsAt
    <3>2. \A i \in 1..Len(queue') : WaitsAt(w, i)' <=> WaitsAt(w, i + 1)
      BY <1>3 DEF WaitsAt
    <3>3. \A i \in 1..Len(queue') : WaitsAt(w, i)' =>
            /\ w \in known \ newWatchers /\ since[w] = 0
            /\ \A j \in 1..Len(queue') : WaitsAt(w, j)' => i + 1 = j + 1
      BY <1>4, <2>1, <3>2 DEF WhereInv
    <3>4. \A i, j \in 1..Len(queue') : i + 1 = j + 1 => i = j
      BY <1>3
    <3>5. QED
      BY <2>1, <2>2, <3>1, <3>3, <3>4 DEF WhereInv
  <2>5. QED
    BY <2>3, <2>4
<1>6. QED
  BY <1>1, <1>5 DEF FInv

\* Forwarding a watcher: it was in no place before.
LEMMA ForwardKeeps ==
  ASSUME FInv, IInv', NEW v \in Watchers, ForwardWatcher(v)
  PROVE  FInv'
<1> DEFINE m == AddRecordWatcher(v)
<1>1. DtosInv' /\ \A w \in Watchers : FeedInv(w)'
  BY DEF FInv, DtosInv, Told, FeedInv, flushVars, ForwardWatcher
<1>2. queue \in Seq(AppRunMsg) /\ m \in AppRunMsg
      /\ m.type = "AddRecordWatcher" /\ m.watcher = v
  BY RecordsAreMessages DEF FInv, IInv, Types
<1>3. /\ Len(queue) \in Nat /\ Len(Append(queue, m)) = Len(queue) + 1
      /\ \A i \in 1..Len(queue) : Append(queue, m)[i] = queue[i]
      /\ Append(queue, m)[Len(queue) + 1] = m
  BY <1>2, AppendProperties, LenProperties
<1>4. \A i \in 1..Len(queue') : \/ i \in 1..Len(queue) /\ queue'[i] = queue[i]
                                \/ i = Len(queue) + 1 /\ queue'[i] = m
  BY <1>3 DEF ForwardWatcher
<1>5. /\ v \notin known /\ known' = known \cup {v}
      /\ UNCHANGED <<newWatchers, watchers, since, feed>>
  BY DEF ForwardWatcher, flushVars
<1>6. ASSUME NEW w \in Watchers
      PROVE  WhereInv(w)'
  <2>1. WhereInv(w)
    BY DEF FInv
  <2>2. \A i \in 1..Len(queue') : WaitsAt(w, i)' =>
          (i \in 1..Len(queue) /\ WaitsAt(w, i)) \/ (w = v /\ i = Len(queue) + 1)
    BY <1>2, <1>4 DEF WaitsAt
  <2>3. CASE w = v
    <3>1. \A i \in 1..Len(queue) : ~WaitsAt(w, i)
      BY <1>5, <2>1, <2>3 DEF WhereInv
    <3>2. w \notin newWatchers /\ since[w] = 0
      BY <1>5, <2>1, <2>3 DEF WhereInv
    <3>3. QED
      BY <1>5, <2>1, <2>2, <2>3, <3>1, <3>2 DEF WhereInv
  <2>4. CASE w # v
    BY <1>5, <2>1, <2>2, <2>4 DEF WhereInv
  <2>5. QED
    BY <2>3, <2>4
<1>7. QED
  BY <1>1, <1>6 DEF FInv

\* Sending a record moves no watcher.
LEMMA SendKeeps ==
  ASSUME FInv, IInv', Send
  PROVE  FInv'
<1> DEFINE m == Record(sent + 1)
<1>1. DtosInv' /\ \A w \in Watchers : FeedInv(w)'
  BY DEF FInv, DtosInv, Told, FeedInv, flushVars, Send
<1>2. queue \in Seq(AppRunMsg) /\ m \in AppRunMsg /\ m.type # "AddRecordWatcher"
  BY RecordsAreMessages, SMTT(20) DEF FInv, IInv, Types
<1>3. /\ Len(queue) \in Nat /\ Len(Append(queue, m)) = Len(queue) + 1
      /\ \A i \in 1..Len(queue) : Append(queue, m)[i] = queue[i]
      /\ Append(queue, m)[Len(queue) + 1] = m
  BY <1>2, AppendProperties, LenProperties
<1>4. \A i \in 1..Len(queue') : \/ i \in 1..Len(queue) /\ queue'[i] = queue[i]
                                \/ queue'[i].type # "AddRecordWatcher"
  BY <1>2, <1>3 DEF Send
<1>5. UNCHANGED <<known, newWatchers, watchers, since, feed>>
  BY DEF Send, flushVars
<1>6. ASSUME NEW w \in Watchers
      PROVE  WhereInv(w)'
  <2>1. WhereInv(w)
    BY DEF FInv
  <2>2. \A i \in 1..Len(queue') : WaitsAt(w, i)' => i \in 1..Len(queue) /\ WaitsAt(w, i)
    BY <1>4 DEF WaitsAt
  <2>3. QED
    BY <1>5, <2>1, <2>2 DEF WhereInv
<1>7. QED
  BY <1>1, <1>6 DEF FInv

-----------------------------------------------------------------------------
\* The batch becomes the statement and the notifications; of the watchers only
\* those stay that have not left.
LEMMA PrepareKeeps ==
  ASSUME FInv, IInv', PrepareFlush
  PROVE  FInv'
<1>1. /\ inserting = <<>> /\ dtos = <<>> /\ inserting' = buf2 /\ dtos' = buf2
      /\ watchers' = watchers \ gone
      /\ UNCHANGED <<queue, known, gone, newWatchers, since, stored, feed, task>>
  BY DEF PrepareFlush, FInv, IInv, ControlInv, senderVars, fillVars
<1>2. /\ Len(stored) \in Nat /\ Len(buf2) \in Nat /\ Len(<<>>) = 0
      /\ Follows(buf2, Len(stored) + Len(inserting))
  BY Lengths, EmptySeq DEF FInv, IInv, BuffersInv
<1>3. Told = Len(stored) /\ Told' = Len(stored)
  BY <1>1, <1>2 DEF Told
<1>4. DtosInv'
  BY <1>1, <1>2, <1>3 DEF DtosInv
<1>5. \A w \in Watchers : WhereInv(w)'
  BY <1>1 DEF FInv, WhereInv, WaitsAt
<1>6. \A w \in Watchers : FeedInv(w)'
  BY <1>1, <1>3 DEF FInv, FeedInv
<1>7. QED
  BY <1>4, <1>5, <1>6 DEF FInv

\* The insert moves the statement to the rows.
LEMMA InsertKeeps ==
  ASSUME FInv, IInv', InsertRows
  PROVE  FInv'
<1>1. /\ stored' = stored \o inserting /\ inserting' = <<>>
      /\ UNCHANGED <<queue, known, gone, newWatchers, watchers, since, dtos, feed, task>>
  BY DEF InsertRows, senderVars, fillVars
<1>2. /\ stored \in Seq(Nat) /\ inserting \in Seq(Nat) /\ Len(dtos) \in Nat
      /\ Len(stored) \in Nat /\ Len(inserting) \in Nat
  BY Lengths DEF FInv, IInv, Types
<1>3. Len(stored') = Len(stored) + Len(inserting) /\ Len(inserting') = 0
  BY <1>1, <1>2, ConcatProperties, EmptySeq
<1>4. Told' = Told
  BY <1>1, <1>2, <1>3 DEF Told
<1>5. QED
  BY <1>1, <1>4 DEF FInv, DtosInv, WhereInv, WaitsAt, FeedInv

\* A notification is of the record after the last one told.
LEMMA NotifyKeeps ==
  ASSUME FInv, IInv', Notify
  PROVE  FInv'
<1> DEFINE r == Told + 1
           served(w) == w \in watchers \ gone /\ r \in Wanted[w] \ Orphan
<1>1. /\ dtos # <<>> /\ dtos' = Tail(dtos) /\ task = "running"
      /\ UNCHANGED <<queue, known, gone, newWatchers, watchers, since, stored, inserting, task>>
  BY DEF Notify, senderVars, fillVars
<1>2. dtos \in Seq(Nat) /\ Told \in Nat /\ Follows(dtos, Told)
  BY DEF FInv, IInv, Types, DtosInv
<1>3. /\ Len(dtos) \in Nat \ {0} /\ Head(dtos) = dtos[1]
      /\ Len(dtos') = Len(dtos) - 1
      /\ \A i \in 1..Len(dtos') : dtos'[i] = dtos[i + 1]
  BY <1>1, <1>2, HeadTailProperties, EmptySeq
<1>4. Head(dtos) = r
  BY <1>2, <1>3 DEF Follows
<1>5. Len(stored) \in Nat /\ Len(inserting) \in Nat
  BY Lengths DEF FInv, IInv
<1>6. Told' = r
  BY <1>1, <1>3, <1>5 DEF Told
<1>7. DtosInv'
  <2>1. \A i \in 1..Len(dtos') : dtos'[i] = r + i
    BY <1>2, <1>3 DEF Follows
  <2>2. QED
    BY <1>2, <1>6, <2>1 DEF DtosInv, Follows
<1>8. \A w \in Watchers : feed'[w] = IF served(w) THEN Append(feed[w], r) ELSE feed[w]
  BY <1>4 DEF Notify, Forwarded
<1>9. ASSUME NEW w \in Watchers
      PROVE  WhereInv(w)' /\ FeedInv(w)'
  <2>1. /\ WhereInv(w) /\ FeedInv(w)
        /\ feed[w] \in Seq(Nat) /\ Len(feed[w]) \in Nat /\ since[w] \in Nat
    BY Lengths DEF FInv, IInv
  <2>2. CASE served(w)
    <3>1. feed'[w] = Append(feed[w], r)
      BY <1>8, <2>2
    <3>2. since[w] # 0
      BY <2>1, <2>2 DEF WhereInv
    <3>3. WhereInv(w)'
      BY <1>1, <2>1, <3>2 DEF WhereInv, WaitsAt
    <3>4. IsFeed(w, feed[w], since[w], Told)
      BY <1>1, <2>1, <2>2 DEF FeedInv
    <3>5. since[w] <= r
      BY <2>1 DEF FeedInv
    <3>6. /\ Increasing(feed'[w])
          /\ \A i \in 1..Len(feed'[w]) : feed'[w][i] <= r
          /\ IsFeed(w, feed'[w], since[w], r)
      BY <1>2, <2>1, <2>2, <3>1, <3>4, <3>5, FeedTakes DEF FeedInv
    <3>7. QED
      BY <1>1, <1>2, <1>6, <2>1, <3>3, <3>5, <3>6 DEF FeedInv
  <2>3. CASE ~served(w)
    <3>1. feed'[w] = feed[w]
      BY <1>8, <2>3
    <3>2. WhereInv(w)'
      BY <1>1, <2>1, <3>1 DEF WhereInv, WaitsAt
    <3>3. (\A i \in 1..Len(feed[w]) : feed[w][i] <= r) /\ since[w] <= r + 1
      BY <1>2, <2>1, ElementOfSeq DEF FeedInv
    <3>4. w \in watchers \ gone => IsFeed(w, feed[w], since[w], r)
      BY <1>1, <1>2, <2>1, <2>3, FeedPasses DEF FeedInv
    <3>5. QED
      BY <1>1, <1>6, <2>1, <3>1, <3>2, <3>3, <3>4 DEF FeedInv
  <2>4. QED
    BY <2>2, <2>3
<1>10. QED
  BY <1>7, <1>9 DEF FInv

\* The watchers set aside are let in; they are sent what comes after the rows.
LEMMA SwapKeeps ==
  ASSUME FInv, IInv', Swap
  PROVE  FInv'
<1>1. /\ inserting = <<>> /\ dtos = <<>> /\ watchers' = watchers \cup newWatchers
      /\ newWatchers' = {} /\ task = "running"
      /\ UNCHANGED <<queue, known, gone, inserting, dtos, stored, feed>>
      /\ since' = [w \in Watchers |-> IF w \in newWatchers THEN Len(stored) + 1 ELSE since[w]]
  BY DEF Swap, senderVars
<1>2. Len(stored) \in Nat /\ Len(<<>>) = 0 /\ Told = Len(stored) /\ Told' = Len(stored)
  BY <1>1, Lengths, EmptySeq DEF FInv, IInv, Told
<1>3. DtosInv'
  BY <1>1, <1>2 DEF FInv, DtosInv
<1>4. ASSUME NEW w \in Watchers
      PROVE  WhereInv(w)' /\ FeedInv(w)'
  <2>1. WhereInv(w) /\ FeedInv(w) /\ since[w] \in Nat
    BY Lengths DEF FInv, IInv
  <2>2. CASE w \in newWatchers
    <3>1. /\ since'[w] = Len(stored) + 1 /\ w \in known /\ feed[w] = <<>>
      BY <1>1, <2>1, <2>2 DEF WhereInv
    <3>2. \A i \in 1..Len(queue) : ~WaitsAt(w, i)
      BY <2>1, <2>2 DEF WhereInv
    <3>3. WhereInv(w)'
      BY <1>1, <1>2, <3>1, <3>2 DEF WhereInv, WaitsAt
    <3>4. IsFeed(w, feed[w], Len(stored) + 1, Len(stored))
      BY <1>2, <3>1 DEF IsFeed
    <3>5. FeedInv(w)'
      BY <1>1, <1>2, <2>1, <3>1, <3>4 DEF FeedInv
    <3>6. QED
      BY <3>3, <3>5
  <2>3. CASE w \notin newWatchers
    <3>1. since'[w] = since[w]
      BY <1>1, <2>3
    <3>2. WhereInv(w)'
      BY <1>1, <2>1, <2>3, <3>1 DEF WhereInv, WaitsAt
    <3>3. FeedInv(w)'
      BY <1>1, <1>2, <2>1, <2>3, <3>1 DEF FeedInv
    <3>4. QED
      BY <3>2, <3>3
  <2>4. QED
    BY <2>2, <2>3
<1>5. QED
  BY <1>3, <1>4 DEF FInv

\* What neither moves a watcher to another place nor tells one of a record.
LEMMA OthersKeep ==
  ASSUME FInv, IInv',
         UNCHANGED <<queue, known, newWatchers, watchers, since, stored, inserting, dtos, feed>>,
         gone \subseteq gone', task' = "running" => task = "running"
  PROVE  FInv'
<1>1. DtosInv' /\ \A w \in Watchers : WhereInv(w)'
  BY DEF FInv, DtosInv, Told, WhereInv, WaitsAt
<1>2. \A w \in Watchers : FeedInv(w)'
  BY DEF FInv, FeedInv, Told
<1>3. QED
  BY <1>1, <1>2 DEF FInv

\* Every step.
LEMMA FeedStep ==
  ASSUME FInv, [Next]_vars
  PROVE  FInv'
<1> USE DEF senderVars, fillVars, flushVars
<1>1. IInv'
  BY InvariantStep DEF FInv
<1>2. CASE Send
  BY <1>1, <1>2, SendKeeps
<1>3. CASE LifetimeEnds \/ RegistryDrops \/ Abort \/ InsertFails
  BY <1>1, <1>3, OthersKeep DEF LifetimeEnds, RegistryDrops, Abort, InsertFails
<1>4. ASSUME NEW w \in Watchers, ForwardWatcher(w)
      PROVE  FInv'
  BY <1>1, <1>4, ForwardKeeps
<1>5. ASSUME NEW w \in Watchers, WatcherLeaves(w)
      PROVE  FInv'
  BY <1>1, <1>5, OthersKeep DEF WatcherLeaves
<1>6. CASE RecvFirst
  BY <1>1, <1>6, ReceiveKeeps DEF RecvFirst
<1>7. CASE RecvMore
  BY <1>1, <1>7, ReceiveKeeps DEF RecvMore
<1>8. CASE RecvEof \/ StopFilling
  BY <1>1, <1>8, OthersKeep DEF RecvEof, StopFilling
<1>9. CASE PrepareFlush
  BY <1>1, <1>9, PrepareKeeps
<1>10. CASE InsertRows
  BY <1>1, <1>10, InsertKeeps
<1>11. CASE Notify
  BY <1>1, <1>11, NotifyKeeps
<1>12. CASE Swap
  BY <1>1, <1>12, SwapKeeps
<1>13. CASE UNCHANGED vars
  BY <1>1, <1>13, OthersKeep DEF vars
<1>14. QED
  BY <1>2, <1>3, <1>4, <1>5, <1>6, <1>7, <1>8, <1>9, <1>10, <1>11, <1>12, <1>13
     DEF Next, Task, Fill, Flush, Environment, Rest

\* Where each watcher is and what it has been sent, throughout
\* (running_app.rs 525-546, 993-1046; event_service.rs 24-44).
THEOREM FeedInvariance == Spec => []FInv
<1>1. Init /\ IInv => FInv
  <2> SUFFICES ASSUME Init, IInv PROVE FInv
    OBVIOUS
  <2>1. Len(<<>>) = 0
    BY EmptySeq
  <2>2. DtosInv
    BY <2>1 DEF Init, DtosInv, Told, Follows
  <2>3. \A w \in Watchers : WhereInv(w) /\ FeedInv(w)
    BY <2>1 DEF Init, WhereInv, FeedInv, Increasing, Told
  <2>4. QED
    BY <2>2, <2>3 DEF FInv
<1>2. FInv /\ [Next]_vars => FInv'
  BY FeedStep
<1>3. QED
  BY <1>1, <1>2, Invariance, PTL DEF Spec

\* Every watcher that stays has been sent, in order and once each, exactly the
\* records its filter passes from the moment it was let in, for any watchers,
\* filters and batches (running_app.rs 1014-1043, event_service.rs 24-44).
THEOREM FeedIsComplete == Spec => []FeedComplete
<1>1. FInv => FeedComplete
  <2> SUFFICES ASSUME FInv, NEW w \in Watchers
               PROVE  /\ Increasing(feed[w])
                      /\ task = "running" /\ w \in watchers \ gone =>
                           {feed[w][i] : i \in 1..Len(feed[w])}
                             = Due(w) \ {dtos[i] : i \in 1..Len(dtos)}
    BY DEF FeedComplete, Increasing
  <2>1. /\ FeedInv(w) /\ Told \in Nat /\ Follows(dtos, Told)
        /\ Len(stored) \in Nat /\ Len(inserting) \in Nat /\ Len(dtos) \in Nat
        /\ feed[w] \in Seq(Nat) /\ since[w] \in Nat
    BY Lengths DEF FInv, IInv, DtosInv
  <2>2. ASSUME task = "running", w \in watchers \ gone
        PROVE  {feed[w][i] : i \in 1..Len(feed[w])}
                 = Due(w) \ {dtos[i] : i \in 1..Len(dtos)}
    <3>1. IsFeed(w, feed[w], since[w], Told)
      BY <2>1, <2>2 DEF FeedInv
    <3>2. \A i \in 1..Len(feed[w]) : feed[w][i] \in Nat
      BY <2>1, ElementOfSeq
    <3>3. \A r \in Nat : r \in {dtos[i] : i \in 1..Len(dtos)}
                           <=> r > Told /\ r <= Len(stored) + Len(inserting)
      <4> SUFFICES ASSUME NEW r \in Nat
                   PROVE  (\E i \in 1..Len(dtos) : dtos[i] = r)
                            <=> r > Told /\ r <= Told + Len(dtos)
        BY <2>1, SMTT(20) DEF Told
      <4>1. ASSUME NEW i \in 1..Len(dtos), dtos[i] = r
            PROVE  r > Told /\ r <= Told + Len(dtos)
        BY <2>1, <4>1 DEF Follows
      <4>2. ASSUME r > Told, r <= Told + Len(dtos)
            PROVE  r - Told \in 1..Len(dtos) /\ dtos[r - Told] = r
        BY <2>1, <4>2 DEF Follows
      <4>3. QED
        BY <4>1, <4>2
    <3>4. Told <= Len(stored) + Len(inserting)
      BY <2>1 DEF Told
    <3>5. \A r : r \in Due(w) <=> /\ r \in Nat /\ since[w] <= r
                                   /\ r <= Len(stored) + Len(inserting)
                                   /\ r \in Wanted[w] \ Orphan
      BY <2>1 DEF Due
    <3>6. \A r : r \in {feed[w][i] : i \in 1..Len(feed[w])}
                   <=> r \in Nat /\ since[w] <= r /\ r <= Told /\ r \in Wanted[w] \ Orphan
      BY <3>1, <3>2 DEF IsFeed
    <3>7. \A r : r \in {feed[w][i] : i \in 1..Len(feed[w])}
                   <=> r \in Due(w) \ {dtos[i] : i \in 1..Len(dtos)}
      <4> SUFFICES ASSUME NEW r
                   PROVE  r \in Nat /\ since[w] <= r /\ r <= Told /\ r \in Wanted[w] \ Orphan
                            <=> r \in Due(w) /\ r \notin {dtos[i] : i \in 1..Len(dtos)}
        BY <3>6
      <4>1. CASE r \notin Nat
        BY <3>5, <4>1
      <4>2. CASE r \in Nat
        <5>1. r \in {dtos[i] : i \in 1..Len(dtos)}
                <=> r > Told /\ r <= Len(stored) + Len(inserting)
          BY <3>3, <4>2
        <5>2. r \in Due(w) <=> since[w] <= r /\ r <= Len(stored) + Len(inserting)
                                 /\ r \in Wanted[w] \ Orphan
          BY <3>5, <4>2
        <5>3. /\ r > Told <=> ~(r <= Told)
              /\ r <= Told => r <= Len(stored) + Len(inserting)
          BY <2>1, <3>4, <4>2
        <5>4. QED
          BY <4>2, <5>1, <5>2, <5>3
      <4>3. QED
        BY <4>1, <4>2
    <3>8. QED
      BY <3>7
  <2>3. QED
    BY <2>1, <2>2 DEF FeedInv
<1>2. QED
  BY <1>1, FeedInvariance, PTL
=============================================================================
