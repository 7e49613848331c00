----------------------------- MODULE RecordFile -----------------------------
(***************************************************************************)
(* RecordsPersistenceToFile of libs/client/src/persistence.rs: the file in *)
(* which a client keeps the records of its runs until the server has them. *)
(*                                                                         *)
(* The file begins with a header (TLRecordsMetadata), rewritten in place,  *)
(* and grows behind it: the records of a run ("instance") in blocks of     *)
(* RECORD_BLOCK_SIZE, each closed by a footer that points to the block     *)
(* before it, each instance closed by a footer that points to the one      *)
(* before.  Nothing behind the header is overwritten but in one case: when *)
(* the first block ever is full, a compression dictionary is made of its   *)
(* records and the file is begun anew with it.                             *)
(*                                                                         *)
(* A header is modelled with what can be reached from it, so a write that  *)
(* was not followed by a write of the header is not in the file.  A header *)
(* is written field by field over the one before, to a File without a      *)
(* buffer: a kill in between leaves a torn one.  What a torn header leads  *)
(* to, if it can be read at all, is not modelled.  Sizes, positions,       *)
(* compression and encoding are left out.  A record is its record_index;   *)
(* the index of the first record of a run is 1.                            *)
(***************************************************************************)
EXTENDS Naturals, Sequences, SequencesExt, FiniteSetsExt, Functions

CONSTANTS
  RECORD_BLOCK_SIZE,
  Threads,         \* threads of the application that record at the same time
  MaxIndex,        \* bound on the record indices of a run
  MaxInstances     \* bound on the runs that use the file

ASSUME ConstantsAssumption ==
  /\ RECORD_BLOCK_SIZE \in Nat \ {0}
  /\ Threads \in Nat \ {0} /\ Threads < RECORD_BLOCK_SIZE
  /\ MaxIndex \in Nat /\ MaxInstances \in Nat

VARIABLES
  disk,        \* the file, as it is reached from its header
  torn,        \* the header was left half written
  phase,       \* "down", "idle", "writing", "poisoned" or one of HeaderWrites
  metadata,    \* records_metadata in memory: of init, or of the write in progress
  written,     \* the records of the current run given to write_frames
  first,       \* the first record of the last batch, which NewRecord names
  inBatch,     \* how many records of the last batch are written
  committed,   \* the records of the writes that returned, <<instance, index>>
  forgotten    \* the instances lost from the file by a rewrite

vars == <<disk, torn, phase, metadata, written, first, inBatch, committed, forgotten>>

\* The header is being written: by init, by the reset before the dictionary, after
\* the dictionary's own bytes, at the end of write_frames.
HeaderWrites == {"opening", "resetting", "dictionary", "header"}

\* What a header leads to: the current instance (0 in a file never written) and
\* its last record, the current block, the blocks before it and the instances
\* before this one.  A block maps places, record_index modulo the block size, to
\* records.
NoBlock == <<>>
NoFile == [id |-> 0, last |-> 0, block |-> NoBlock, chain |-> <<>>, older |-> <<>>,
           dict |-> FALSE]

\* reset: the header of an empty file.
Fresh(id) == [NoFile EXCEPT !.id = id]

BlockOf(index) == index \div RECORD_BLOCK_SIZE
PlaceOf(index) == index % RECORD_BLOCK_SIZE

-----------------------------------------------------------------------------
(* The writer's steps on the header it has in memory.                      *)

\* append_record
AppendRecord(m, index) ==
  [m EXCEPT !.block = [p \in DOMAIN m.block \cup {PlaceOf(index)} |->
                         IF p = PlaceOf(index) THEN index ELSE m.block[p]],
            !.last = index]

\* Mutant: the footer does not point to the block before.
CloseBlockUnlinked(m) == [m EXCEPT !.chain = <<m.block>>, !.block = NoBlock]

\* write_block_footer, append_block_header
CloseBlock(m) == [m EXCEPT !.chain = Append(m.chain, m.block), !.block = NoBlock]

\* write_instance_footer, append_instance_header
CloseInstance(m, id) ==
  [m EXCEPT !.older = Append(m.older, [id |-> m.id, blocks |-> m.chain]),
            !.id = id, !.last = 0, !.chain = <<>>, !.block = NoBlock]

\* Mutant: the instance is closed before its last block.
NextInstanceFirst(m) ==
  IF m.id = 0 THEN Fresh(1) ELSE CloseBlock(CloseInstance(m, m.id + 1))

\* init: a file without a header is reset; in another the last instance is closed.
NextInstance(m) ==
  IF m.id = 0 THEN Fresh(1) ELSE CloseInstance(CloseBlock(m), m.id + 1)

\* Mutant: the records are numbered without the places left free.
RewriteRenumbered(m) ==
  LET places == SetToSortSeq(DOMAIN m.block, <)
  IN [Fresh(m.id) EXCEPT !.dict = TRUE, !.last = Max(DOMAIN m.block),
                         !.block = [p \in 0..Len(places) - 1 |-> m.block[places[p + 1]]]]

\* The file is begun anew with a dictionary.  The records of the full block, read
\* back before, are written again, each under its place in the block.
Rewrite(m) ==
  [Fresh(m.id) EXCEPT !.dict = TRUE, !.block = m.block, !.last = Max(DOMAIN m.block)]

-----------------------------------------------------------------------------
(* Reading.                                                                *)

\* The i-th of a set of numbers has i - 1 of them below it.
Ordered(S) ==
  [i \in 1..Cardinality(S) |-> CHOOSE x \in S : Cardinality({y \in S : y < x}) = i - 1]

\* The records of a block from a place on.
RecordsFrom(block, place) ==
  LET places == Ordered({p \in DOMAIN block : p >= place})
  IN [i \in 1..Len(places) |-> block[places[i]]]

\* blocks_from, oldest first, for the current instance: the current block alone
\* if the wanted one is not before it, and otherwise every block of the run,
\* wherever the wanted one is.
BlocksFrom(m, blockIndex) ==
  IF BlockOf(m.last) <= blockIndex THEN <<m.block>> ELSE Append(m.chain, m.block)

\* Whether the assertion of iter_from holds of the later blocks: the i-th is
\* taken to be the i-th after the one wanted.
LaterBlocksMatch(blocks, blockIndex) ==
  \A i \in 2..Len(blocks) : \A p \in DOMAIN blocks[i] :
    blocks[i][p] = (blockIndex + i - 1) * RECORD_BLOCK_SIZE + p

\* iter_from: the records handed to the callback when no assertion fails.
IterFrom(m, from) ==
  LET blocks == BlocksFrom(m, BlockOf(from))
      Part(i) == RecordsFrom(blocks[i], IF i = 1 THEN PlaceOf(from) ELSE 0)
  IN FlattenSeq([i \in 1..Len(blocks) |-> Part(i)])

\* The records of instance id that can be reached.
Reachable(m, id) ==
  LET blocks == IF m.id = id THEN ToSet(Append(m.chain, m.block))
                ELSE UNION {ToSet(o.blocks) : o \in {x \in ToSet(m.older) : x.id = id}}
  IN UNION {Range(b) : b \in blocks}
-----------------------------------------------------------------------------
Init ==
  /\ disk = NoFile
  /\ torn = FALSE
  /\ phase = "down"
  /\ metadata = NoFile
  /\ written = {}
  /\ first = 0
  /\ inBatch = 0
  /\ committed = {}
  /\ forgotten = {}

\* The process of the next run opens the file; what follows the last instance is
\* written behind it, then the header.
Start ==
  /\ phase = "down" /\ ~torn
  /\ disk.id < MaxInstances
  /\ metadata' = NextInstance(disk)
  /\ phase' = "opening"
  /\ written' = {} /\ first' = 0 /\ inBatch' = 0
  /\ UNCHANGED <<disk, torn, committed, forgotten>>

Opened ==
  /\ phase = "opening"
  /\ disk' = metadata
  /\ phase' = "idle"
  /\ UNCHANGED <<torn, metadata, written, first, inBatch, committed, forgotten>>

\* The records that may come next from the channel: a thread takes an index and
\* then sends the record, so a record can be overtaken by one of each other
\* thread (TLLayer, EncodeBytesSubscriber).
Arriving ==
  LET missing == (1..MaxIndex) \ written
  IN {i \in missing : Cardinality({j \in missing : j < i}) < Threads}

\* write_frames reads the header; its batch begins with record index.
BeginWrite(index) ==
  /\ phase = "idle"
  /\ index \in Arriving
  /\ phase' = "writing"
  /\ metadata' = disk
  /\ first' = index
  /\ inBatch' = 0
  /\ UNCHANGED <<disk, torn, written, committed, forgotten>>

\* The frame at hand: the first of the batch, or any record that may come next.
\* The writer takes at most RECORD_BLOCK_SIZE records into a batch.
Frame(index) ==
  /\ phase = "writing"
  /\ index \in Arriving
  /\ inBatch = 0 => index = first
  /\ inBatch < RECORD_BLOCK_SIZE

\* The frame belongs to the current block ...
WriteFrame(index) ==
  /\ Frame(index)
  /\ BlockOf(index) = BlockOf(metadata.last)
  /\ metadata' = AppendRecord(metadata, index)
  /\ written' = written \cup {index}
  /\ inBatch' = inBatch + 1
  /\ UNCHANGED <<disk, torn, phase, first, committed, forgotten>>

\* ... or to the next one, and there is a dictionary: the block is closed.
WriteFrameInNextBlock(index) ==
  /\ Frame(index)
  /\ BlockOf(index) = BlockOf(metadata.last) + 1
  /\ metadata.dict
  /\ metadata' = AppendRecord(CloseBlock(metadata), index)
  /\ written' = written \cup {index}
  /\ inBatch' = inBatch + 1
  /\ UNCHANGED <<disk, torn, phase, first, committed, forgotten>>

\* ... or to the next one, and there is none: the records of the current block are
\* read back, a dictionary is made of them, and the file is begun anew with it.
MakeDictionary(index) ==
  /\ Frame(index)
  /\ BlockOf(index) = BlockOf(metadata.last) + 1
  /\ ~metadata.dict
  /\ metadata' = Rewrite(metadata)
  /\ phase' = "resetting"
  /\ UNCHANGED <<disk, torn, written, first, inBatch, committed, forgotten>>

\* The header that reset writes has no dictionary ...
Reset ==
  /\ phase = "resetting"
  /\ disk' = Fresh(metadata.id)
  /\ forgotten' = forgotten \cup {disk.id} \cup {o.id : o \in ToSet(disk.older)}
  /\ phase' = "dictionary"
  /\ UNCHANGED <<torn, metadata, written, first, inBatch, committed>>

\* ... and the one after the dictionary's bytes has it, and no record yet.
DictionaryWritten ==
  /\ phase = "dictionary"
  /\ disk' = [Fresh(metadata.id) EXCEPT !.dict = TRUE]
  /\ phase' = "writing"
  /\ UNCHANGED <<torn, metadata, written, first, inBatch, committed, forgotten>>

\* ... or to neither: the assertion fails while the file is locked.
AssertFails(index) ==
  /\ Frame(index)
  /\ BlockOf(index) \notin {BlockOf(metadata.last), BlockOf(metadata.last) + 1}
  /\ phase' = "poisoned"
  /\ UNCHANGED <<disk, torn, metadata, written, first, inBatch, committed, forgotten>>

\* The batch is written: update_header begins ...
UpdateHeader ==
  /\ phase = "writing" /\ inBatch > 0
  /\ phase' = "header"
  /\ UNCHANGED <<disk, torn, metadata, written, first, inBatch, committed, forgotten>>

\* ... and is done, and write_frames returns.
EndWrite ==
  /\ phase = "header"
  /\ disk' = metadata
  /\ phase' = "idle"
  /\ committed' = committed \cup {<<metadata.id, i>> : i \in written}
  /\ forgotten' = forgotten \ {metadata.id}
  /\ UNCHANGED <<torn, metadata, written, first, inBatch>>

\* The process ends or is killed, between any two writes to the file.  If some
\* fields of the header are new and others old, nothing is taken to be reached.
Crash ==
  /\ phase # "down"
  /\ phase' = "down"
  /\ torn' \in (IF phase \in HeaderWrites THEN BOOLEAN ELSE {torn})
  /\ disk' = IF torn' THEN NoFile ELSE disk
  /\ UNCHANGED <<metadata, written, first, inBatch, committed, forgotten>>

Next ==
  \/ Start \/ Opened \/ Reset \/ DictionaryWritten \/ UpdateHeader \/ EndWrite \/ Crash
  \/ \E index \in 1..MaxIndex :
       \/ BeginWrite(index) \/ WriteFrame(index) \/ WriteFrameInNextBlock(index)
       \/ MakeDictionary(index) \/ AssertFails(index)

Spec == Init /\ [][Next]_vars
-----------------------------------------------------------------------------
\* A block of the file maps places to records that belong there.
BlockOK(block) ==
  /\ DOMAIN block \subseteq 0..RECORD_BLOCK_SIZE - 1
  /\ \A p \in DOMAIN block : block[p] \in 0..MaxIndex /\ PlaceOf(block[p]) = p

MetadataOK(m) ==
  /\ m.id \in 0..MaxInstances /\ m.last \in 0..MaxIndex /\ m.dict \in BOOLEAN
  /\ BlockOK(m.block)
  /\ \A b \in ToSet(m.chain) : BlockOK(b)
  /\ \A o \in ToSet(m.older) : o.id < m.id /\ \A b \in ToSet(o.blocks) : BlockOK(b)

\* The variables keep to their types: in every block that can be reached, every
\* record is at its place.
TypeOK ==
  /\ MetadataOK(disk) /\ MetadataOK(metadata)
  /\ torn \in BOOLEAN /\ phase \in {"down", "idle", "writing", "poisoned"} \cup HeaderWrites
  /\ written \subseteq 1..MaxIndex
  /\ first \in 0..MaxIndex /\ inBatch \in 0..RECORD_BLOCK_SIZE
  /\ committed \subseteq (1..MaxInstances) \X (1..MaxIndex)
  /\ forgotten \subseteq 1..MaxInstances

\* Reading the current run from a record of its first or of its current block on
\* hands over the records from there on, each once and in the order of their
\* indices, also when they were written in another order: across the rewrite of
\* the first block, the footers of the blocks and restarts of the process.
ReadsBack ==
  phase = "idle" =>
    \A from \in 1..MaxIndex :
      BlockOf(from) \in {0, BlockOf(disk.last)} =>
        /\ LaterBlocksMatch(BlocksFrom(disk, BlockOf(from)), BlockOf(from))
        /\ IterFrom(disk, from) = Ordered({i \in written : i >= from})

\* A record of a write that returned stays in the file, through kills between any
\* two writes to it and through later runs, with two exceptions.  A kill while a
\* header is half written may lose every record (persistence.rs:182, 220, 540).
\* And the file may have been begun anew after the record: of the runs before, all
\* is lost, of the run that does it nothing unless it is killed before that write
\* returns.
CommittedStays ==
  ~torn => \A x \in committed : x[2] \in Reachable(disk, x[1]) \/ x[1] \in forgotten

\* The blocks that follow the wanted one are the next ones (the assertion in
\* iter_from), when the reader asks for the batch just written.
LaterBlocksAreNext ==
  phase = "idle" /\ first # 0 =>
    LaterBlocksMatch(BlocksFrom(disk, BlockOf(first)), BlockOf(first))

\* A record is in the current block or the next (the assertion in write_frames).
NextBlockAtMost == phase # "poisoned"
=============================================================================
