-------------------------- MODULE RecordFileProofs --------------------------
(***************************************************************************)
(* What RecordFile keeps for every block size, number of threads, records  *)
(* and runs.                                                               *)
(*                                                                         *)
(* The inductive invariant says of the file, or of the header that a write *)
(* in progress has in memory, that each record of the run is in the block  *)
(* and at the place that its index gives (Holds); that a write in progress *)
(* goes on from the file as to the runs before (Follows); and of which run *)
(* a record was written for good (Committed).  What the reader gets is then*)
(* a matter of putting sequences of numbers one after another, each beyond *)
(* the one before (Enumerates, Chained).                                   *)
(***************************************************************************)
EXTENDS RecordFile, TLAPS, SequenceTheorems, FiniteSetTheorems, WellFoundedInduction

\* A block, an instance before the current one, and a header with all that can be
\* reached from it.
Places == 0..RECORD_BLOCK_SIZE - 1
Block == {b \in UNION {[D -> 0..MaxIndex] : D \in SUBSET Places} :
            \A p \in DOMAIN b : PlaceOf(b[p]) = p}
Instance == [id : Nat, blocks : Seq(Block)]
Metadata == [id : 0..MaxInstances, last : 0..MaxIndex, block : Block, chain : Seq(Block),
             older : Seq(Instance), dict : BOOLEAN]

\* The instances before the current one have numbers of runs before it.
Numbered(m) == \A i \in DOMAIN m.older : m.older[i].id \in 1..m.id - 1

\* The variables have their types.
Types ==
  /\ disk \in Metadata /\ Numbered(disk)
  /\ metadata \in Metadata /\ Numbered(metadata)
  /\ phase \in {"down", "idle", "writing", "poisoned"} \cup HeaderWrites
  /\ torn \in BOOLEAN /\ (torn => phase = "down")
  /\ written \subseteq 1..MaxIndex
  /\ first \in 0..MaxIndex /\ inBatch \in 0..RECORD_BLOCK_SIZE
  /\ committed \subseteq (1..MaxInstances) \X (1..MaxIndex)
  /\ forgotten \subseteq 1..MaxInstances

\* The blocks of the current instance, oldest first.
Blocks(m) == Append(m.chain, m.block)

\* A record is in one of the blocks B, each in the block and at the place it belongs.
IsIn(i, B) == BlockOf(i) + 1 \in DOMAIN B /\ PlaceOf(i) \in DOMAIN B[BlockOf(i) + 1]

\* The current instance has the records W, each in its block and at its place.
Placed(m, W) ==
  /\ \A k \in DOMAIN Blocks(m) : \A p \in DOMAIN Blocks(m)[k] :
       Blocks(m)[k][p] = (k - 1) * RECORD_BLOCK_SIZE + p /\ Blocks(m)[k][p] \in W
  /\ \A i \in W : IsIn(i, Blocks(m))

\* The current block is that of the last record, and before there is a dictionary
\* there is no other.
Holds(m, W) ==
  /\ Placed(m, W)
  /\ Len(m.chain) = BlockOf(m.last)
  /\ m.dict \/ m.chain = <<>>

\* A write is in progress.
Writes == phase \in {"writing", "resetting", "dictionary", "header"}

\* What a write in progress has not changed, and what the start of a run writes.
Follows ==
  /\ Writes => metadata.id = disk.id
  /\ phase \in {"writing", "header"} => metadata.older = disk.older
  /\ phase \in {"resetting", "dictionary"} => metadata.older = <<>>
  /\ phase = "opening" =>
       metadata = NextInstance(disk) /\ disk.id < MaxInstances /\ written = {}

\* The file, or the header of the write in progress, has the records of the run.
HoldsInv ==
  /\ phase = "idle" => Holds(disk, written)
  /\ Writes => Holds(metadata, written)
  /\ phase \notin {"down", "opening"} => disk.id # 0

\* The records written for good are of the runs until now, those of the current run
\* are given to the writer, and all are in the file unless it was begun anew, or its
\* header torn.
Committed ==
  /\ ~torn => \A x \in committed : x[1] <= disk.id
  /\ phase = "idle" \/ Writes => \A x \in committed : x[1] = disk.id => x[2] \in written
  /\ phase = "dictionary" => \A x \in committed : x[1] \in forgotten
  /\ CommittedStays

\* The inductive invariant.
IInv == Types /\ Follows /\ HoldsInv /\ Committed
-----------------------------------------------------------------------------
(* Blocks and places.                                                      *)

\* The block and the place of an index make the index, and no others do.
LEMMA IndexIs ==
  /\ \A i \in Nat : /\ BlockOf(i) \in Nat /\ PlaceOf(i) \in Places
                    /\ i = BlockOf(i) * RECORD_BLOCK_SIZE + PlaceOf(i)
  /\ \A k \in Nat, p \in Places : /\ k * RECORD_BLOCK_SIZE + p \in Nat
                                  /\ BlockOf(k * RECORD_BLOCK_SIZE + p) = k
                                  /\ PlaceOf(k * RECORD_BLOCK_SIZE + p) = p
<1>1. RECORD_BLOCK_SIZE \in Nat /\ RECORD_BLOCK_SIZE > 0
  BY ConstantsAssumption
<1>2. ASSUME NEW i \in Nat
      PROVE  /\ BlockOf(i) \in Nat /\ PlaceOf(i) \in Places
             /\ i = BlockOf(i) * RECORD_BLOCK_SIZE + PlaceOf(i)
  BY <1>1 DEF BlockOf, PlaceOf, Places
<1>3. ASSUME NEW k \in Nat, NEW p \in Places
      PROVE  /\ k * RECORD_BLOCK_SIZE + p \in Nat
             /\ BlockOf(k * RECORD_BLOCK_SIZE + p) = k
             /\ PlaceOf(k * RECORD_BLOCK_SIZE + p) = p
  BY <1>1 DEF BlockOf, PlaceOf, Places
<1>4. QED
  BY <1>2, <1>3

\* The greatest of some numbers up to n is one of them.
LEMMA MaxIs ==
  ASSUME NEW n \in Nat, NEW S \in SUBSET (0..n), S # {}
  PROVE  Max(S) \in S /\ \A y \in S : Max(S) >= y
<1> DEFINE T == {n - x : x \in S}
<1>1. T \subseteq Nat /\ T # {}
  <2>1. ASSUME NEW x \in S
        PROVE  n - x \in Nat
    OBVIOUS
  <2>2. PICK x \in S : TRUE
    OBVIOUS
  <2>3. n - x \in T
    OBVIOUS
  <2>4. QED
    BY <2>1, <2>3
<1>2. PICK t \in T : \A y \in T : ~(<<y, t>> \in OpToRel(<, Nat))
  BY <1>1, NatLessThanWellFounded, WFMin
<1>3. PICK x \in S : t = n - x
  OBVIOUS
<1>4. ASSUME NEW y \in S
      PROVE  x >= y
  <2>1. n - y \in T /\ n - y \in Nat /\ n - x \in Nat
    OBVIOUS
  <2>2. ~(n - y < n - x)
    BY <1>2, <1>3, <2>1 DEF OpToRel
  <2>3. QED
    BY <2>2
<1>5. QED
  BY <1>4 DEF Max

\* The block of an index grows with it, and up to the block size there is one block.
LEMMA BlockGrows ==
  /\ \A i \in 0..RECORD_BLOCK_SIZE - 1 : BlockOf(i) = 0 /\ PlaceOf(i) = i
  /\ BlockOf(0) = 0
<1>1. RECORD_BLOCK_SIZE \in Nat /\ RECORD_BLOCK_SIZE > 0
  BY ConstantsAssumption
<1>2. ASSUME NEW i \in 0..RECORD_BLOCK_SIZE - 1
      PROVE  BlockOf(i) = 0 /\ PlaceOf(i) = i
  <2>1. i = 0 * RECORD_BLOCK_SIZE + i /\ i \in Places
    BY <1>1 DEF Places
  <2>2. QED
    BY <2>1, IndexIs
<1>3. QED
  BY <1>1, <1>2

\* Blocks with one record more.
LEMMA BlockIs ==
  /\ NoBlock \in Block /\ DOMAIN NoBlock = {}
  /\ \A b \in Block : /\ DOMAIN b \subseteq Places /\ b \in [DOMAIN b -> 0..MaxIndex]
                      /\ \A p \in DOMAIN b : b[p] \in 0..MaxIndex /\ PlaceOf(b[p]) = p
<1>1. DOMAIN NoBlock = {} /\ NoBlock = [p \in {} |-> 0]
  BY DEF NoBlock
<1>2. NoBlock \in [{} -> 0..MaxIndex]
  BY <1>1
<1>3. NoBlock \in Block
  BY <1>1, <1>2 DEF Block
<1>4. QED
  BY <1>1, <1>3 DEF Block

\* A header with a record more is a header.
LEMMA AppendTyped ==
  ASSUME NEW m \in Metadata, NEW index \in 1..MaxIndex
  PROVE  /\ AppendRecord(m, index) \in Metadata
         /\ AppendRecord(m, index).id = m.id /\ AppendRecord(m, index).older = m.older
         /\ AppendRecord(m, index).chain = m.chain /\ AppendRecord(m, index).dict = m.dict
         /\ AppendRecord(m, index).last = index
         /\ DOMAIN AppendRecord(m, index).block = DOMAIN m.block \cup {PlaceOf(index)}
         /\ AppendRecord(m, index).block[PlaceOf(index)] = index
         /\ \A p \in DOMAIN m.block :
              p # PlaceOf(index) => AppendRecord(m, index).block[p] = m.block[p]
<1> DEFINE b == [p \in DOMAIN m.block \cup {PlaceOf(index)} |->
                   IF p = PlaceOf(index) THEN index ELSE m.block[p]]
<1>1. m.block \in Block
  BY DEF Metadata
<1>2. PlaceOf(index) \in Places /\ index \in 0..MaxIndex
  BY ConstantsAssumption, IndexIs
<1>3. b \in Block
  <2>1. DOMAIN b \in SUBSET Places /\ b \in [DOMAIN b -> 0..MaxIndex]
    BY <1>1, <1>2, BlockIs
  <2>2. \A p \in DOMAIN b : PlaceOf(b[p]) = p
    BY <1>1, <1>2, BlockIs
  <2>3. QED
    BY <2>1, <2>2 DEF Block
<1>4. PICK c \in Block : c = b
  BY <1>3
<1>5. AppendRecord(m, index) = [m EXCEPT !.block = c, !.last = index]
  BY <1>4 DEF AppendRecord
<1>6. /\ DOMAIN c = DOMAIN m.block \cup {PlaceOf(index)} /\ c[PlaceOf(index)] = index
      /\ \A p \in DOMAIN m.block : p # PlaceOf(index) => c[p] = m.block[p]
  BY <1>4
<1> HIDE DEF b
<1>7. QED
  BY <1>2, <1>5, <1>6 DEF Metadata

\* Closing a block keeps the header a header.
LEMMA CloseTyped ==
  ASSUME NEW m \in Metadata
  PROVE  /\ CloseBlock(m) \in Metadata
         /\ CloseBlock(m).id = m.id /\ CloseBlock(m).older = m.older
         /\ CloseBlock(m).chain = Blocks(m) /\ CloseBlock(m).dict = m.dict
         /\ CloseBlock(m).last = m.last /\ CloseBlock(m).block = NoBlock
<1>1. Append(m.chain, m.block) \in Seq(Block)
  BY AppendProperties DEF Metadata
<1>2. QED
  BY <1>1, BlockIs DEF Metadata, CloseBlock, Blocks

\* What the start of a run makes of the header.
LEMMA StartTyped ==
  ASSUME NEW m \in Metadata, m.id < MaxInstances
  PROVE  LET n == CloseInstance(CloseBlock(m), m.id + 1)
         IN  /\ n \in Metadata /\ n.id = m.id + 1 /\ n.last = 0
             /\ n.block = NoBlock /\ n.chain = <<>> /\ n.dict = m.dict
             /\ n.older = Append(m.older, [id |-> m.id, blocks |-> Blocks(m)])
<1> DEFINE o == [id |-> m.id, blocks |-> Blocks(m)]
<1>1. /\ CloseBlock(m) \in Metadata /\ CloseBlock(m).chain = Blocks(m)
      /\ CloseBlock(m).id = m.id /\ CloseBlock(m).older = m.older
      /\ CloseBlock(m).dict = m.dict
  BY CloseTyped
<1>2. o \in Instance
  <2>1. Blocks(m) \in Seq(Block) /\ m.id \in Nat
    BY <1>1 DEF Metadata
  <2>2. QED
    BY <2>1 DEF Instance
<1>3. Append(m.older, o) \in Seq(Instance)
  BY <1>2, AppendProperties DEF Metadata
<1>4. m.id + 1 \in 0..MaxInstances /\ 0 \in 0..MaxIndex /\ <<>> \in Seq(Block)
  BY ConstantsAssumption DEF Metadata
<1>5. CloseInstance(CloseBlock(m), m.id + 1)
        = [CloseBlock(m) EXCEPT !.older = Append(m.older, o), !.id = m.id + 1, !.last = 0,
                                !.chain = <<>>, !.block = NoBlock]
  BY <1>1 DEF CloseInstance
<1> HIDE DEF o
<1>6. QED
  <2>1. PICK s \in Seq(Instance) : s = Append(m.older, o)
    BY <1>3
  <2>2. PICK n : n = [CloseBlock(m) EXCEPT !.older = s, !.id = m.id + 1, !.last = 0,
                                           !.chain = <<>>, !.block = NoBlock]
    OBVIOUS
  <2>3. /\ n \in Metadata /\ n.id = m.id + 1 /\ n.last = 0 /\ n.block = NoBlock
        /\ n.chain = <<>> /\ n.dict = m.dict /\ n.older = s
    BY <1>1, <1>4, <2>2, BlockIs DEF Metadata
  <2>4. n = CloseInstance(CloseBlock(m), m.id + 1)
    BY <1>5, <2>1, <2>2
  <2>5. QED
    BY <2>1, <2>3, <2>4 DEF o

\* The header of an empty file, and that of the file begun anew.
LEMMA FreshTyped ==
  ASSUME NEW id \in 0..MaxInstances
  PROVE  /\ Fresh(id) \in Metadata /\ Fresh(id).id = id /\ Fresh(id).last = 0
         /\ Fresh(id).block = NoBlock /\ Fresh(id).chain = <<>> /\ Fresh(id).older = <<>>
         /\ [Fresh(id) EXCEPT !.dict = TRUE] \in Metadata
<1>1. /\ 0 \in 0..MaxIndex /\ 0 \in 0..MaxInstances
      /\ <<>> \in Seq(Block) /\ <<>> \in Seq(Instance)
  BY ConstantsAssumption
<1>2. /\ NoFile \in Metadata /\ NoFile.last = 0 /\ NoFile.block = NoBlock
      /\ NoFile.chain = <<>> /\ NoFile.older = <<>>
  BY <1>1, BlockIs DEF Metadata, NoFile
<1>3. /\ Fresh(id) \in Metadata /\ Fresh(id).id = id /\ Fresh(id).last = 0
      /\ Fresh(id).block = NoBlock /\ Fresh(id).chain = <<>> /\ Fresh(id).older = <<>>
  BY <1>2 DEF Metadata, Fresh
<1>4. [Fresh(id) EXCEPT !.dict = TRUE] \in Metadata
  BY <1>3 DEF Metadata
<1>5. QED
  BY <1>3, <1>4

\* The header of the records written again.
LEMMA RewriteTyped ==
  ASSUME NEW m \in Metadata, DOMAIN m.block # {}
  PROVE  /\ Rewrite(m) \in Metadata /\ Rewrite(m).id = m.id /\ Rewrite(m).dict
         /\ Rewrite(m).block = m.block /\ Rewrite(m).chain = <<>>
         /\ Rewrite(m).older = <<>> /\ BlockOf(Rewrite(m).last) = 0
<1>1. m.block \in Block /\ m.id \in 0..MaxInstances /\ RECORD_BLOCK_SIZE - 1 \in Nat
  BY ConstantsAssumption DEF Metadata
<1>2. Max(DOMAIN m.block) \in DOMAIN m.block
  <2>1. DOMAIN m.block \in SUBSET (0..RECORD_BLOCK_SIZE - 1)
    BY <1>1, BlockIs DEF Places
  <2>2. QED
    BY <1>1, <2>1, MaxIs
<1>3. PICK l : l = Max(DOMAIN m.block)
  OBVIOUS
<1>4. l \in 0..RECORD_BLOCK_SIZE - 1 /\ l \in 0..MaxIndex
  <2>1. l \in Places /\ m.block[l] \in 0..MaxIndex /\ PlaceOf(m.block[l]) = l
    BY <1>1, <1>2, <1>3, BlockIs
  <2>2. m.block[l] = BlockOf(m.block[l]) * RECORD_BLOCK_SIZE + l /\ BlockOf(m.block[l]) \in Nat
    BY <2>1, IndexIs
  <2>3. l <= m.block[l]
    BY <2>1, <2>2, ConstantsAssumption DEF Places
  <2>4. QED
    BY <2>1, <2>3, ConstantsAssumption DEF Places
<1>5. /\ Fresh(m.id) \in Metadata /\ Fresh(m.id).id = m.id /\ Fresh(m.id).chain = <<>>
      /\ Fresh(m.id).older = <<>>
      /\ Rewrite(m) = [Fresh(m.id) EXCEPT !.dict = TRUE, !.block = m.block, !.last = l]
  BY <1>1, <1>3, FreshTyped DEF Rewrite
<1>6. BlockOf(l) = 0
  BY <1>4, BlockGrows
<1>7. QED
  BY <1>1, <1>4, <1>5, <1>6 DEF Metadata
-----------------------------------------------------------------------------
(* Where the records of a run are.                                         *)

\* The blocks of the current instance are its closed ones and the current one.
LEMMA BlocksIs ==
  ASSUME NEW m \in Metadata
  PROVE  /\ Blocks(m) \in Seq(Block) /\ Len(m.chain) \in Nat
         /\ Len(Blocks(m)) = Len(m.chain) + 1
         /\ DOMAIN Blocks(m) = 1..Len(m.chain) + 1
         /\ \A k \in 1..Len(m.chain) : Blocks(m)[k] = m.chain[k]
         /\ Blocks(m)[Len(m.chain) + 1] = m.block
<1>1. m.chain \in Seq(Block) /\ m.block \in Block
  BY DEF Metadata
<1>2. QED
  BY <1>1, AppendProperties DEF Blocks

\* A record appended is in the current block, at its place, and the others stay.
LEMMA AppendPlaced ==
  ASSUME NEW m \in Metadata, NEW W \in SUBSET (1..MaxIndex), Placed(m, W),
         NEW index \in 1..MaxIndex, Len(m.chain) = BlockOf(index)
  PROVE  Placed(AppendRecord(m, index), W \cup {index})
<1>1. PICK n \in Metadata : n = AppendRecord(m, index)
  BY AppendTyped
<1>2. /\ n.chain = m.chain /\ DOMAIN n.block = DOMAIN m.block \cup {PlaceOf(index)}
      /\ n.block[PlaceOf(index)] = index
      /\ \A p \in DOMAIN m.block : p # PlaceOf(index) => n.block[p] = m.block[p]
  BY <1>1, AppendTyped
<1>3. PICK l \in Nat : l = Len(m.chain)
  BY BlocksIs
<1>4. /\ DOMAIN Blocks(m) = 1..l + 1 /\ Blocks(m)[l + 1] = m.block
      /\ \A k \in 1..l : Blocks(m)[k] = m.chain[k]
      /\ DOMAIN Blocks(n) = 1..l + 1 /\ Blocks(n)[l + 1] = n.block
      /\ \A k \in 1..l : Blocks(n)[k] = m.chain[k]
  BY <1>2, <1>3, BlocksIs
<1>5. /\ PlaceOf(index) \in Places
      /\ index = l * RECORD_BLOCK_SIZE + PlaceOf(index) /\ BlockOf(index) = l
  BY <1>3, IndexIs
<1>6. \A k \in DOMAIN Blocks(m) : \A p \in DOMAIN Blocks(m)[k] :
        Blocks(m)[k][p] = (k - 1) * RECORD_BLOCK_SIZE + p /\ Blocks(m)[k][p] \in W
  BY DEF Placed
<1>7. ASSUME NEW k \in DOMAIN Blocks(n), NEW p \in DOMAIN Blocks(n)[k]
      PROVE  /\ Blocks(n)[k][p] = (k - 1) * RECORD_BLOCK_SIZE + p
             /\ Blocks(n)[k][p] \in W \cup {index}
  <2>1. CASE k \in 1..l
    BY <1>4, <1>6, <2>1
  <2>2. CASE k = l + 1 /\ p = PlaceOf(index)
    <3>1. k - 1 = l /\ Blocks(n)[k][p] = index
      BY <1>2, <1>4, <2>2
    <3>2. QED
      BY <1>5, <2>2, <3>1
  <2>3. CASE k = l + 1 /\ p # PlaceOf(index)
    <3>1. k \in DOMAIN Blocks(m) /\ p \in DOMAIN Blocks(m)[k]
      BY <1>2, <1>4, <2>3
    <3>2. Blocks(n)[k][p] = Blocks(m)[k][p]
      BY <1>2, <1>4, <2>3, <3>1
    <3>3. QED
      BY <1>6, <3>1, <3>2
  <2>4. k \in 1..l \/ k = l + 1
    BY <1>4
  <2>5. QED
    BY <2>1, <2>2, <2>3, <2>4
<1>8. ASSUME NEW i \in W \cup {index}
      PROVE  IsIn(i, Blocks(n))
  <2>1. CASE i = index
    BY <1>2, <1>4, <1>5, <2>1 DEF IsIn
  <2>2. CASE i \in W
    <3>1. BlockOf(i) + 1 \in DOMAIN Blocks(m) /\ PlaceOf(i) \in DOMAIN Blocks(m)[BlockOf(i) + 1]
      BY <2>2 DEF Placed, IsIn
    <3>2. BlockOf(i) + 1 \in 1..l \/ BlockOf(i) + 1 = l + 1
      BY <1>4, <3>1
    <3>3. QED
      BY <1>2, <1>4, <3>1, <3>2 DEF IsIn
  <2>3. QED
    BY <2>1, <2>2
<1>9. QED
  BY <1>1, <1>7, <1>8 DEF Placed

\* Closing a block leaves the records where they are.
LEMMA ClosePlaced ==
  ASSUME NEW m \in Metadata, NEW W \in SUBSET (1..MaxIndex), Placed(m, W)
  PROVE  Placed(CloseBlock(m), W) /\ Len(CloseBlock(m).chain) = Len(m.chain) + 1
<1>1. PICK n \in Metadata : n = CloseBlock(m)
  BY CloseTyped
<1>2. n.chain = Blocks(m) /\ n.block = NoBlock
  BY <1>1, CloseTyped
<1>3. PICK l \in Nat : l = Len(m.chain)
  BY BlocksIs
<1>4. /\ DOMAIN Blocks(m) = 1..l + 1 /\ Len(n.chain) = l + 1
      /\ DOMAIN Blocks(n) = 1..l + 2 /\ Blocks(n)[l + 2] = NoBlock
      /\ \A k \in 1..l + 1 : Blocks(n)[k] = Blocks(m)[k]
  <2>1. DOMAIN Blocks(m) = 1..l + 1 /\ Len(n.chain) = l + 1
    BY <1>2, <1>3, BlocksIs
  <2>2. l + 1 + 1 = l + 2
    OBVIOUS
  <2>3. QED
    BY <1>2, <2>1, <2>2, BlocksIs
<1>5. ASSUME NEW k \in DOMAIN Blocks(n), NEW p \in DOMAIN Blocks(n)[k]
      PROVE  /\ Blocks(n)[k][p] = (k - 1) * RECORD_BLOCK_SIZE + p
             /\ Blocks(n)[k][p] \in W
  <2>1. k \in 1..l + 1
    <3>1. k \in 1..l + 1 \/ k = l + 2
      BY <1>4
    <3>2. k # l + 2
      BY <1>4, BlockIs
    <3>3. QED
      BY <3>1, <3>2
  <2>2. QED
    BY <1>4, <2>1 DEF Placed
<1>6. ASSUME NEW i \in W
      PROVE  IsIn(i, Blocks(n))
  BY <1>4 DEF Placed, IsIn
<1>7. QED
  BY <1>1, <1>3, <1>4, <1>5, <1>6 DEF Placed

\* An instance without a record.
LEMMA EmptyPlaced ==
  ASSUME NEW m \in Metadata, m.chain = <<>>, m.block = NoBlock, m.last = 0
  PROVE  Holds(m, {})
<1>1. Len(m.chain) = 0 /\ BlockOf(m.last) = 0
  BY BlockGrows
<1>2. \A k \in DOMAIN Blocks(m) : DOMAIN Blocks(m)[k] = {}
  BY <1>1, BlocksIs, BlockIs
<1>3. QED
  BY <1>1, <1>2 DEF Holds, Placed

\* The records written again are those of the one block there was.
LEMMA RewritePlaced ==
  ASSUME NEW m \in Metadata, NEW W \in SUBSET (1..MaxIndex), Placed(m, W),
         m.chain = <<>>, DOMAIN m.block # {}
  PROVE  Holds(Rewrite(m), W)
<1>1. /\ Rewrite(m).dict /\ Rewrite(m).block = m.block /\ Rewrite(m).chain = <<>>
      /\ BlockOf(Rewrite(m).last) = 0
  BY RewriteTyped
<1>2. Blocks(Rewrite(m)) = Blocks(m) /\ Len(Rewrite(m).chain) = 0
  BY <1>1 DEF Blocks
<1>3. QED
  BY <1>1, <1>2 DEF Holds, Placed
-----------------------------------------------------------------------------
(* What can be reached.                                                    *)

\* The records of the current instance are those of its blocks.
LEMMA ReachesPlaced ==
  ASSUME NEW m \in Metadata, NEW W \in SUBSET (1..MaxIndex), Placed(m, W)
  PROVE  W \subseteq Reachable(m, m.id)
<1>1. SUFFICES ASSUME NEW i \in W
               PROVE  i \in Reachable(m, m.id)
  OBVIOUS
<1>2. PICK k : k = BlockOf(i) + 1
  OBVIOUS
<1>3. k \in DOMAIN Blocks(m) /\ PlaceOf(i) \in DOMAIN Blocks(m)[k]
  BY <1>2 DEF Placed, IsIn
<1>4. Blocks(m)[k][PlaceOf(i)] = i
  <2>1. i \in Nat /\ BlockOf(i) \in Nat
    BY IndexIs
  <2>2. k - 1 = BlockOf(i)
    BY <1>2, <2>1
  <2>3. Blocks(m)[k][PlaceOf(i)] = (k - 1) * RECORD_BLOCK_SIZE + PlaceOf(i)
    BY <1>3 DEF Placed
  <2>4. QED
    BY <2>1, <2>2, <2>3, IndexIs
<1>5. i \in Range(Blocks(m)[k])
  BY <1>3, <1>4 DEF Range
<1>6. Blocks(m)[k] \in ToSet(Append(m.chain, m.block))
  BY <1>3 DEF Blocks, ToSet
<1>7. QED
  BY <1>5, <1>6 DEF Reachable

\* What can be reached of another instance depends on the instances before only.
LEMMA ReachesOlder ==
  ASSUME NEW m, NEW n, NEW id, m.older = n.older, m.id # id, n.id # id
  PROVE  Reachable(m, id) = Reachable(n, id)
BY DEF Reachable

\* Of the instances until now nothing is lost when the next one begins.
LEMMA ReachesClosed ==
  ASSUME NEW m \in Metadata, NEW n \in Metadata, NEW id \in Nat, id <= m.id, n.id = m.id + 1,
         n.older = Append(m.older, [id |-> m.id, blocks |-> Blocks(m)])
  PROVE  Reachable(m, id) \subseteq Reachable(n, id)
<1>1. PICK o : o = [id |-> m.id, blocks |-> Blocks(m)]
  OBVIOUS
<1>2. o.id = m.id /\ o.blocks = Blocks(m)
  BY <1>1
<1>3. m.older \in Seq(Instance) /\ n.older \in Seq(Instance) /\ m.id \in Nat
  BY DEF Metadata
<1>4. o \in Instance
  BY <1>1, <1>3, BlocksIs DEF Instance
<1>5. o \in ToSet(n.older) /\ ToSet(m.older) \subseteq ToSet(n.older)
  <2>1. n.older = Append(m.older, o)
    BY <1>1
  <2>2. /\ DOMAIN n.older = 1..Len(m.older) + 1 /\ n.older[Len(m.older) + 1] = o
        /\ \A i \in 1..Len(m.older) : n.older[i] = m.older[i]
        /\ DOMAIN m.older = 1..Len(m.older) /\ Len(m.older) \in Nat
    BY <1>3, <1>4, <2>1, AppendProperties
  <2>3. Len(m.older) + 1 \in DOMAIN n.older /\ DOMAIN m.older \subseteq DOMAIN n.older
    BY <2>2
  <2>4. QED
    BY <2>2, <2>3 DEF ToSet
<1>6. n.id # id
  BY <1>3
<1>7. CASE id = m.id
  <2>1. Reachable(m, id) = UNION {Range(b) : b \in ToSet(Blocks(m))}
    BY <1>7 DEF Reachable, Blocks
  <2>2. ToSet(Blocks(m)) \subseteq UNION {ToSet(x.blocks) : x \in {y \in ToSet(n.older) : y.id = id}}
    BY <1>2, <1>5, <1>7
  <2>3. Reachable(n, id)
          = UNION {Range(b) : b \in UNION {ToSet(x.blocks) :
                                             x \in {y \in ToSet(n.older) : y.id = id}}}
    BY <1>6 DEF Reachable
  <2>4. QED
    BY <2>1, <2>2, <2>3
<1>8. CASE id # m.id
  <2>1. {x \in ToSet(m.older) : x.id = id} \subseteq {x \in ToSet(n.older) : x.id = id}
    BY <1>5
  <2>2. Reachable(m, id)
          = UNION {Range(b) : b \in UNION {ToSet(x.blocks) :
                                             x \in {y \in ToSet(m.older) : y.id = id}}}
    BY <1>8 DEF Reachable
  <2>3. Reachable(n, id)
          = UNION {Range(b) : b \in UNION {ToSet(x.blocks) :
                                             x \in {y \in ToSet(n.older) : y.id = id}}}
    BY <1>6 DEF Reachable
  <2>4. QED
    BY <2>1, <2>2, <2>3
<1>9. QED
  BY <1>7, <1>8
-----------------------------------------------------------------------------
(* The invariant.                                                          *)

\* A file never written.
LEMMA NoFileIs == NoFile \in Metadata /\ Numbered(NoFile)
<1>1. /\ 0 \in 0..MaxIndex /\ 0 \in 0..MaxInstances
      /\ <<>> \in Seq(Block) /\ <<>> \in Seq(Instance)
  BY ConstantsAssumption
<1>2. NoFile \in Metadata /\ NoFile.older = <<>>
  BY <1>1, BlockIs DEF Metadata, NoFile
<1>3. QED
  BY <1>2 DEF Numbered

\* It holds at first.
LEMMA InitIInv == Init => IInv
<1>1. SUFFICES ASSUME Init
               PROVE  IInv
  OBVIOUS
<1>2. Types
  <2>1. NoFile \in Metadata /\ Numbered(NoFile)
    BY NoFileIs
  <2>3. 0 \in 0..MaxIndex /\ 0 \in 0..RECORD_BLOCK_SIZE
    BY ConstantsAssumption
  <2>4. QED
    BY <1>1, <2>1, <2>3 DEF Init, Types
<1>3. QED
  BY <1>1, <1>2 DEF Init, IInv, Writes, Follows, HoldsInv, Committed, CommittedStays

\* The record at hand is of the run and not yet given to the writer.
LEMMA ArrivingIs == \A i \in Arriving : i \in 1..MaxIndex /\ i \notin written
BY DEF Arriving

\* A write in progress has in memory what it read of the runs before.
LEMMA WritingIs ==
  ASSUME IInv, Writes
  PROVE  /\ metadata.id = disk.id /\ ~torn
         /\ phase \in {"writing", "header"} => metadata.older = disk.older
         /\ metadata.id \in 1..MaxInstances /\ Holds(metadata, written)
         /\ \A x \in committed : x[1] = disk.id => x[2] \in written
<1>1. metadata.id \in 0..MaxInstances /\ disk.id # 0 /\ metadata.id = disk.id /\ ~torn
  BY DEF IInv, Types, Metadata, HoldsInv, Follows, Writes
<1>2. metadata.id \in 1..MaxInstances
  BY <1>1, ConstantsAssumption
<1>3. QED
  BY <1>1, <1>2 DEF IInv, Follows, HoldsInv, Committed

\* The header with which a run begins loses nothing of the runs before.
LEMMA NextInstanceIs ==
  ASSUME IInv, ~torn, disk.id < MaxInstances, NEW n, n = NextInstance(disk)
  PROVE  /\ n \in Metadata /\ Numbered(n) /\ n.id = disk.id + 1 /\ disk.id \in Nat
         /\ n.chain = <<>> /\ n.block = NoBlock /\ n.last = 0
         /\ \A x \in committed : Reachable(disk, x[1]) \subseteq Reachable(n, x[1])
         /\ \A x \in committed : x[1] \in Nat /\ x[1] <= disk.id
<1>2. disk \in Metadata /\ disk.id \in Nat /\ MaxInstances \in Nat /\ disk.id < MaxInstances
  BY ConstantsAssumption DEF IInv, Types, Metadata
<1>3. \A x \in committed : x[1] \in 1..MaxInstances /\ x[1] <= disk.id
  BY DEF IInv, Types, Committed
<1>4. /\ n \in Metadata /\ Numbered(n) /\ n.id = disk.id + 1
      /\ n.chain = <<>> /\ n.block = NoBlock /\ n.last = 0
      /\ \A x \in committed : Reachable(disk, x[1]) \subseteq Reachable(n, x[1])
  <2>1. CASE disk.id = 0
    <3>1. n = Fresh(1) /\ 1 \in 0..MaxInstances
      BY <1>2, <2>1 DEF NextInstance
    <3>2. /\ n \in Metadata /\ n.id = 1 /\ n.older = <<>>
          /\ n.chain = <<>> /\ n.block = NoBlock /\ n.last = 0
      BY <3>1, FreshTyped
    <3>3. Numbered(n) /\ n.id = disk.id + 1
      BY <2>1, <3>2 DEF Numbered
    <3>4. committed = {}
      BY <1>2, <1>3, <2>1
    <3>5. QED
      BY <3>2, <3>3, <3>4
  <2>2. CASE disk.id # 0
    <3>1. n = CloseInstance(CloseBlock(disk), disk.id + 1)
      BY <2>2 DEF NextInstance
    <3>2. /\ n \in Metadata /\ n.id = disk.id + 1
          /\ n.chain = <<>> /\ n.block = NoBlock /\ n.last = 0
          /\ n.older = Append(disk.older, [id |-> disk.id, blocks |-> Blocks(disk)])
      BY <1>2, <3>1, StartTyped
    <3>3. Numbered(n)
      <4>1. PICK o \in Instance : o = [id |-> disk.id, blocks |-> Blocks(disk)]
        BY <1>2, BlocksIs DEF Instance
      <4>2. disk.older \in Seq(Instance) /\ n.older = Append(disk.older, o) /\ o.id = disk.id
        BY <1>2, <3>2, <4>1 DEF Metadata
      <4>3. PICK l \in Nat : l = Len(disk.older)
        BY <4>2
      <4>4. /\ DOMAIN n.older = 1..l + 1 /\ n.older[l + 1] = o
            /\ \A i \in 1..l : n.older[i] = disk.older[i]
        BY <4>2, <4>3, AppendProperties
      <4>5. \A i \in 1..l : disk.older[i].id \in 1..disk.id - 1
        BY <4>2, <4>3 DEF IInv, Types, Numbered
      <4>6. disk.id \in 1..n.id - 1
        BY <1>2, <2>2, <3>2
      <4>7. ASSUME NEW i \in 1..l + 1
            PROVE  n.older[i].id \in 1..n.id - 1
        <5>1. CASE i = l + 1
          BY <4>2, <4>4, <4>6, <5>1
        <5>2. CASE i \in 1..l
          <6>1. n.older[i].id = disk.older[i].id
            BY <4>4, <5>2
          <6>2. disk.older[i].id \in 1..disk.id - 1
            BY <4>5, <5>2
          <6>3. n.older[i].id \in 1..disk.id - 1
            BY <6>1, <6>2
          <6>4. PICK a \in Nat, b \in Nat : a = disk.id /\ b = n.id /\ b = a + 1
            BY <1>2, <3>2
          <6>5. QED
            BY <6>3, <6>4
        <5>3. QED
          BY <5>1, <5>2
      <4>8. QED
        BY <4>4, <4>7 DEF Numbered
    <3>4. ASSUME NEW x \in committed
          PROVE  Reachable(disk, x[1]) \subseteq Reachable(n, x[1])
      <4>1. x[1] \in Nat /\ x[1] <= disk.id
        BY <1>3
      <4>2. QED
        BY <1>2, <3>2, <4>1, ReachesClosed
    <3>5. QED
      BY <3>2, <3>3, <3>4
  <2>3. QED
    BY <2>1, <2>2
<1>5. ASSUME NEW x \in committed
      PROVE  x[1] \in Nat /\ x[1] <= disk.id
  <2>1. PICK k \in 1..MaxInstances : k = x[1]
    BY <1>3
  <2>2. k \in Nat
    BY <1>2
  <2>3. QED
    BY <1>3, <2>1, <2>2
<1>6. QED
  BY <1>2, <1>4, <1>5

\* Beginning to open the file keeps the invariant ...
LEMMA StartStep == IInv /\ Start => IInv'
<1>1. SUFFICES ASSUME IInv, Start
               PROVE  IInv'
  OBVIOUS
<1>2. /\ phase = "down" /\ ~torn /\ disk.id < MaxInstances /\ metadata' = NextInstance(disk)
      /\ phase' = "opening" /\ written' = {} /\ first' = 0 /\ inBatch' = 0
      /\ UNCHANGED <<disk, torn, committed, forgotten>>
  BY <1>1 DEF Start
<1>3. metadata' \in Metadata /\ Numbered(metadata')
  BY <1>1, <1>2, NextInstanceIs
<1>4. 0 \in 0..MaxIndex /\ 0 \in 0..RECORD_BLOCK_SIZE
  BY ConstantsAssumption
<1>5. Types'
  BY <1>1, <1>2, <1>3, <1>4 DEF IInv, Types, HeaderWrites
<1>6. Follows' /\ HoldsInv' /\ Committed'
  BY <1>1, <1>2 DEF IInv, Writes, Follows, NextInstance, HoldsInv, Committed, CommittedStays
<1>7. QED
  BY <1>5, <1>6 DEF IInv

\* ... and so does the header that is then written.
LEMMA OpenedStep == IInv /\ Opened => IInv'
<1>1. SUFFICES ASSUME IInv, Opened
               PROVE  IInv'
  OBVIOUS
<1>2. /\ phase = "opening" /\ disk' = metadata /\ phase' = "idle" /\ written = {} /\ ~torn
      /\ metadata = NextInstance(disk) /\ disk.id < MaxInstances
      /\ UNCHANGED <<torn, metadata, written, first, inBatch, committed, forgotten>>
  BY <1>1 DEF Opened, IInv, Types, Follows
<1>3. /\ disk.id \in Nat /\ disk'.id = disk.id + 1
      /\ disk'.chain = <<>> /\ disk'.block = NoBlock /\ disk'.last = 0
      /\ \A x \in committed : Reachable(disk, x[1]) \subseteq Reachable(disk', x[1])
      /\ \A x \in committed : x[1] \in Nat /\ x[1] <= disk.id
  BY <1>1, <1>2, NextInstanceIs
<1>4. metadata \in Metadata /\ Numbered(metadata)
  BY <1>1 DEF IInv, Types
<1>5. Types'
  BY <1>1, <1>2, <1>4 DEF IInv, Types, HeaderWrites
<1>6. Follows'
  BY <1>2 DEF Follows, Writes
<1>7. HoldsInv'
  <2>1. Holds(disk', {})
    BY <1>2, <1>3, <1>4, EmptyPlaced
  <2>2. disk'.id # 0
    BY <1>3
  <2>3. QED
    BY <1>2, <2>1, <2>2 DEF HoldsInv, Writes
<1>8. Committed'
  <2>1. \A x \in committed : x[1] <= disk'.id /\ x[1] # disk'.id
    BY <1>3
  <2>2. \A x \in committed : x[2] \in Reachable(disk', x[1]) \/ x[1] \in forgotten
    BY <1>1, <1>2, <1>3 DEF IInv, Committed, CommittedStays
  <2>3. QED
    BY <1>2, <2>1, <2>2 DEF Committed, CommittedStays
<1>9. QED
  BY <1>5, <1>6, <1>7, <1>8 DEF IInv

\* Reading the header keeps the invariant.
LEMMA BeginWriteStep == ASSUME NEW index \in 1..MaxIndex PROVE IInv /\ BeginWrite(index) => IInv'
<1>1. SUFFICES ASSUME IInv, BeginWrite(index)
               PROVE  IInv'
  OBVIOUS
<1>2. /\ phase = "idle" /\ phase' = "writing" /\ metadata' = disk /\ first' = index
      /\ inBatch' = 0 /\ disk' = disk /\ torn' = torn /\ written' = written
      /\ committed' = committed /\ forgotten' = forgotten
  BY <1>1 DEF BeginWrite
<1>3. Types'
  <2>1. index \in 0..MaxIndex /\ 0 \in 0..RECORD_BLOCK_SIZE
    BY ConstantsAssumption
  <2>2. QED
    BY <1>1, <1>2, <2>1 DEF IInv, Types
<1>4. Follows' /\ HoldsInv' /\ Committed'
  BY <1>1, <1>2 DEF IInv, Writes, Follows, HoldsInv, Committed, CommittedStays
<1>5. QED
  BY <1>3, <1>4 DEF IInv

\* A frame written to the header in memory keeps the invariant, if the header has the
\* records given to the writer.
LEMMA FrameStep ==
  ASSUME IInv, NEW index, Frame(index), NEW m, m \in Metadata, metadata' = m,
         m.id = metadata.id, m.older = metadata.older, Holds(m, written \cup {index}),
         written' = written \cup {index}, inBatch' = inBatch + 1,
         UNCHANGED <<disk, torn, phase, first, committed, forgotten>>
  PROVE  IInv'
<1>1. /\ phase = "writing" /\ index \in 1..MaxIndex /\ inBatch < RECORD_BLOCK_SIZE
  BY ArrivingIs DEF Frame
<1>2. Types'
  <2>1. Numbered(m)
    BY DEF IInv, Types, Numbered
  <2>2. inBatch + 1 \in 0..RECORD_BLOCK_SIZE
    BY <1>1, ConstantsAssumption DEF IInv, Types
  <2>3. QED
    BY <1>1, <2>1, <2>2 DEF IInv, Types
<1>3. Follows' /\ HoldsInv' /\ Committed'
  BY <1>1 DEF IInv, Writes, Follows, HoldsInv, Committed, CommittedStays
<1>4. QED
  BY <1>2, <1>3 DEF IInv

\* A frame of the current block.
LEMMA WriteFrameStep == ASSUME NEW index \in 1..MaxIndex PROVE IInv /\ WriteFrame(index) => IInv'
<1>1. SUFFICES ASSUME IInv, WriteFrame(index)
               PROVE  IInv'
  OBVIOUS
<1>2. /\ Frame(index) /\ BlockOf(index) = BlockOf(metadata.last)
      /\ metadata' = AppendRecord(metadata, index)
      /\ written' = written \cup {index} /\ inBatch' = inBatch + 1
      /\ UNCHANGED <<disk, torn, phase, first, committed, forgotten>>
  BY <1>1 DEF WriteFrame
<1>3. metadata \in Metadata /\ written \in SUBSET (1..MaxIndex) /\ Holds(metadata, written)
  BY <1>1, <1>2, WritingIs DEF IInv, Types, Frame, Writes
<1>4. PICK m \in Metadata : m = AppendRecord(metadata, index)
  BY <1>3, AppendTyped
<1>5. /\ m.id = metadata.id /\ m.older = metadata.older /\ m.chain = metadata.chain
      /\ m.dict = metadata.dict /\ m.last = index
  BY <1>3, <1>4, AppendTyped
<1>6. Len(metadata.chain) = BlockOf(index)
  BY <1>2, <1>3 DEF Holds
<1>7. Placed(m, written \cup {index})
  BY <1>3, <1>4, <1>6, AppendPlaced DEF Holds
<1>8. Holds(m, written \cup {index})
  BY <1>3, <1>5, <1>6, <1>7 DEF Holds
<1>9. QED
  BY <1>1, <1>2, <1>4, <1>5, <1>8, FrameStep

\* A frame of the next block.
LEMMA NextBlockStep ==
  ASSUME NEW index \in 1..MaxIndex PROVE IInv /\ WriteFrameInNextBlock(index) => IInv'
<1>1. SUFFICES ASSUME IInv, WriteFrameInNextBlock(index)
               PROVE  IInv'
  OBVIOUS
<1>2. /\ Frame(index) /\ BlockOf(index) = BlockOf(metadata.last) + 1 /\ metadata.dict
      /\ metadata' = AppendRecord(CloseBlock(metadata), index)
      /\ written' = written \cup {index} /\ inBatch' = inBatch + 1
      /\ UNCHANGED <<disk, torn, phase, first, committed, forgotten>>
  BY <1>1 DEF WriteFrameInNextBlock
<1>3. metadata \in Metadata /\ written \in SUBSET (1..MaxIndex) /\ Holds(metadata, written)
  BY <1>1, <1>2, WritingIs DEF IInv, Types, Frame, Writes
<1>4. PICK c \in Metadata : c = CloseBlock(metadata)
  BY <1>3, CloseTyped
<1>5. /\ c.id = metadata.id /\ c.older = metadata.older /\ c.dict = metadata.dict
      /\ Placed(c, written) /\ Len(c.chain) = BlockOf(index)
  BY <1>2, <1>3, <1>4, CloseTyped, ClosePlaced DEF Holds
<1>6. PICK m \in Metadata : m = AppendRecord(c, index)
  BY AppendTyped
<1>7. /\ m.id = metadata.id /\ m.older = metadata.older /\ m.chain = c.chain
      /\ m.dict = metadata.dict /\ m.last = index
  BY <1>5, <1>6, AppendTyped
<1>8. Placed(m, written \cup {index})
  BY <1>3, <1>5, <1>6, AppendPlaced
<1>9. Holds(m, written \cup {index})
  BY <1>2, <1>5, <1>7, <1>8 DEF Holds
<1>10. QED
  BY <1>1, <1>2, <1>4, <1>6, <1>7, <1>9, FrameStep

\* When a block is to be closed and there is no dictionary, the block has a record:
\* the first records to come are those of the first block.
LEMMA FullBlockIs ==
  ASSUME NEW m \in Metadata, Holds(m, written), ~m.dict, written \in SUBSET (1..MaxIndex),
         NEW index \in Arriving, BlockOf(index) = BlockOf(m.last) + 1
  PROVE  m.chain = <<>> /\ DOMAIN m.block # {}
<1>1. m.chain = <<>> /\ Len(m.chain) = 0 /\ BlockOf(index) = 1
  BY DEF Holds
<1>2. SUFFICES ASSUME DOMAIN m.block = {}
               PROVE  FALSE
  BY <1>1
<1>3. index \in 1..MaxIndex /\ RECORD_BLOCK_SIZE \in Nat /\ Threads < RECORD_BLOCK_SIZE
      /\ Threads \in Nat
  BY ArrivingIs, ConstantsAssumption
<1>4. written = {}
  <2>1. /\ \A k \in DOMAIN Blocks(m) : k = 1
        /\ Blocks(m)[1] = m.block
    <3>1. Len(m.chain) + 1 = 1
      BY <1>1
    <3>2. DOMAIN Blocks(m) = 1..1 /\ Blocks(m)[1] = m.block
      BY <3>1, BlocksIs
    <3>3. QED
      BY <3>2
  <2>2. \A i \in written : ~IsIn(i, Blocks(m))
    BY <1>2, <2>1 DEF IsIn
  <2>3. QED
    BY <2>2 DEF Holds, Placed
<1>5. index - 1 < Threads
  <2>1. {j \in (1..MaxIndex) \ written : j < index} = 1..index - 1
    <3>1. ASSUME NEW j
          PROVE  j \in 1..MaxIndex /\ j < index <=> j \in 1..index - 1
      BY <1>3, ConstantsAssumption
    <3>2. QED
      BY <1>4, <3>1
  <2>2. Cardinality({j \in (1..MaxIndex) \ written : j < index}) < Threads
    BY DEF Arriving
  <2>3. Cardinality(1..index - 1) = index - 1
    BY <1>3, FS_Interval
  <2>4. QED
    BY <2>1, <2>2, <2>3
<1>6. index \in 0..RECORD_BLOCK_SIZE - 1
  BY <1>3, <1>5
<1>7. QED
  BY <1>1, <1>6, BlockGrows

\* Making the dictionary keeps the invariant: the records are in memory ...
LEMMA MakeDictionaryStep ==
  ASSUME NEW index \in 1..MaxIndex PROVE IInv /\ MakeDictionary(index) => IInv'
<1>1. SUFFICES ASSUME IInv, MakeDictionary(index)
               PROVE  IInv'
  OBVIOUS
<1>2. /\ Frame(index) /\ BlockOf(index) = BlockOf(metadata.last) + 1 /\ ~metadata.dict
      /\ metadata' = Rewrite(metadata) /\ phase' = "resetting"
      /\ UNCHANGED <<disk, torn, written, first, inBatch, committed, forgotten>>
  BY <1>1 DEF MakeDictionary
<1>3. phase = "writing" /\ index \in Arriving
  BY <1>2 DEF Frame
<1>4. /\ metadata \in Metadata /\ written \in SUBSET (1..MaxIndex) /\ Holds(metadata, written)
      /\ metadata.id = disk.id /\ ~torn
  BY <1>1, <1>3, WritingIs DEF IInv, Types, Writes
<1>5. metadata.chain = <<>> /\ DOMAIN metadata.block # {}
  BY <1>2, <1>3, <1>4, FullBlockIs
<1>6. /\ metadata' \in Metadata /\ metadata'.id = metadata.id /\ metadata'.older = <<>>
      /\ Holds(metadata', written)
  BY <1>2, <1>4, <1>5, RewriteTyped, RewritePlaced DEF Holds
<1>7. Types'
  <2>1. Numbered(metadata')
    BY <1>6 DEF Numbered
  <2>2. QED
    BY <1>1, <1>2, <1>4, <1>6, <2>1 DEF IInv, Types, HeaderWrites
<1>8. Follows' /\ HoldsInv'
  BY <1>1, <1>2, <1>3, <1>4, <1>6 DEF IInv, Writes, Follows, HoldsInv
<1>9. Committed'
  BY <1>1, <1>2, <1>3 DEF IInv, Writes, Committed, CommittedStays
<1>10. QED
  BY <1>7, <1>8, <1>9 DEF IInv

\* ... and all that was written for good is given up with the header that reset writes.
LEMMA ResetStep == IInv /\ Reset => IInv'
<1>1. SUFFICES ASSUME IInv, Reset
               PROVE  IInv'
  OBVIOUS
<1>2. /\ phase = "resetting" /\ disk' = Fresh(metadata.id) /\ phase' = "dictionary"
      /\ forgotten' = forgotten \cup {disk.id} \cup {o.id : o \in ToSet(disk.older)}
      /\ UNCHANGED <<torn, metadata, written, first, inBatch, committed>>
  BY <1>1 DEF Reset
<1>3. /\ metadata \in Metadata /\ written \in SUBSET (1..MaxIndex) /\ Holds(metadata, written)
      /\ metadata.id = disk.id /\ ~torn /\ metadata.id \in 1..MaxInstances
      /\ \A x \in committed : x[1] = disk.id => x[2] \in written
      /\ metadata.older = <<>>
  BY <1>1, <1>2, WritingIs DEF IInv, Types, Writes, Follows
<1>4. disk' \in Metadata /\ disk'.id = metadata.id /\ disk'.older = <<>>
  <2>1. metadata.id \in 0..MaxInstances
    BY <1>3
  <2>2. QED
    BY <1>2, <2>1, FreshTyped
<1>5. Types'
  <2>1. Numbered(disk')
    BY <1>4 DEF Numbered
  <2>2. ASSUME NEW o \in ToSet(disk.older)
        PROVE  o.id \in 1..MaxInstances
    <3>1. PICK i \in DOMAIN disk.older : o = disk.older[i]
      BY DEF ToSet
    <3>2. o.id \in 1..disk.id - 1
      BY <1>1, <3>1 DEF IInv, Types, Numbered
    <3>3. QED
      BY <1>3, <3>2, ConstantsAssumption
  <2>3. forgotten' \subseteq 1..MaxInstances
    BY <1>1, <1>2, <1>3, <2>2 DEF IInv, Types
  <2>4. QED
    BY <1>1, <1>2, <1>3, <1>4, <2>1, <2>3 DEF IInv, Types, HeaderWrites
<1>6. Follows'
  BY <1>2, <1>3, <1>4 DEF Follows, Writes
<1>7. HoldsInv'
  <2>1. disk'.id # 0
    BY <1>3, <1>4
  <2>2. QED
    BY <1>2, <1>3, <2>1 DEF HoldsInv, Writes
<1>8. Committed'
  <2>1. ASSUME NEW x \in committed
        PROVE  x[1] \in forgotten'
    <3>1. CASE x[1] = disk.id
      BY <1>2, <3>1
    <3>2. CASE x[1] # disk.id /\ x[1] \in {o.id : o \in ToSet(disk.older)}
      BY <1>2, <3>2
    <3>3. CASE x[1] # disk.id /\ x[1] \notin {o.id : o \in ToSet(disk.older)}
      <4>1. {o \in ToSet(disk.older) : o.id = x[1]} = {}
        BY <3>3
      <4>2. Reachable(disk, x[1])
              = UNION {Range(b) : b \in UNION {ToSet(o.blocks) :
                                                 o \in {y \in ToSet(disk.older) : y.id = x[1]}}}
        BY <3>3 DEF Reachable
      <4>3. Reachable(disk, x[1]) = {}
        BY <4>1, <4>2
      <4>4. x[1] \in forgotten
        BY <1>1, <1>3, <4>3 DEF IInv, Committed, CommittedStays
      <4>5. QED
        BY <1>2, <4>4
    <3>4. QED
      BY <3>1, <3>2, <3>3
  <2>2. \A x \in committed : x[1] <= disk'.id
    BY <1>1, <1>3, <1>4 DEF IInv, Committed
  <2>3. \A x \in committed : x[1] = disk'.id => x[2] \in written
    BY <1>3, <1>4
  <2>4. QED
    BY <1>2, <2>1, <2>2, <2>3 DEF Committed, CommittedStays
<1>9. QED
  BY <1>5, <1>6, <1>7, <1>8 DEF IInv

\* The header with the dictionary has no record either.
LEMMA DictionaryWrittenStep == IInv /\ DictionaryWritten => IInv'
<1>1. SUFFICES ASSUME IInv, DictionaryWritten
               PROVE  IInv'
  OBVIOUS
<1>2. /\ phase = "dictionary" /\ disk' = [Fresh(metadata.id) EXCEPT !.dict = TRUE]
      /\ phase' = "writing"
      /\ UNCHANGED <<torn, metadata, written, first, inBatch, committed, forgotten>>
  BY <1>1 DEF DictionaryWritten
<1>3. /\ metadata \in Metadata /\ Holds(metadata, written)
      /\ metadata.id = disk.id /\ ~torn /\ metadata.id \in 1..MaxInstances
      /\ \A x \in committed : x[1] = disk.id => x[2] \in written
      /\ metadata.older = <<>> /\ \A x \in committed : x[1] \in forgotten
  BY <1>1, <1>2, WritingIs DEF IInv, Types, Writes, Follows, Committed
<1>4. disk' \in Metadata /\ disk'.id = metadata.id /\ disk'.older = <<>>
  <2>1. metadata.id \in 0..MaxInstances
    BY <1>3
  <2>2. /\ Fresh(metadata.id) \in Metadata /\ Fresh(metadata.id).id = metadata.id
        /\ Fresh(metadata.id).older = <<>>
    BY <2>1, FreshTyped
  <2>3. QED
    BY <1>2, <2>1, <2>2, FreshTyped DEF Metadata
<1>5. Types'
  <2>1. Numbered(disk')
    BY <1>4 DEF Numbered
  <2>2. QED
    BY <1>1, <1>2, <1>3, <1>4, <2>1 DEF IInv, Types
<1>6. Follows'
  BY <1>2, <1>3, <1>4 DEF Follows, Writes
<1>7. HoldsInv'
  <2>1. disk'.id # 0
    BY <1>3, <1>4
  <2>2. QED
    BY <1>2, <1>3, <2>1 DEF HoldsInv, Writes
<1>8. Committed'
  <2>1. \A x \in committed : x[1] <= disk'.id
    BY <1>1, <1>3, <1>4 DEF IInv, Committed
  <2>2. \A x \in committed : x[1] = disk'.id => x[2] \in written
    BY <1>3, <1>4
  <2>3. QED
    BY <1>2, <1>3, <2>1, <2>2 DEF Committed, CommittedStays
<1>9. QED
  BY <1>5, <1>6, <1>7, <1>8 DEF IInv

\* Nothing but the phase changes when the last header write of a batch begins.
LEMMA UpdateHeaderStep == IInv /\ UpdateHeader => IInv'
<1>1. SUFFICES ASSUME IInv, UpdateHeader
               PROVE  IInv'
  OBVIOUS
<1>2. /\ phase = "writing" /\ phase' = "header"
      /\ UNCHANGED <<disk, torn, metadata, written, first, inBatch, committed, forgotten>>
  BY <1>1 DEF UpdateHeader
<1>3. Types'
  BY <1>1, <1>2 DEF IInv, Types, HeaderWrites
<1>4. Follows' /\ HoldsInv' /\ Committed'
  BY <1>1, <1>2 DEF IInv, Writes, Follows, HoldsInv, Committed, CommittedStays
<1>5. QED
  BY <1>3, <1>4 DEF IInv

\* Writing the header keeps the invariant.
LEMMA EndWriteStep == IInv /\ EndWrite => IInv'
<1>1. SUFFICES ASSUME IInv, EndWrite
               PROVE  IInv'
  OBVIOUS
<1>2. /\ phase = "header" /\ torn' = torn /\ disk' = metadata /\ phase' = "idle"
      /\ committed' = committed \cup {<<metadata.id, i>> : i \in written}
      /\ forgotten' = forgotten \ {metadata.id}
      /\ metadata' = metadata /\ written' = written /\ first' = first /\ inBatch' = inBatch
  BY <1>1 DEF EndWrite
<1>3. /\ metadata \in Metadata /\ written \in SUBSET (1..MaxIndex) /\ Holds(metadata, written)
      /\ metadata.id = disk.id /\ metadata.older = disk.older /\ ~torn
      /\ metadata.id \in 1..MaxInstances
      /\ \A x \in committed : x[1] = disk.id => x[2] \in written
  BY <1>1, <1>2, WritingIs DEF IInv, Types, Writes
<1>4. Types'
  <2>1. committed' \subseteq (1..MaxInstances) \X (1..MaxIndex)
    BY <1>1, <1>2, <1>3 DEF IInv, Types
  <2>2. QED
    BY <1>1, <1>2, <2>1 DEF IInv, Types
<1>5. Follows' /\ HoldsInv'
  BY <1>2, <1>3 DEF Follows, HoldsInv, Writes
<1>6. Committed'
  <2>1. ASSUME NEW x \in committed'
        PROVE  /\ x[1] <= metadata.id
               /\ x[1] = metadata.id => x[2] \in written
               /\ x[2] \in Reachable(metadata, x[1]) \/ x[1] \in forgotten'
    <3>1. x \in committed \/ \E i \in written : x = <<metadata.id, i>>
      BY <1>2
    <3>2. CASE x[1] = metadata.id
      <4>1. x[2] \in written
        BY <1>3, <3>1, <3>2
      <4>2. x[2] \in Reachable(metadata, x[1])
        BY <1>3, <3>2, <4>1, ReachesPlaced DEF Holds
      <4>3. x[1] <= metadata.id
        BY <1>3, <3>2
      <4>4. QED
        BY <3>2, <4>1, <4>2, <4>3
    <3>3. CASE x[1] # metadata.id
      <4>1. x \in committed
        BY <3>1, <3>3
      <4>2. x[1] <= metadata.id
        BY <1>1, <1>3, <4>1 DEF IInv, Committed
      <4>3. Reachable(metadata, x[1]) = Reachable(disk, x[1])
        BY <1>3, <3>3, ReachesOlder
      <4>4. x[2] \in Reachable(metadata, x[1]) \/ x[1] \in forgotten'
        BY <1>1, <1>2, <1>3, <3>3, <4>1, <4>3 DEF IInv, Committed, CommittedStays
      <4>5. QED
        BY <3>3, <4>2, <4>4
    <3>4. QED
      BY <3>2, <3>3
  <2>2. QED
    BY <1>2, <2>1 DEF Committed, CommittedStays
<1>7. QED
  BY <1>4, <1>5, <1>6 DEF IInv

\* The end of the process, or of its writer, keeps the invariant.
LEMMA StopStep ==
  ASSUME IInv, phase' \in {"down", "poisoned"}, phase # "down",
         torn' \in BOOLEAN, torn' => phase' = "down", disk' = IF torn' THEN NoFile ELSE disk,
         phase' = "poisoned" => phase = "writing",
         UNCHANGED <<metadata, written, first, inBatch, committed, forgotten>>
  PROVE  IInv'
<1>1. disk' \in Metadata /\ Numbered(disk')
  <2>1. NoFile \in Metadata /\ Numbered(NoFile)
    BY NoFileIs
  <2>2. QED
    BY <2>1 DEF IInv, Types
<1>2. Types'
  BY <1>1 DEF IInv, Types
<1>3. Follows' /\ HoldsInv' /\ Committed'
  BY DEF IInv, Types, Writes, Follows, HoldsInv, Committed, CommittedStays
<1>4. QED
  BY <1>2, <1>3 DEF IInv

\* The inductive invariant holds in every behaviour.
THEOREM Invariance == Spec => []IInv
<1>1. IInv /\ [Next]_vars => IInv'
  <2>1. SUFFICES ASSUME IInv, [Next]_vars
                 PROVE  IInv'
    OBVIOUS
  <2>2. CASE Start
    BY <2>1, <2>2, StartStep
  <2>3. CASE Opened \/ Reset \/ DictionaryWritten \/ UpdateHeader \/ EndWrite
    BY <2>1, <2>3, OpenedStep, ResetStep, DictionaryWrittenStep, UpdateHeaderStep, EndWriteStep
  <2>4. CASE Crash
    <3>1. torn' \in BOOLEAN
      BY <2>1, <2>4 DEF Crash, IInv, Types
    <3>2. QED
      BY <2>1, <2>4, <3>1, StopStep DEF Crash
  <2>5. ASSUME NEW index \in 1..MaxIndex,
               \/ BeginWrite(index) \/ WriteFrame(index) \/ WriteFrameInNextBlock(index)
               \/ MakeDictionary(index) \/ AssertFails(index)
        PROVE  IInv'
    <3>1. CASE BeginWrite(index)
      BY <2>1, <3>1, BeginWriteStep
    <3>2. CASE WriteFrame(index)
      BY <2>1, <3>2, WriteFrameStep
    <3>3. CASE WriteFrameInNextBlock(index)
      BY <2>1, <3>3, NextBlockStep
    <3>4. CASE MakeDictionary(index)
      BY <2>1, <3>4, MakeDictionaryStep
    <3>5. CASE AssertFails(index)
      <4>1. phase = "writing" /\ ~torn
        BY <2>1, <3>5 DEF AssertFails, Frame, IInv, Types
      <4>2. phase' = "poisoned" /\ phase # "down" /\ ~torn' /\ torn' \in BOOLEAN
        BY <2>1, <3>5, <4>1 DEF AssertFails, IInv, Types
      <4>3. disk' = IF torn' THEN NoFile ELSE disk
        BY <3>5, <4>2 DEF AssertFails
      <4>4. UNCHANGED <<metadata, written, first, inBatch, committed, forgotten>>
        BY <3>5 DEF AssertFails
      <4>5. QED
        BY ONLY <2>1, <4>1, <4>2, <4>3, <4>4, StopStep
    <3>6. QED
      BY <2>5, <3>1, <3>2, <3>3, <3>4, <3>5
  <2>6. CASE UNCHANGED vars
    <3>1. UNCHANGED <<disk, torn, phase, metadata, written, first, inBatch, committed, forgotten>>
      BY <2>6 DEF vars
    <3>2. Types'
      BY <2>1, <3>1 DEF IInv, Types
    <3>3. Follows' /\ HoldsInv' /\ Committed'
      BY <2>1, <3>1 DEF IInv, Writes, Follows, NextInstance, HoldsInv, Committed, CommittedStays
    <3>4. QED
      BY <3>2, <3>3 DEF IInv
  <2>7. QED
    BY <2>1, <2>2, <2>3, <2>4, <2>5, <2>6 DEF Next
<1>2. QED
  BY InitIInv, <1>1, PTL DEF Spec

\* A record of a write that returned stays in the file through kills between any two
\* writes, unless a header was left half written or the file begun anew after it
\* (persistence.rs 157-241, 449-544).
THEOREM CommittedStaysHolds == Spec => []CommittedStays
<1>1. IInv => CommittedStays
  BY DEF IInv, Committed
<1>2. QED
  BY <1>1, Invariance, PTL

\* What can be reached of the file, and the header in memory, has its types.
LEMMA TypedIs == ASSUME NEW m \in Metadata, Numbered(m) PROVE MetadataOK(m)
<1>1. /\ m.id \in 0..MaxInstances /\ m.last \in 0..MaxIndex /\ m.dict \in BOOLEAN
      /\ m.block \in Block /\ m.chain \in Seq(Block) /\ m.older \in Seq(Instance)
  BY DEF Metadata
<1>2. \A b \in Block : BlockOK(b)
  BY BlockIs DEF BlockOK, Places
<1>3. \A b \in ToSet(m.chain) : b \in Block
  BY <1>1 DEF ToSet
<1>4. ASSUME NEW o \in ToSet(m.older)
      PROVE  o.id < m.id /\ \A b \in ToSet(o.blocks) : b \in Block
  <2>1. PICK i \in DOMAIN m.older : o = m.older[i]
    BY DEF ToSet
  <2>2. o \in Instance
    BY <1>1, <2>1
  <2>3. o.blocks \in Seq(Block)
    BY <2>2 DEF Instance
  <2>4. o.id \in 1..m.id - 1
    BY <2>1 DEF Numbered
  <2>5. o.id < m.id
    BY <1>1, <2>4
  <2>6. QED
    BY <2>3, <2>5 DEF ToSet
<1>5. QED
  BY <1>1, <1>2, <1>3, <1>4 DEF MetadataOK

\* The variables have their types, and every record that can be reached is at its place.
THEOREM TypeCorrect == Spec => []TypeOK
<1>1. IInv => TypeOK
  BY TypedIs DEF IInv, Types, TypeOK
<1>2. QED
  BY <1>1, Invariance, PTL
-----------------------------------------------------------------------------
(* Sets of numbers in their order.                                         *)

\* The sequence s has the numbers of S, in their order.
Enumerates(s, S) ==
  /\ s \in Seq(Nat)
  /\ \A i, j \in 1..Len(s) : i < j => s[i] < s[j]
  /\ \A i \in 1..Len(s) : s[i] \in S
  /\ \A x \in S : \E i \in 1..Len(s) : x = s[i]

\* There is one such sequence, Ordered(S): the i-th of it has i - 1 before it.
LEMMA OrderedUnique ==
  ASSUME NEW S \in SUBSET Nat, NEW s, Enumerates(s, S)
  PROVE  s = Ordered(S)
<1>1. PICK n \in Nat : n = Len(s)
  BY DEF Enumerates
<1>2. /\ s \in [1..n -> S] /\ \A i, j \in 1..n : i < j => s[i] < s[j]
      /\ \A x \in S : \E i \in 1..n : x = s[i]
  BY <1>1 DEF Enumerates
<1>3. \A i, j \in 1..n : s[i] < s[j] <=> i < j
  <2>1. ASSUME NEW i \in 1..n, NEW j \in 1..n, s[i] < s[j]
        PROVE  i < j
    <3>1. s[i] \in Nat /\ s[j] \in Nat
      BY <1>2
    <3>2. i # j /\ ~(j < i)
      BY <1>2, <2>1, <3>1
    <3>3. QED
      BY <3>2
  <2>2. QED
    BY <1>2, <2>1
<1>4. Cardinality(S) = n
  <2>1. \A i, j \in 1..n : s[i] = s[j] => i = j
    BY <1>2, <1>3
  <2>2. s \in Bijection(1..n, S)
    BY <1>2, <2>1 DEF Bijection, Injection, IsInjective, Surjection
  <2>3. QED
    BY <2>2, FS_CountingElements DEF ExistsBijection
<1>5. ASSUME NEW i \in 1..n
      PROVE  Cardinality({y \in S : y < s[i]}) = i - 1
  <2>1. PICK k \in Nat : k = i - 1
    BY <1>1
  <2>2. PICK T : T = {y \in S : y < s[i]}
    OBVIOUS
  <2>3. PICK t : t = [j \in 1..k |-> s[j]]
    OBVIOUS
  <2>4. \A j \in 1..k : j \in 1..n /\ j < i
    BY <2>1
  <2>5. t \in [1..k -> T]
    BY <1>2, <1>3, <2>2, <2>3, <2>4
  <2>6. \A j, l \in 1..k : t[j] = t[l] => j = l
    BY <1>2, <1>3, <2>3, <2>4
  <2>7. ASSUME NEW y \in T
        PROVE  \E j \in 1..k : t[j] = y
    <3>1. PICK j \in 1..n : y = s[j]
      BY <1>2, <2>2
    <3>2. j < i
      BY <1>3, <2>2, <3>1
    <3>3. j \in 1..k
      BY <2>1, <3>2
    <3>4. QED
      BY <2>3, <3>1, <3>3
  <2>8. t \in Bijection(1..k, T)
    BY <2>5, <2>6, <2>7 DEF Bijection, Injection, IsInjective, Surjection
  <2>9. QED
    BY <2>1, <2>2, <2>8, FS_CountingElements DEF ExistsBijection
<1>6. ASSUME NEW i \in 1..n
      PROVE  s[i] = CHOOSE x \in S : Cardinality({y \in S : y < x}) = i - 1
  <2>1. ASSUME NEW x \in S, Cardinality({y \in S : y < x}) = i - 1
        PROVE  x = s[i]
    <3>1. PICK j \in 1..n : x = s[j]
      BY <1>2
    <3>2. j - 1 = i - 1
      BY <1>5, <2>1, <3>1
    <3>3. QED
      BY <3>1, <3>2
  <2>2. s[i] \in S /\ Cardinality({y \in S : y < s[i]}) = i - 1
    BY <1>2, <1>5
  <2>3. QED
    BY <2>1, <2>2
<1>7. s = [i \in 1..n |-> CHOOSE x \in S : Cardinality({y \in S : y < x}) = i - 1]
  BY <1>2, <1>6
<1>8. QED
  BY <1>4, <1>7 DEF Ordered

\* Ordered(S) is such a sequence: as many ranks are there as numbers.
LEMMA OrderedIs ==
  ASSUME NEW S \in SUBSET Nat, IsFiniteSet(S)
  PROVE  Enumerates(Ordered(S), S)
<1> DEFINE Below(x) == {y \in S : y < x}
<1>1. PICK n \in Nat : n = Cardinality(S)
  BY FS_CardinalityType
<1>2. ASSUME NEW x \in S
      PROVE  IsFiniteSet(Below(x)) /\ Cardinality(Below(x)) \in 0..n - 1
  <2>1. Below(x) \in SUBSET S /\ Below(x) # S
    OBVIOUS
  <2>2. /\ IsFiniteSet(Below(x)) /\ Cardinality(Below(x)) <= n
        /\ Cardinality(Below(x)) # n
    BY <1>1, <2>1, FS_Subset
  <2>3. Cardinality(Below(x)) \in Nat
    BY <2>2, FS_CardinalityType
  <2>4. QED
    BY <2>2, <2>3
<1>3. ASSUME NEW x \in S, NEW y \in S, x < y
      PROVE  Cardinality(Below(x)) < Cardinality(Below(y))
  <2>1. Below(x) \in SUBSET Below(y) /\ Below(x) # Below(y)
    <3>1. x \in Below(y) /\ x \notin Below(x)
      BY <1>3
    <3>2. \A z \in S : z < x => z < y
      BY <1>3
    <3>3. QED
      BY <3>1, <3>2
  <2>2. /\ IsFiniteSet(Below(y)) /\ Cardinality(Below(x)) \in 0..n - 1
        /\ Cardinality(Below(y)) \in 0..n - 1
    BY <1>2
  <2>3. Cardinality(Below(x)) <= Cardinality(Below(y)) /\ Cardinality(Below(x)) # Cardinality(Below(y))
    BY <2>1, <2>2, FS_Subset
  <2>4. QED
    BY <2>2, <2>3
<1>4. PICK rank : rank = [x \in S |-> Cardinality(Below(x))]
  OBVIOUS
<1>5. /\ rank \in [S -> 0..n - 1]
      /\ \A x \in S : rank[x] = Cardinality({y \in S : y < x})
      /\ \A x \in S : rank[x] \in Nat /\ rank[x] \in 0..n - 1
      /\ \A x, y \in S : x < y => rank[x] < rank[y]
  <2>1. ASSUME NEW x \in S
        PROVE  /\ rank[x] = Cardinality({y \in S : y < x})
               /\ rank[x] \in Nat /\ rank[x] \in 0..n - 1
    BY <1>2, <1>4
  <2>2. ASSUME NEW x \in S, NEW y \in S, x < y
        PROVE  rank[x] < rank[y]
    BY <1>3, <1>4, <2>2
  <2>3. rank \in [S -> 0..n - 1]
    BY <1>4, <2>1
  <2>4. QED
    BY <2>1, <2>2, <2>3
<1> HIDE DEF Below
<1>6. \A x, y \in S : rank[x] = rank[y] => x = y
  <2>1. ASSUME NEW x \in S, NEW y \in S, rank[x] = rank[y]
        PROVE  x = y
    <3>1. ~(x < y) /\ ~(y < x)
      BY <1>5, <2>1
    <3>2. QED
      BY <3>1
  <2>2. QED
    BY <2>1
<1>7. \A k \in 0..n - 1 : \E x \in S : rank[x] = k
  <2>1. rank \in Injection(S, 0..n - 1)
    BY <1>5, <1>6 DEF Injection, IsInjective
  <2>2. IsFiniteSet(0..n - 1) /\ Cardinality(0..n - 1) = n
    BY FS_Interval
  <2>3. rank \in Surjection(S, 0..n - 1)
    BY <1>1, <2>1, <2>2, FS_Injection
  <2>4. QED
    BY <2>3 DEF Surjection
<1>8. PICK s : s = Ordered(S)
  OBVIOUS
<1>9. s = [i \in 1..n |-> CHOOSE x \in S : Cardinality({y \in S : y < x}) = i - 1]
  BY <1>1, <1>8 DEF Ordered
<1>10. \A i \in 1..n : s[i] \in S /\ rank[s[i]] = i - 1
  <2>1. ASSUME NEW i \in 1..n
        PROVE  s[i] \in S /\ rank[s[i]] = i - 1
    <3>1. i - 1 \in 0..n - 1
      OBVIOUS
    <3>2. \E x \in S : Cardinality({y \in S : y < x}) = i - 1
      BY <1>5, <1>7, <3>1
    <3>3. s[i] \in S /\ Cardinality({y \in S : y < s[i]}) = i - 1
      BY <1>9, <3>2
    <3>4. QED
      BY <1>5, <3>3
  <2>2. QED
    BY <2>1
<1>11. s \in Seq(Nat) /\ Len(s) = n
  <2>1. s \in [1..n -> Nat]
    BY <1>9, <1>10
  <2>2. QED
    BY <2>1
<1>12. ASSUME NEW i \in 1..n, NEW j \in 1..n, i < j
       PROVE  s[i] < s[j]
  <2>1. s[i] \in S /\ s[j] \in S /\ rank[s[i]] < rank[s[j]]
    BY <1>10, <1>12
  <2>2. s[j] < s[i] => rank[s[j]] < rank[s[i]]
    BY <1>5, <2>1
  <2>3. /\ rank[s[i]] \in Nat /\ rank[s[j]] \in Nat
        /\ s[i] \in Nat /\ s[j] \in Nat
    BY <1>5, <2>1
  <2>4. QED
    BY <2>1, <2>2, <2>3
<1>13. ASSUME NEW x \in S
       PROVE  \E i \in 1..n : x = s[i]
  <2>1. rank[x] \in 0..n - 1
    BY <1>5
  <2>2. PICK i \in 1..n : rank[x] = i - 1
    <3>1. PICK k \in Nat : k = rank[x] /\ k <= n - 1
      BY <2>1
    <3>2. k + 1 \in 1..n /\ k = k + 1 - 1
      BY <3>1
    <3>3. QED
      BY <3>1, <3>2
  <2>3. QED
    BY <1>6, <1>10, <2>2
<1>14. QED
  BY <1>8, <1>10, <1>11, <1>12, <1>13 DEF Enumerates

\* Two such sequences after one another.
LEMMA EnumeratesConcat ==
  ASSUME NEW S \in SUBSET Nat, NEW T \in SUBSET Nat, NEW s, NEW t,
         Enumerates(s, S), Enumerates(t, T), \A x \in S : \A y \in T : x < y
  PROVE  Enumerates(s \o t, S \cup T)
<1>1. s \in Seq(Nat) /\ t \in Seq(Nat)
  BY DEF Enumerates
<1>2. PICK k \in Nat, l \in Nat : k = Len(s) /\ l = Len(t)
  BY <1>1
<1>3. PICK r : r = s \o t
  OBVIOUS
<1>4. /\ r \in Seq(Nat) /\ Len(r) = k + l
      /\ \A i \in 1..k + l : r[i] = IF i <= k THEN s[i] ELSE t[i - k]
  BY <1>1, <1>2, <1>3, ConcatProperties
<1>5. /\ \A i, j \in 1..k : i < j => s[i] < s[j]
      /\ \A i, j \in 1..l : i < j => t[i] < t[j]
      /\ \A i \in 1..k : s[i] \in S
      /\ \A i \in 1..l : t[i] \in T
      /\ \A x \in S : \E i \in 1..k : x = s[i]
      /\ \A x \in T : \E i \in 1..l : x = t[i]
  BY <1>2 DEF Enumerates
<1>6. /\ \A i \in 1..k : i \in 1..k + l /\ r[i] = s[i]
      /\ \A i \in 1..l : k + i \in 1..k + l /\ r[k + i] = t[i]
  <2>1. ASSUME NEW i \in 1..k
        PROVE  i \in 1..k + l /\ r[i] = s[i]
    BY <1>4
  <2>2. ASSUME NEW i \in 1..l
        PROVE  k + i \in 1..k + l /\ r[k + i] = t[i]
    <3>1. k + i \in 1..k + l /\ ~(k + i <= k) /\ k + i - k = i
      OBVIOUS
    <3>2. QED
      BY <1>4, <3>1
  <2>3. QED
    BY <2>1, <2>2
<1>7. ASSUME NEW i \in 1..k + l
      PROVE  i \in 1..k \/ \E j \in 1..l : i = k + j
  <2>1. CASE i > k
    <3>1. i - k \in 1..l /\ i = k + (i - k)
      BY <2>1
    <3>2. QED
      BY <3>1
  <2>2. QED
    BY <2>1
<1>8. ASSUME NEW i \in 1..k + l, NEW j \in 1..k + l, i < j
      PROVE  r[i] < r[j]
  <2>1. CASE j \in 1..k
    BY <1>5, <1>6, <1>8, <2>1
  <2>2. CASE i \in 1..k /\ \E h \in 1..l : j = k + h
    BY <1>5, <1>6, <2>2
  <2>3. CASE \E g, h \in 1..l : i = k + g /\ j = k + h
    BY <1>5, <1>6, <1>8, <2>3
  <2>4. CASE (\E g \in 1..l : i = k + g) /\ j \in 1..k
    BY <1>8, <2>4
  <2>5. QED
    BY <1>7, <2>1, <2>2, <2>3, <2>4
<1>9. ASSUME NEW i \in 1..k + l
      PROVE  r[i] \in S \cup T
  BY <1>5, <1>6, <1>7
<1>10. ASSUME NEW x \in S \cup T
       PROVE  \E i \in 1..k + l : x = r[i]
  BY <1>5, <1>6
<1>11. QED
  BY <1>3, <1>4, <1>8, <1>9, <1>10 DEF Enumerates

\* The records of a block from a place on, in their order.
LEMMA RecordsFromIs ==
  ASSUME NEW block \in Block, NEW c \in Nat, \A p \in DOMAIN block : block[p] = c + p,
         NEW place \in Nat
  PROVE  Enumerates(RecordsFrom(block, place), {block[p] : p \in {q \in DOMAIN block : q >= place}})
<1>1. PICK D : D = {q \in DOMAIN block : q >= place}
  OBVIOUS
<1>2. D \in SUBSET Nat /\ IsFiniteSet(D) /\ D \subseteq DOMAIN block
  <2>1. D \in SUBSET Places
    BY <1>1, BlockIs
  <2>2. IsFiniteSet(Places) /\ Places \subseteq Nat
    BY FS_Interval, ConstantsAssumption DEF Places
  <2>3. QED
    BY <1>1, <2>1, <2>2, FS_Subset
<1>3. PICK s : s = Ordered(D)
  OBVIOUS
<1>4. Enumerates(s, D)
  BY <1>2, <1>3, OrderedIs
<1>5. PICK n \in Nat : n = Len(s)
  BY <1>4 DEF Enumerates
<1>6. /\ \A i, j \in 1..n : i < j => s[i] < s[j]
      /\ \A i \in 1..n : s[i] \in D /\ s[i] \in Nat /\ block[s[i]] = c + s[i]
      /\ \A x \in D : \E i \in 1..n : x = s[i]
  BY <1>2, <1>4, <1>5 DEF Enumerates
<1>7. PICK r : r = [i \in 1..n |-> block[s[i]]]
  OBVIOUS
<1>8. r = RecordsFrom(block, place)
  BY <1>1, <1>3, <1>5, <1>7 DEF RecordsFrom
<1>9. r \in Seq(Nat) /\ Len(r) = n
  <2>1. r \in [1..n -> Nat]
    BY <1>6, <1>7
  <2>2. QED
    BY <2>1
<1>10. ASSUME NEW i \in 1..n, NEW j \in 1..n, i < j
       PROVE  r[i] < r[j]
  <2>1. s[i] < s[j] /\ r[i] = c + s[i] /\ r[j] = c + s[j]
    BY <1>6, <1>7, <1>10
  <2>2. QED
    BY <1>6, <2>1
<1>11. \A i \in 1..n : r[i] \in {block[p] : p \in D}
  BY <1>6, <1>7
<1>12. ASSUME NEW x \in {block[p] : p \in D}
       PROVE  \E i \in 1..n : x = r[i]
  <2>1. PICK p \in D : x = block[p]
    OBVIOUS
  <2>2. PICK i \in 1..n : p = s[i]
    BY <1>6
  <2>3. QED
    BY <1>7, <2>1, <2>2
<1>13. QED
  BY <1>1, <1>8, <1>9, <1>10, <1>11, <1>12 DEF Enumerates

\* Sequences of sets of numbers, each set beyond those before: U[k] is what the first k
\* make together.
Chained(n, parts, S, U) ==
  /\ Len(parts) = n
  /\ \A k \in 1..n : Enumerates(parts[k], S[k])
  /\ \A k \in 1..n : S[k] \in SUBSET Nat /\ U[k] \in SUBSET Nat /\ IsFiniteSet(U[k])
  /\ U[1] = S[1]
  /\ \A k \in 1..n - 1 : U[k + 1] = U[k] \cup S[k + 1]
  /\ \A k \in 1..n - 1 : \A x \in U[k] : \A y \in S[k + 1] : x < y

\* Put one after another they are in their order.
LEMMA FlattenIs ==
  ASSUME NEW n \in Nat \ {0}, NEW parts, NEW S, NEW U, Chained(n, parts, S, U)
  PROVE  FlattenSeq(parts) = Ordered(U[n])
<1> USE DEF Chained
<1>1. PICK g : g = [k \in 1..n |-> Ordered(U[k])]
  OBVIOUS
<1>2. ASSUME NEW k \in 1..n
      PROVE  g[k] = IF k = 1 THEN parts[k] ELSE g[k - 1] \o parts[k]
  <2>1. CASE k = 1
    BY <1>1, <2>1, OrderedUnique
  <2>2. CASE k # 1
    <3>1. PICK j \in 1..n - 1 : k = j + 1
      <4>1. k - 1 \in 1..n - 1 /\ k = (k - 1) + 1
        BY <2>2
      <4>2. QED
        BY <4>1
    <3>2. j \in 1..n /\ k - 1 = j
      BY <3>1
    <3>3. Enumerates(g[j], U[j]) /\ Enumerates(parts[k], S[k])
      BY <1>1, <3>2, OrderedIs
    <3>4. Enumerates(g[j] \o parts[k], U[j] \cup S[k])
      BY <3>1, <3>2, <3>3, EnumeratesConcat
    <3>5. U[k] = U[j] \cup S[k] /\ U[k] \in SUBSET Nat
      BY <3>1
    <3>6. g[j] \o parts[k] = Ordered(U[k])
      BY <3>4, <3>5, OrderedUnique
    <3>7. QED
      BY <1>1, <2>2, <3>2, <3>6
  <2>3. QED
    BY <2>1, <2>2
<1>3. g = [k \in 1..n |-> IF k = 1 THEN parts[k] ELSE g[k - 1] \o parts[k]]
  BY <1>1, <1>2
<1>4. PICK f : /\ f = [k \in 1..n |-> IF k = 1 THEN parts[k] ELSE f[k - 1] \o parts[k]]
               /\ FlattenSeq(parts) = f[n]
  <2>1. FlattenSeq(parts)
          = (CHOOSE f : f = [k \in 1..n |-> IF k = 1 THEN parts[k] ELSE f[k - 1] \o parts[k]])[n]
    BY DEF FlattenSeq
  <2>2. QED
    BY <1>3, <2>1
<1>5. \A k \in 1..n : f[k] = IF k = 1 THEN parts[k] ELSE f[k - 1] \o parts[k]
  BY <1>4
<1>6. ASSUME NEW k \in 1..n, f[k] # g[k]
      PROVE  FALSE
  <2>1. PICK T : T = {i \in 1..n : f[i] # g[i]}
    OBVIOUS
  <2>2. T \subseteq Nat /\ k \in T
    BY <1>6, <2>1
  <2>3. PICK i \in T : \A j \in T : ~(<<j, i>> \in OpToRel(<, Nat))
    BY <2>2, NatLessThanWellFounded, WFMin
  <2>4. i \in 1..n /\ f[i] # g[i]
    BY <2>1
  <2>5. i # 1
    BY <1>2, <1>5, <2>4
  <2>6. i - 1 \in 1..n /\ i - 1 \in Nat /\ i \in Nat /\ i - 1 < i
    BY <2>4, <2>5
  <2>7. i - 1 \notin T
    BY <2>3, <2>6 DEF OpToRel
  <2>8. f[i - 1] = g[i - 1]
    BY <2>1, <2>6, <2>7
  <2>9. QED
    BY <1>2, <1>5, <2>4, <2>5, <2>8
<1>7. f[n] = g[n]
  BY <1>6
<1>8. QED
  BY <1>1, <1>4, <1>7

\* The records of a block are before those of a later one, and those of the same block
\* in the order of their places.
LEMMA BlockOrder ==
  ASSUME NEW i \in Nat, NEW j \in Nat
  PROVE  /\ BlockOf(i) < BlockOf(j) => i < j
         /\ BlockOf(i) = BlockOf(j) => (i >= j <=> PlaceOf(i) >= PlaceOf(j))
<1>1. PICK R \in Nat, a \in Nat, b \in Nat, p \in Nat, q \in Nat :
        /\ R = RECORD_BLOCK_SIZE /\ a = BlockOf(i) /\ b = BlockOf(j)
        /\ p = PlaceOf(i) /\ q = PlaceOf(j) /\ p < R /\ q < R
        /\ i = a * R + p /\ j = b * R + q
  <2>1. PICK R \in Nat : R = RECORD_BLOCK_SIZE
    BY ConstantsAssumption
  <2>2. PICK a \in Nat, p \in Nat : a = BlockOf(i) /\ p = PlaceOf(i) /\ p < R /\ i = a * R + p
    <3>1. BlockOf(i) \in Nat /\ PlaceOf(i) \in Places
      BY IndexIs
    <3>2. PlaceOf(i) \in Nat /\ PlaceOf(i) < R
      BY <2>1, <3>1 DEF Places
    <3>3. i = BlockOf(i) * R + PlaceOf(i)
      BY <2>1, IndexIs
    <3>4. QED
      BY <3>1, <3>2, <3>3
  <2>3. PICK b \in Nat, q \in Nat : b = BlockOf(j) /\ q = PlaceOf(j) /\ q < R /\ j = b * R + q
    <3>1. BlockOf(j) \in Nat /\ PlaceOf(j) \in Places
      BY IndexIs
    <3>2. PlaceOf(j) \in Nat /\ PlaceOf(j) < R
      BY <2>1, <3>1 DEF Places
    <3>3. j = BlockOf(j) * R + PlaceOf(j)
      BY <2>1, IndexIs
    <3>4. QED
      BY <3>1, <3>2, <3>3
  <2>4. QED
    BY <2>1, <2>2, <2>3
<1>2. ASSUME a < b
      PROVE  i < j
  <2>1. PICK d \in Nat : b = a + 1 + d
    <3>1. b - a - 1 \in Nat /\ b = a + 1 + (b - a - 1)
      BY <1>2
    <3>2. QED
      BY <3>1
  <2>2. b * R = a * R + R + d * R /\ a * R \in Nat /\ d * R \in Nat
    BY <2>1
  <2>3. QED
    BY <1>1, <2>2
<1>3. ASSUME a = b
      PROVE  i >= j <=> p >= q
  <2>1. a * R \in Nat
    OBVIOUS
  <2>2. QED
    BY <1>1, <1>3, <2>1
<1>4. QED
  BY <1>1, <1>2, <1>3
-----------------------------------------------------------------------------
(* Reading back.                                                           *)

\* A reading of the run from a record on: the n blocks from that of the record, b, to
\* the current one, what is taken of each, and what is wanted.
Reading(m, W, from, b, n, blocks, parts, T) ==
  /\ b = BlockOf(from) /\ b + n = Len(m.chain) + 1
  /\ Len(blocks) = n /\ DOMAIN blocks = 1..n
  /\ \A k \in 1..n : blocks[k] = Blocks(m)[b + k]
  /\ parts = [k \in 1..Len(blocks) |->
                RecordsFrom(blocks[k], IF k = 1 THEN PlaceOf(from) ELSE 0)]
  /\ T = {i \in W : i >= from}

\* It gives what is wanted.
LEMMA ReadIs ==
  ASSUME NEW m \in Metadata, NEW W \in SUBSET (1..MaxIndex), Placed(m, W),
         NEW from \in Nat, NEW b \in Nat, NEW n \in Nat \ {0}, NEW blocks, NEW parts, NEW T,
         Reading(m, W, from, b, n, blocks, parts, T)
  PROVE  LaterBlocksMatch(blocks, b) /\ FlattenSeq(parts) = Ordered(T)
<1>1. /\ b = BlockOf(from) /\ b + n = Len(m.chain) + 1
      /\ Len(blocks) = n /\ DOMAIN blocks = 1..n
      /\ \A k \in 1..n : blocks[k] = Blocks(m)[b + k]
      /\ parts = [k \in 1..Len(blocks) |->
                    RecordsFrom(blocks[k], IF k = 1 THEN PlaceOf(from) ELSE 0)]
      /\ T = {i \in W : i >= from}
  BY DEF Reading
<1> USE <1>1
<1>2. /\ RECORD_BLOCK_SIZE \in Nat /\ MaxIndex \in Nat
      /\ \A i \in W : i \in Nat /\ i <= MaxIndex /\ BlockOf(i) \in Nat /\ PlaceOf(i) \in Places
  BY ConstantsAssumption, IndexIs
<1>3. Places \subseteq Nat /\ PlaceOf(from) \in Nat
  BY <1>2, IndexIs DEF Places
<1>4. ASSUME NEW k \in 1..n
      PROVE  b + k \in DOMAIN Blocks(m) /\ b + k - 1 \in Nat /\ blocks[k] \in Block
  <2>1. PICK l \in Nat : l = Len(m.chain)
    BY BlocksIs
  <2>2. b + k \in 1..l + 1 /\ b + k - 1 \in Nat
    BY <2>1
  <2>3. b + k \in DOMAIN Blocks(m) /\ Blocks(m) \in Seq(Block)
    BY <2>1, <2>2, BlocksIs
  <2>4. QED
    BY <2>2, <2>3
<1>5. \A i \in W : BlockOf(i) < b + n
  <2>1. ASSUME NEW i \in W
        PROVE  BlockOf(i) < b + n
    <3>1. PICK l \in Nat : l = Len(m.chain)
      BY BlocksIs
    <3>2. BlockOf(i) + 1 \in 1..l + 1
      BY <3>1, BlocksIs DEF Placed, IsIn
    <3>3. QED
      BY <1>2, <3>1, <3>2
  <2>2. QED
    BY <2>1
<1>6. ASSUME NEW k \in 1..n, NEW p \in DOMAIN blocks[k]
      PROVE  /\ blocks[k][p] = (b + k - 1) * RECORD_BLOCK_SIZE + p
             /\ blocks[k][p] \in W /\ p \in Places
             /\ BlockOf(blocks[k][p]) = b + k - 1 /\ PlaceOf(blocks[k][p]) = p
  <2>1. blocks[k] = Blocks(m)[b + k] /\ b + k \in DOMAIN Blocks(m) /\ p \in DOMAIN Blocks(m)[b + k]
    BY <1>4
  <2>2. /\ blocks[k][p] = (b + k - 1) * RECORD_BLOCK_SIZE + p
        /\ blocks[k][p] \in W
    BY <2>1 DEF Placed
  <2>3. p \in Places
    BY <1>4, BlockIs
  <2>4. PICK h \in Nat : h = b + k - 1
    BY <1>4
  <2>5. blocks[k][p] = h * RECORD_BLOCK_SIZE + p
    BY <2>2, <2>4
  <2>6. BlockOf(blocks[k][p]) = h /\ PlaceOf(blocks[k][p]) = p
    BY <2>3, <2>5, IndexIs
  <2>7. QED
    BY <2>2, <2>3, <2>4, <2>6
<1>7. LaterBlocksMatch(blocks, b)
  <2>1. ASSUME NEW k \in 2..Len(blocks), NEW p \in DOMAIN blocks[k]
        PROVE  blocks[k][p] = (b + k - 1) * RECORD_BLOCK_SIZE + p
    <3>1. k \in 1..n
      OBVIOUS
    <3>2. QED
      BY <1>6, <3>1
  <2>2. QED
    BY <2>1 DEF LaterBlocksMatch
<1>8. \A k \in 1..n : parts[k] = RecordsFrom(blocks[k], IF k = 1 THEN PlaceOf(from) ELSE 0)
  OBVIOUS
<1>9. PICK S : S = [k \in 1..n |-> {i \in W : i >= from /\ BlockOf(i) = b + k - 1}]
  OBVIOUS
<1>10. PICK U : U = [k \in 1..n |-> {i \in W : i >= from /\ BlockOf(i) <= b + k - 1}]
  OBVIOUS
<1>11. ASSUME NEW k \in 1..n
       PROVE  Enumerates(parts[k], S[k])
  <2>1. PICK place \in Nat : place = IF k = 1 THEN PlaceOf(from) ELSE 0
    BY <1>3
  <2>2. PICK c \in Nat : c = (b + k - 1) * RECORD_BLOCK_SIZE
    <3>1. PICK h \in Nat : h = b + k - 1
      BY <1>4
    <3>2. h * RECORD_BLOCK_SIZE \in Nat
      BY <1>2
    <3>3. QED
      BY <3>1, <3>2
  <2>3. blocks[k] \in Block /\ \A p \in DOMAIN blocks[k] : blocks[k][p] = c + p
    BY <1>4, <1>6, <2>2
  <2>4. PICK D : D = {blocks[k][p] : p \in {q \in DOMAIN blocks[k] : q >= place}}
    OBVIOUS
  <2>5. Enumerates(parts[k], D)
    BY <1>8, <2>1, <2>3, <2>4, RecordsFromIs
  <2>6. \A i \in W : BlockOf(i) = b + k - 1 => (i >= from <=> PlaceOf(i) >= place)
    <3>1. ASSUME NEW i \in W, BlockOf(i) = b + k - 1
          PROVE  i >= from <=> PlaceOf(i) >= place
      <4>1. CASE k = 1
        <5>1. BlockOf(i) = BlockOf(from) /\ place = PlaceOf(from)
          BY <2>1, <3>1, <4>1
        <5>2. QED
          BY <1>2, <5>1, BlockOrder
      <4>2. CASE k # 1
        <5>1. BlockOf(from) < BlockOf(i) /\ place = 0 /\ PlaceOf(i) \in Nat
          <6>1. BlockOf(i) > b
            BY <3>1, <4>2
          <6>2. PlaceOf(i) \in Nat
            BY <1>2, <1>3
          <6>3. QED
            BY <2>1, <4>2, <6>1, <6>2
        <5>2. from < i
          BY <1>2, <5>1, BlockOrder
        <5>3. i >= from
          BY <1>2, <5>2
        <5>4. PlaceOf(i) >= place
          BY <5>1
        <5>5. QED
          BY <5>3, <5>4
      <4>3. QED
        BY <4>1, <4>2
    <3>2. QED
      BY <3>1
  <2>7. ASSUME NEW x \in D
        PROVE  x \in S[k]
    <3>1. PICK p \in DOMAIN blocks[k] : p >= place /\ x = blocks[k][p]
      BY <2>4
    <3>2. x \in W /\ BlockOf(x) = b + k - 1 /\ PlaceOf(x) = p
      BY <1>6, <3>1
    <3>3. x >= from
      BY <2>6, <3>1, <3>2
    <3>4. QED
      BY <1>9, <3>2, <3>3
  <2>8. ASSUME NEW x \in S[k]
        PROVE  x \in D
    <3>1. x \in W /\ x >= from /\ BlockOf(x) = b + k - 1
      BY <1>9
    <3>2. PlaceOf(x) \in DOMAIN blocks[k]
      <4>1. BlockOf(x) + 1 = b + k
        BY <1>2, <3>1
      <4>2. PlaceOf(x) \in DOMAIN Blocks(m)[BlockOf(x) + 1]
        BY <3>1 DEF Placed, IsIn
      <4>3. QED
        BY <4>1, <4>2
    <3>3. blocks[k][PlaceOf(x)] = x
      <4>1. blocks[k][PlaceOf(x)] = (b + k - 1) * RECORD_BLOCK_SIZE + PlaceOf(x)
        BY <1>6, <3>2
      <4>2. x = BlockOf(x) * RECORD_BLOCK_SIZE + PlaceOf(x)
        BY <1>2, <3>1, IndexIs
      <4>3. QED
        BY <3>1, <4>1, <4>2
    <3>4. PlaceOf(x) >= place
      BY <2>6, <3>1
    <3>5. QED
      BY <2>4, <3>2, <3>3, <3>4
  <2>9. D = S[k]
    BY <2>7, <2>8
  <2>10. QED
    BY <2>5, <2>9
<1>12. ASSUME NEW k \in 1..n
       PROVE  S[k] \in SUBSET Nat /\ U[k] \in SUBSET Nat /\ IsFiniteSet(U[k])
  <2>1. S[k] \in SUBSET Nat /\ U[k] \in SUBSET Nat /\ U[k] \in SUBSET (1..MaxIndex)
    BY <1>2, <1>9, <1>10
  <2>2. IsFiniteSet(1..MaxIndex)
    <3>1. 1 \in Int /\ MaxIndex \in Int
      BY <1>2
    <3>2. QED
      BY <3>1, FS_Interval
  <2>3. QED
    BY <2>1, <2>2, FS_Subset
<1>13. U[1] = S[1]
  <2>1. \A i \in W : i >= from => BlockOf(i) >= b
    <3>1. ASSUME NEW i \in W, i >= from
          PROVE  BlockOf(i) >= b
      <4>1. ~(BlockOf(i) < BlockOf(from))
        BY <1>2, <3>1, BlockOrder
      <4>2. QED
        BY <1>2, <4>1
    <3>2. QED
      BY <3>1
  <2>2. \A i \in W : i >= from => (BlockOf(i) <= b + 1 - 1 <=> BlockOf(i) = b + 1 - 1)
    BY <1>2, <2>1
  <2>3. U[1] = {i \in W : i >= from /\ BlockOf(i) <= b + 1 - 1}
    BY <1>10
  <2>4. S[1] = {i \in W : i >= from /\ BlockOf(i) = b + 1 - 1}
    BY <1>9
  <2>5. QED
    BY <2>2, <2>3, <2>4
<1>14. ASSUME NEW k \in 1..n - 1
       PROVE  /\ U[k + 1] = U[k] \cup S[k + 1]
              /\ \A x \in U[k] : \A y \in S[k + 1] : x < y
  <2>1. k \in 1..n /\ k + 1 \in 1..n
    OBVIOUS
  <2>2. PICK h \in Nat : h = b + k /\ h = b + (k + 1) - 1 /\ h - 1 = b + k - 1
    BY SMTT(20)
  <2>3. /\ U[k] = {i \in W : i >= from /\ BlockOf(i) <= h - 1}
        /\ U[k + 1] = {i \in W : i >= from /\ BlockOf(i) <= h}
        /\ S[k + 1] = {i \in W : i >= from /\ BlockOf(i) = h}
    BY <1>9, <1>10, <2>1, <2>2, SMTT(20)
  <2>4. \A i \in W : BlockOf(i) <= h <=> BlockOf(i) <= h - 1 \/ BlockOf(i) = h
    BY <1>2
  <2>5. U[k + 1] = U[k] \cup S[k + 1]
    BY <2>3, <2>4
  <2>6. ASSUME NEW x \in U[k], NEW y \in S[k + 1]
        PROVE  x < y
    <3>1. x \in W /\ y \in W /\ BlockOf(x) <= h - 1 /\ BlockOf(y) = h
      BY <2>3
    <3>2. x \in Nat /\ y \in Nat /\ BlockOf(x) < BlockOf(y)
      BY <1>2, <3>1
    <3>3. QED
      BY <3>2, BlockOrder
  <2>7. QED
    BY <2>5, <2>6
<1>15. Len(parts) = n
  BY <1>8
<1>16. FlattenSeq(parts) = Ordered(U[n])
  <2>1. \A k \in 1..n : Enumerates(parts[k], S[k])
    BY <1>11
  <2>2. \A k \in 1..n : S[k] \in SUBSET Nat /\ U[k] \in SUBSET Nat /\ IsFiniteSet(U[k])
    BY <1>12
  <2>3. \A k \in 1..n - 1 : U[k + 1] = U[k] \cup S[k + 1]
    BY <1>14
  <2>4. \A k \in 1..n - 1 : \A x \in U[k] : \A y \in S[k + 1] : x < y
    BY <1>14
  <2>5. Chained(n, parts, S, U)
    BY <1>13, <1>15, <2>1, <2>2, <2>3, <2>4 DEF Chained
  <2>6. QED
    BY <2>5, FlattenIs
<1>17. U[n] = T
  <2>1. n \in 1..n
    OBVIOUS
  <2>2. U[n] = {i \in W : i >= from /\ BlockOf(i) <= b + n - 1}
    BY <1>10, <2>1
  <2>3. \A i \in W : BlockOf(i) <= b + n - 1
    BY <1>2, <1>5
  <2>4. QED
    BY <2>2, <2>3
<1>18. QED
  BY <1>7, <1>16, <1>17

\* The reader gets the records of the run from a record of its first or of its current
\* block on, each once and in their order.
THEOREM ReadsBackHolds == Spec => []ReadsBack
<1>1. ASSUME IInv, phase = "idle", NEW from \in 1..MaxIndex,
             BlockOf(from) \in {0, BlockOf(disk.last)}
      PROVE  /\ LaterBlocksMatch(BlocksFrom(disk, BlockOf(from)), BlockOf(from))
             /\ IterFrom(disk, from) = Ordered({i \in written : i >= from})
  <2>1. /\ disk \in Metadata /\ written \in SUBSET (1..MaxIndex)
        /\ Placed(disk, written) /\ Len(disk.chain) = BlockOf(disk.last)
    BY <1>1 DEF IInv, Types, HoldsInv, Holds
  <2>2. PICK b \in Nat : b = BlockOf(from)
    BY IndexIs
  <2>3. PICK l \in Nat : l = Len(disk.chain)
    BY <2>1, BlocksIs
  <2>4. PICK blocks : blocks = BlocksFrom(disk, b)
    OBVIOUS
  <2>5. PICK parts, T :
          /\ parts = [k \in 1..Len(blocks) |->
                        RecordsFrom(blocks[k], IF k = 1 THEN PlaceOf(from) ELSE 0)]
          /\ T = {i \in written : i >= from}
    OBVIOUS
  <2>6. IterFrom(disk, from) = FlattenSeq(parts)
    BY <2>2, <2>4, <2>5 DEF IterFrom
  <2>7. SUFFICES LaterBlocksMatch(blocks, b) /\ FlattenSeq(parts) = Ordered(T)
    BY <2>2, <2>4, <2>5, <2>6
  <2>8. CASE l <= b
    <3>1. blocks = <<disk.block>> /\ b = l
      BY <1>1, <2>1, <2>2, <2>3, <2>4, <2>8 DEF BlocksFrom
    <3>2. PICK n \in Nat \ {0} : n = 1
      OBVIOUS
    <3>3. Blocks(disk)[l + 1] = disk.block
      BY <2>1, <2>3, BlocksIs
    <3>4. /\ Len(blocks) = n /\ DOMAIN blocks = 1..n /\ b + n = Len(disk.chain) + 1
          /\ \A k \in 1..n : blocks[k] = Blocks(disk)[b + k]
      BY <2>3, <3>1, <3>2, <3>3
    <3>5. Reading(disk, written, from, b, n, blocks, parts, T)
      BY <2>2, <2>5, <3>4 DEF Reading
    <3>6. QED
      BY <2>1, <3>5, ReadIs
  <2>9. CASE ~(l <= b)
    <3>1. blocks = Blocks(disk) /\ b = 0
      BY <1>1, <2>1, <2>2, <2>3, <2>4, <2>9 DEF BlocksFrom, Blocks
    <3>2. PICK n \in Nat \ {0} : n = l + 1
      OBVIOUS
    <3>3. /\ Len(blocks) = n /\ DOMAIN blocks = 1..n /\ b + n = Len(disk.chain) + 1
          /\ \A k \in 1..n : blocks[k] = Blocks(disk)[b + k]
      BY <2>1, <2>3, <3>1, <3>2, BlocksIs
    <3>4. Reading(disk, written, from, b, n, blocks, parts, T)
      BY <2>2, <2>5, <3>3 DEF Reading
    <3>5. QED
      BY <2>1, <3>4, ReadIs
  <2>10. QED
    BY <2>8, <2>9
<1>2. IInv => ReadsBack
  BY <1>1 DEF ReadsBack
<1>3. QED
  BY <1>2, Invariance, PTL
=============================================================================
