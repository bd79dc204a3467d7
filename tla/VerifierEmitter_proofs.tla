------------------------ MODULE VerifierEmitter_proofs ------------------------
(***************************************************************************)
(* Proofs about VerifierEmitter: the copy keeps to the blocks, and the     *)
(* verdict of the tool is right, for any devices, blocks and chunk size.   *)
(***************************************************************************)
EXTENDS VerifierEmitter, SequenceTheorems, TLAPS

\* A device is a sequence of a length between 0 and MaxSize.
LEMMA DeviceIsSeq ==
  ASSUME NEW d \in Devices
  PROVE  /\ Len(d) \in 0..MaxSize
         /\ DOMAIN d = 1..Len(d)
         /\ d \in [1..Len(d) -> Values]
<1> USE VerifierAssumption
<1>1. PICK n \in 0..MaxSize : d \in [1..n -> Values]
  BY DEF Devices
<1>2. d \in Seq(Values) /\ Len(d) = n
  BY <1>1, n \in Nat, SeqDef, LenProperties
<1> QED
  BY <1>1, <1>2

LEMMA SeqIsDevice ==
  ASSUME NEW n \in 0..MaxSize, NEW d \in [1..n -> Values]
  PROVE  d \in Devices /\ Len(d) = n
<1>1. d \in Devices
  BY DEF Devices
<1>2. DOMAIN d = 1..Len(d) /\ Len(d) \in Nat
  BY <1>1, DeviceIsSeq, VerifierAssumption
<1> QED
  BY <1>1, <1>2, VerifierAssumption

\* A read returns no more than was asked for, nor than there is.
LEMMA ReadBounds ==
  ASSUME NEW d \in Devices, NEW p \in Nat, NEW n \in Nat \ {0},
         NEW r \in ReadReturns(d, p, n)
  PROVE  /\ r \in 0..n
         /\ r = 0 <=> p >= Len(d)
         /\ r > 0 => p + r <= Len(d)
BY DeviceIsSeq, VerifierAssumption DEF ReadReturns, Smaller

\* A record is a sequence of blocks.
LEMMA RecordIsSeq == ASSUME NEW r \in Record PROVE r \in Seq(Block)
<1>1. PICK n \in 0..MaxBlocks : r \in [1..n -> Block]
  BY DEF Record
<1> QED
  BY <1>1, n \in Nat, SeqDef, VerifierAssumption

LEMMA BlockIsNat == ASSUME NEW b \in Block
                    PROVE  b.offset \in Nat /\ b.size \in Nat /\ Inside(b) \subseteq Nat
<1>1. b.offset \in Nat /\ b.size \in Nat
  BY VerifierAssumption DEF Block
<1> QED
  BY <1>1 DEF Inside

----------------------------------------------------------------------------
(* The inductive invariant.                                                *)

\* Where the devices stand in the block that is being copied.
PositionInv ==
  pc \in {"chunk", "write"} =>
    /\ blocks # <<>>
    /\ tpos = Head(blocks).offset + written
    /\ written <= Head(blocks).size
    /\ tpos <= Len(target)
    /\ pc = "chunk" => spos = tpos /\ spos <= Len(source)
    /\ pc = "write" =>
         /\ spos = tpos + got /\ written + got <= Head(blocks).size
         /\ spos <= Len(source)
         /\ got = 0 => tpos = Len(source)

\* What has been copied of it.
PartInv ==
  pc \in {"chunk", "write"} =>
    \A i \in DOMAIN source \cap DOMAIN target :
      Head(blocks).offset < i /\ i <= tpos => target[i] = source[i]

\* A listed position is copied or in a block that waits.
Waiting(i) == \E k \in DOMAIN blocks : i \in Inside(blocks[k])
ListInv ==
  /\ pc \in {"idle", "compare"} => blocks = <<>>
  /\ \A k \in DOMAIN blocks : Inside(blocks[k]) \subseteq listed
  /\ \A i \in listed : i \in copied \/ Waiting(i)

\* What has been compared is the same.
CompareInv ==
  /\ verdict = "mismatch" => listed \subseteq copied
  /\ pc = "compare" =>
       /\ spos = tpos /\ spos <= Len(source) /\ spos <= Len(target)
       /\ \A i \in 1..spos : source[i] = target[i]
  /\ verdict = "match" => source = target
  /\ verdict = "mismatch" /\ ~disturbed => source # target
  /\ verdict # "none" => pc = "end"

IInv ==
  /\ TypeOK
  /\ CopyKeepsToBlocks /\ CopiedIsSame
  /\ PositionInv /\ PartInv /\ ListInv /\ CompareInv

LEMMA InitIInv == Init => IInv
<1> SUFFICES ASSUME Init PROVE IInv
  OBVIOUS
<1> USE VerifierAssumption DEF Init
<1>1. source \in Devices /\ target \in Devices /\ original \in Devices
  OBVIOUS
<1>2. blocks \in Seq(Block)
  BY EmptySeq
<1>3. spos \in 0..MaxSize /\ tpos \in 0..MaxSize /\ got \in 0..ChunkSize
  OBVIOUS
<1>4. written \in Nat /\ records \in 0..MaxRecords
  OBVIOUS
<1>5. listed \subseteq Nat /\ copied \subseteq Nat /\ disturbed \in BOOLEAN
  BY Zenon
<1>6. TypeOK
  BY <1>1, <1>2, <1>3, <1>4, <1>5 DEF TypeOK
<1>7. CopyKeepsToBlocks /\ CopiedIsSame
  BY DEF CopyKeepsToBlocks, CopiedIsSame
<1>8. PositionInv /\ PartInv /\ CompareInv
  BY DEF PositionInv, PartInv, CompareInv
<1>9. ListInv
  BY DEF ListInv, Waiting
<1> QED
  BY <1>6, <1>7, <1>8, <1>9 DEF IInv

----------------------------------------------------------------------------
(* Facts about the steps.                                                  *)

\* The block that is being copied.
LEMMA HeadFacts ==
  ASSUME TypeOK, ListInv, blocks # <<>>
  PROVE  /\ Head(blocks) \in Block
         /\ Tail(blocks) \in Seq(Block)
         /\ Inside(Head(blocks)) \subseteq listed
         /\ \A k \in DOMAIN Tail(blocks) : Inside(Tail(blocks)[k]) \subseteq listed
         /\ \A i : Waiting(i) =>
               \/ i \in Inside(Head(blocks))
               \/ \E k \in DOMAIN Tail(blocks) : i \in Inside(Tail(blocks)[k])
<1>1. blocks \in Seq(Block)
  BY DEF TypeOK
<1>2. /\ Head(blocks) \in Block /\ Tail(blocks) \in Seq(Block)
      /\ Head(blocks) = blocks[1] /\ 1 \in DOMAIN blocks
      /\ Len(blocks) \in Nat /\ DOMAIN blocks = 1..Len(blocks)
      /\ DOMAIN Tail(blocks) = 1..(Len(blocks) - 1)
      /\ \A k \in 1..(Len(blocks) - 1) : Tail(blocks)[k] = blocks[k + 1]
  BY <1>1, HeadTailProperties, LenProperties
<1>3. ASSUME NEW k \in DOMAIN Tail(blocks)
      PROVE  k + 1 \in DOMAIN blocks /\ Tail(blocks)[k] = blocks[k + 1]
  BY <1>2
<1>4. ASSUME NEW i, NEW k \in DOMAIN blocks, i \in Inside(blocks[k]), k # 1
      PROVE  k - 1 \in DOMAIN Tail(blocks) /\ i \in Inside(Tail(blocks)[k - 1])
  <2>1. k - 1 \in DOMAIN Tail(blocks) /\ (k - 1) + 1 = k
    BY <1>2, <1>4
  <2> QED
    BY <2>1, <1>3, <1>4
<1> QED
  BY <1>2, <1>3, <1>4 DEF ListInv, Waiting

\* A write puts what the source has at the same positions.
LEMMA OverwriteIs ==
  ASSUME TypeOK, PositionInv, pc = "write", NEW n \in 0..got, Overwrite(n)
  PROVE  /\ target' \in Devices /\ Len(target') = Len(target)
         /\ DOMAIN target' = DOMAIN target
         /\ tpos + n <= Len(target) /\ tpos + n <= Len(source)
         /\ \A i \in DOMAIN target :
               target'[i] = IF tpos < i /\ i <= tpos + n THEN source[i] ELSE target[i]
<1> USE VerifierAssumption
<1>1. /\ Len(target) \in 0..MaxSize /\ DOMAIN target = 1..Len(target)
      /\ target \in [1..Len(target) -> Values]
      /\ Len(source) \in 0..MaxSize /\ DOMAIN source = 1..Len(source)
      /\ source \in [1..Len(source) -> Values]
  BY DeviceIsSeq DEF TypeOK
<1>2. tpos \in Nat /\ got \in Nat /\ spos = tpos + got /\ spos <= Len(source) /\ n <= got
  BY DEF TypeOK, PositionInv
<1>3. tpos + n <= Len(target) /\ tpos + n <= Len(source)
  BY <1>1, <1>2 DEF Overwrite
<1>4. target' = [i \in 1..Len(target) |->
                   IF i \in (tpos + 1)..(tpos + n) THEN source[(spos - got) + (i - tpos)]
                                                   ELSE target[i]]
  BY <1>1 DEF Overwrite
<1>5. ASSUME NEW i \in 1..Len(target)
      PROVE  /\ target'[i] \in Values
             /\ target'[i] = IF tpos < i /\ i <= tpos + n THEN source[i] ELSE target[i]
  <2>1. CASE i \in (tpos + 1)..(tpos + n)
    <3>1. (spos - got) + (i - tpos) = i /\ i \in 1..Len(source)
      BY <1>1, <1>2, <1>3, <2>1
    <3>2. target'[i] = source[i]
      BY <1>4, <2>1, <3>1
    <3> QED
      BY <1>1, <1>2, <2>1, <3>1, <3>2
  <2>2. CASE i \notin (tpos + 1)..(tpos + n)
    BY <1>1, <1>2, <1>4, <2>2
  <2> QED
    BY <2>1, <2>2
<1>6. target' \in [1..Len(target) -> Values]
  BY <1>4, <1>5
<1>7. target' \in Devices /\ Len(target') = Len(target)
  BY <1>1, <1>6, SeqIsDevice
<1>8. DOMAIN target' = DOMAIN target
  BY <1>1, <1>6
<1> QED
  BY <1>1, <1>3, <1>5, <1>7, <1>8

\* So it keeps what is the same the same, and to the block.
LEMMA OverwriteKeeps ==
  ASSUME IInv, pc = "write", NEW n \in 0..got, Overwrite(n),
         UNCHANGED <<source, original, listed>>
  PROVE  /\ CopyKeepsToBlocks'
         /\ \A i \in DOMAIN source \cap DOMAIN target' :
               /\ target[i] = source[i] => target'[i] = source[i]
               /\ tpos < i /\ i <= tpos + n => target'[i] = source[i]
<1> USE VerifierAssumption
<1>1. /\ DOMAIN target' = DOMAIN target
      /\ tpos + n <= Len(target) /\ tpos + n <= Len(source)
      /\ \A i \in DOMAIN target :
            target'[i] = IF tpos < i /\ i <= tpos + n THEN source[i] ELSE target[i]
  BY OverwriteIs, Zenon DEF IInv
<1>2. /\ DOMAIN source = 1..Len(source) /\ Len(source) \in Nat
      /\ DOMAIN target = 1..Len(target) /\ Len(target) \in Nat
  BY DeviceIsSeq DEF IInv, TypeOK
<1>3. ASSUME NEW i \in DOMAIN target, tpos < i, i <= tpos + n
      PROVE  i \in listed /\ i \in DOMAIN source
  <2>1. Head(blocks) \in Block /\ Inside(Head(blocks)) \subseteq listed
    BY HeadFacts DEF IInv, PositionInv
  <2>2. Head(blocks).offset \in Nat /\ Head(blocks).size \in Nat
    BY <2>1, BlockIsNat
  <2>3. /\ tpos = Head(blocks).offset + written /\ written + got <= Head(blocks).size
        /\ written \in Nat /\ got \in Nat /\ tpos \in Nat
    BY DEF IInv, TypeOK, PositionInv
  <2>4. i \in Inside(Head(blocks))
    <3>1. PICK o \in Nat, l \in Nat : o = Head(blocks).offset /\ l = Head(blocks).size
      BY <2>2
    <3>2. i \in Nat /\ n \in 0..got
      BY <1>2, <1>3
    <3>3. o < i /\ i <= o + l
      BY ONLY <1>3, <2>3, <3>1, <3>2
    <3> QED BY <3>1, <3>2, <3>3 DEF Inside
  <2>5. i <= Len(source)
    BY ONLY <1>1, <1>2, <1>3, <2>3
  <2>6. i \in 1..Len(source)
    BY <1>2, <1>3, <2>5
  <2> QED
    BY <1>2, <2>1, <2>4, <2>6, Zenon
<1>4. CopyKeepsToBlocks'
  BY <1>1, <1>3 DEF IInv, CopyKeepsToBlocks
<1> QED
  BY <1>1, <1>4

\* A block is through: all of it is the same, and the others still wait.
LEMMA BlockEnds ==
  ASSUME IInv, pc \in {"chunk", "write"}, BlockIsCopied,
         UNCHANGED source, target' \in Devices, DOMAIN target' = DOMAIN target,
         \A i \in DOMAIN source \cap DOMAIN target' :
           /\ target[i] = source[i] => target'[i] = source[i]
           /\ i \in Inside(Head(blocks)) => target'[i] = source[i]
  PROVE  /\ blocks' \in Seq(Block) /\ copied' \subseteq Nat
         /\ CopiedIsSame' /\ ListInv'
<1>1. blocks # <<>>
  BY DEF IInv, PositionInv
<1>2. /\ Head(blocks) \in Block /\ Tail(blocks) \in Seq(Block)
      /\ \A k \in DOMAIN Tail(blocks) : Inside(Tail(blocks)[k]) \subseteq listed
      /\ \A i : Waiting(i) =>
            \/ i \in Inside(Head(blocks))
            \/ \E k \in DOMAIN Tail(blocks) : i \in Inside(Tail(blocks)[k])
  BY <1>1, HeadFacts DEF IInv
<1>3. /\ blocks' = Tail(blocks) /\ copied' = copied \cup Inside(Head(blocks))
      /\ listed' = listed /\ pc' = "block"
  BY DEF BlockIsCopied
<1>4. copied' \subseteq Nat
  BY <1>2, <1>3, BlockIsNat DEF IInv, TypeOK
<1>5. CopiedIsSame'
  BY <1>3 DEF IInv, CopiedIsSame
<1>6. ListInv'
  BY <1>2, <1>3 DEF IInv, ListInv, Waiting
<1> QED
  BY <1>2, <1>3, <1>4, <1>5, <1>6

\* The end of a comparison, and a turn of it.
LEMMA ComparedWhole ==
  ASSUME source \in Devices, target \in Devices, NEW p \in Nat,
         p = Len(source), p = Len(target), \A i \in 1..p : source[i] = target[i]
  PROVE  source = target
<1>1. /\ source \in [1..Len(source) -> Values]
      /\ target \in [1..Len(target) -> Values]
  BY DeviceIsSeq
<1> QED
  BY <1>1

LEMMA CompareTurn ==
  ASSUME IInv, CompareChunk
  PROVE  CompareInv'
<1> USE VerifierAssumption
<1>1. PICK n \in ReadReturns(source, spos, ChunkSize), m \in ReadReturns(target, tpos, ChunkSize) :
        /\ CASE n = 0 /\ m = 0 -> Finish("match") /\ UNCHANGED <<spos, tpos>>
             [] n > 0 /\ n = m /\ SameChunk(n) ->
                  spos' = spos + n /\ tpos' = tpos + m /\ UNCHANGED <<pc, verdict>>
             [] OTHER -> Finish("mismatch") /\ UNCHANGED <<spos, tpos>>
        /\ disturbed' = (\/ disturbed \/ ShortRead(source, spos, n)
                                     \/ ShortRead(target, tpos, m))
  BY DEF CompareChunk
<1>2. /\ source \in Devices /\ target \in Devices
      /\ Len(source) \in Nat /\ DOMAIN source = 1..Len(source)
      /\ Len(target) \in Nat /\ DOMAIN target = 1..Len(target)
  BY DeviceIsSeq DEF IInv, TypeOK
<1>3. /\ pc = "compare" /\ spos = tpos /\ spos \in Nat
      /\ spos <= Len(source) /\ spos <= Len(target)
      /\ \A i \in 1..spos : source[i] = target[i]
      /\ listed \subseteq copied /\ verdict = "none"
  BY DEF CompareChunk, IInv, TypeOK, CompareInv, ListInv, Waiting
<1>4. /\ n \in 0..ChunkSize /\ (n = 0 <=> spos >= Len(source))
      /\ n > 0 => spos + n <= Len(source)
  BY <1>2, <1>3, ReadBounds
<1>5. /\ m \in 0..ChunkSize /\ (m = 0 <=> tpos >= Len(target))
      /\ m > 0 => tpos + m <= Len(target)
  BY <1>2, <1>3, ReadBounds
<1>6. UNCHANGED <<source, target, listed, copied>>
  BY DEF CompareChunk, historyVars
<1>7. CASE n = 0 /\ m = 0
  <2>1. spos = Len(source) /\ spos = Len(target)
    <3>1. spos >= Len(source) /\ tpos >= Len(target)
      BY <1>4, <1>5, <1>7
    <3>2. /\ spos = tpos /\ spos \in Nat /\ Len(source) \in Nat /\ Len(target) \in Nat
          /\ spos <= Len(source) /\ spos <= Len(target)
      BY <1>2, <1>3
    <3> QED
      BY <3>1, <3>2
  <2>2. source = target
    BY <1>2, <1>3, <2>1, ComparedWhole
  <2> QED
    BY <1>1, <1>6, <1>7, <2>2 DEF Finish, CompareInv
<1>8. CASE n > 0 /\ n = m /\ SameChunk(n)
  <2>1. spos' = spos + n /\ tpos' = tpos + n /\ pc' = pc /\ verdict' = verdict
    BY <1>1, <1>8, <1>4
  <2>2. ASSUME NEW i \in 1..(spos + n) PROVE source[i] = target[i]
    <3>1. CASE i > spos
      <4>1. i - spos \in 1..n /\ spos + (i - spos) = i
        BY <1>3, <1>4, <3>1
      <4> QED
        BY <1>3, <1>8, <4>1 DEF SameChunk
    <3> QED
      BY <1>3, <1>4, <3>1
  <2> QED
    BY <1>2, <1>3, <1>4, <1>5, <1>6, <1>8, <2>1, <2>2 DEF CompareInv
<1>9. CASE ~(n = 0 /\ m = 0) /\ ~(n > 0 /\ n = m /\ SameChunk(n))
  <2>1. Finish("mismatch")
    BY <1>1, <1>9
  <2>2. ASSUME ~disturbed', source = target PROVE FALSE
    <3>1. n = m
      <4>1. ~ShortRead(source, spos, n) /\ ~ShortRead(source, spos, m)
        BY <1>1, <1>3, <2>2
      <4> QED
        BY <1>2, <1>3, <1>4, <1>5, <2>2, <4>1 DEF ShortRead, Smaller
    <3>2. n > 0
      BY <1>2, <1>3, <1>4, <1>5, <1>9, <2>2, <3>1
    <3>3. SameChunk(n)
      BY <1>3, <2>2 DEF SameChunk
    <3> QED
      BY <1>9, <3>1, <3>2, <3>3
  <2> QED
    BY <1>3, <1>6, <2>1, <2>2 DEF Finish, CompareInv
<1> QED
  BY <1>7, <1>8, <1>9

----------------------------------------------------------------------------
(* Every step keeps the invariant.                                         *)

LEMMA RecordStep ==
  ASSUME IInv, NEW r \in Record, IteratorRecord(r)
  PROVE  IInv'
<1> USE VerifierAssumption
<1>1. r \in Seq(Block)
  BY RecordIsSeq
<1>2. /\ UNCHANGED <<deviceVars, written, got, verdict, original, copied, disturbed>>
      /\ pc = "idle" /\ pc' = "block" /\ blocks' = r /\ records' = records + 1
      /\ records < MaxRecords
      /\ listed' = listed \cup UNION {Inside(r[i]) : i \in DOMAIN r}
  BY DEF IteratorRecord
<1>3. \A i \in DOMAIN r : r[i] \in Block
  BY <1>1, LenProperties
<1>4. listed' \subseteq Nat
  BY <1>2, <1>3, BlockIsNat DEF IInv, TypeOK
<1>5. records' \in 0..MaxRecords
  BY <1>2 DEF IInv, TypeOK
<1>6. TypeOK'
  BY <1>1, <1>2, <1>4, <1>5 DEF IInv, TypeOK, deviceVars
<1>7. CopyKeepsToBlocks' /\ CopiedIsSame'
  BY <1>2 DEF IInv, CopyKeepsToBlocks, CopiedIsSame, deviceVars
<1>8. PositionInv' /\ PartInv' /\ CompareInv'
  BY <1>2 DEF IInv, PositionInv, PartInv, CompareInv, deviceVars
<1>9. ListInv'
  <2>1. \A i \in listed : i \in copied
    BY <1>2 DEF IInv, ListInv, Waiting
  <2> QED
    BY <1>2, <2>1 DEF ListInv, Waiting
<1> QED
  BY <1>6, <1>7, <1>8, <1>9 DEF IInv

LEMMA ReturnStep == ASSUME IInv, RecordReturns PROVE IInv'
<1>1. /\ UNCHANGED <<deviceVars, copyVars, verdict, historyVars>>
      /\ pc = "block" /\ blocks = <<>> /\ pc' = "idle"
  BY DEF RecordReturns
<1>2. TypeOK'
  BY <1>1 DEF IInv, TypeOK, deviceVars, copyVars, historyVars
<1>3. CopyKeepsToBlocks' /\ CopiedIsSame'
  BY <1>1 DEF IInv, CopyKeepsToBlocks, CopiedIsSame, deviceVars, historyVars
<1>4. PositionInv' /\ PartInv' /\ ListInv' /\ CompareInv'
  BY <1>1 DEF IInv, PositionInv, PartInv, ListInv, Waiting, CompareInv,
              deviceVars, copyVars, historyVars
<1> QED
  BY <1>2, <1>3, <1>4 DEF IInv

LEMMA SeekStep == ASSUME IInv, Seek PROVE IInv'
<1> USE VerifierAssumption
<1>1. /\ UNCHANGED <<source, target, blocks, got, verdict, historyVars>>
      /\ pc = "block" /\ blocks # <<>> /\ pc' = "chunk" /\ written' = 0
      /\ spos' = Head(blocks).offset /\ tpos' = spos'
      /\ spos' <= Len(source) /\ spos' <= Len(target)
  BY DEF Seek
<1>2. spos' \in Nat /\ Head(blocks).size \in Nat
  BY <1>1, HeadFacts, BlockIsNat DEF IInv
<1>3. Len(source) \in 0..MaxSize /\ Len(target) \in 0..MaxSize
  BY DeviceIsSeq DEF IInv, TypeOK
<1>4. spos' \in 0..MaxSize /\ tpos' \in 0..MaxSize
  BY <1>1, <1>2, <1>3
<1>5. TypeOK'
  BY <1>1, <1>4 DEF IInv, TypeOK, historyVars
<1>6. CopyKeepsToBlocks' /\ CopiedIsSame'
  BY <1>1 DEF IInv, CopyKeepsToBlocks, CopiedIsSame, historyVars
<1>7. PositionInv' /\ PartInv'
  BY <1>1, <1>2, <1>3 DEF IInv, TypeOK, PositionInv, PartInv
<1>8. ListInv' /\ CompareInv'
  BY <1>1 DEF IInv, ListInv, Waiting, CompareInv, historyVars
<1> QED
  BY <1>5, <1>6, <1>7, <1>8 DEF IInv

\* The tool ends with an error; the target may have been written to.
LEMMA EndStep ==
  ASSUME IInv, pc' = "end", UNCHANGED <<source, spos, tpos, copyVars, original, listed, copied, records>>,
         target' \in Devices, CopyKeepsToBlocks', CopiedIsSame', disturbed' \in BOOLEAN,
         \/ verdict' = "error"
         \/ verdict' = "mismatch" /\ disturbed' = TRUE /\ pc \in {"idle", "compare"}
  PROVE  IInv'
<1>1. TypeOK'
  BY DEF IInv, TypeOK, copyVars
<1>2. PositionInv' /\ PartInv'
  BY DEF PositionInv, PartInv
<1>3. ListInv' /\ CompareInv'
  BY DEF IInv, ListInv, Waiting, CompareInv, copyVars
<1> QED
  BY <1>1, <1>2, <1>3 DEF IInv

LEMMA WithinBound ==
  ASSUME NEW p \in Nat, NEW n \in Nat, NEW l \in 0..MaxSize, p + n <= l
  PROVE  p + n \in 0..MaxSize
BY VerifierAssumption

LEMMA ReadStep == ASSUME IInv, ReadChunk PROVE IInv'
<1> USE VerifierAssumption
<1>1. /\ UNCHANGED <<source, target, tpos, blocks, written, verdict, historyVars>>
      /\ pc = "chunk" /\ written < Head(blocks).size /\ pc' = "write"
      /\ got' \in ReadReturns(source, spos, Smaller(ChunkSize, Head(blocks).size - written))
      /\ spos' = spos + got'
  BY DEF ReadChunk
<1>2. Head(blocks).size \in Nat /\ Head(blocks).offset \in Nat
  BY <1>1, HeadFacts, BlockIsNat DEF IInv, PositionInv
<1>3. /\ source \in Devices /\ Len(source) \in 0..MaxSize
      /\ spos \in Nat /\ tpos \in Nat /\ written \in Nat
  BY DeviceIsSeq DEF IInv, TypeOK
<1>4. /\ blocks # <<>> /\ tpos = Head(blocks).offset + written
      /\ tpos <= Len(target) /\ spos = tpos /\ spos <= Len(source)
  BY <1>1 DEF IInv, PositionInv
<1>a. DEFINE n == Smaller(ChunkSize, Head(blocks).size - written)
<1>5. n \in Nat \ {0} /\ n <= ChunkSize /\ n <= Head(blocks).size - written
  BY <1>1, <1>2, <1>3 DEF Smaller
<1>6. /\ got' \in 0..n /\ (got' = 0 <=> spos >= Len(source))
      /\ got' > 0 => spos + got' <= Len(source)
  <2> HIDE DEF n
  <2>1. got' \in ReadReturns(source, spos, n)
    BY <1>1 DEF n
  <2> QED
    BY <1>3, <1>5, <2>1, ReadBounds
<1> HIDE DEF n
<1>7. /\ got' \in 0..ChunkSize /\ spos' \in 0..MaxSize /\ spos' <= Len(source)
      /\ spos' = tpos + got' /\ written + got' <= Head(blocks).size
      /\ got' = 0 => tpos = Len(source)
  <2>1. got' \in Nat /\ got' <= n /\ n \in Nat /\ ChunkSize \in Nat /\ MaxSize \in Nat
    BY <1>5, <1>6
  <2>2. got' \in 0..ChunkSize /\ written + got' <= Head(blocks).size
    BY <2>1, <1>2, <1>3, <1>5
  <2>3. spos' = spos + got' /\ spos' = tpos + got'
    BY <1>1, <1>4
  <2>4. CASE got' = 0
    <3>1. spos >= Len(source)
      BY <1>6, <2>4
    <3>2. spos' = spos /\ tpos = Len(source)
      BY <1>3, <1>4, <2>3, <2>4, <3>1
    <3> QED
      BY <1>3, <1>4, <2>2, <2>3, <3>2
  <2>5. CASE got' # 0
    <3>1. spos + got' <= Len(source)
      BY <1>6, <2>1, <2>5
    <3>2. spos + got' \in 0..MaxSize
      BY <1>3, <2>1, <3>1, WithinBound
    <3>3. spos' \in 0..MaxSize /\ spos' <= Len(source)
      BY <2>3, <3>1, <3>2, Zenon
    <3> QED
      BY <2>2, <2>3, <2>5, <3>3
  <2> QED
    BY <2>4, <2>5
<1>8. TypeOK'
  BY <1>1, <1>7 DEF IInv, TypeOK, historyVars
<1>9. CopyKeepsToBlocks' /\ CopiedIsSame'
  BY <1>1 DEF IInv, CopyKeepsToBlocks, CopiedIsSame, historyVars
<1>10. PositionInv'
  BY <1>1, <1>4, <1>7 DEF IInv, PositionInv
<1>11. PartInv' /\ ListInv' /\ CompareInv'
  BY <1>1 DEF IInv, PartInv, ListInv, Waiting, CompareInv, historyVars
<1> QED
  BY <1>8, <1>9, <1>10, <1>11 DEF IInv

LEMMA CopyEndsStep == ASSUME IInv, CopyEnds PROVE IInv'
<1> USE VerifierAssumption
<1>1. /\ UNCHANGED <<deviceVars, written, got, verdict>>
      /\ pc = "chunk" /\ written >= Head(blocks).size /\ BlockIsCopied
  BY DEF CopyEnds
<1>2. /\ pc' = "block" /\ blocks' = Tail(blocks) /\ UNCHANGED <<original, listed, records, disturbed>>
  BY <1>1 DEF BlockIsCopied
<1>3. Head(blocks).size \in Nat /\ Head(blocks).offset \in Nat /\ written \in Nat
  BY <1>1, HeadFacts, BlockIsNat DEF IInv, TypeOK, PositionInv
<1>4. tpos = Head(blocks).offset + Head(blocks).size
  <2>1. tpos = Head(blocks).offset + written /\ written <= Head(blocks).size
    BY <1>1 DEF IInv, PositionInv
  <2> QED
    BY <1>1, <1>3, <2>1
<1>5. \A i \in Inside(Head(blocks)) : Head(blocks).offset < i /\ i <= tpos
  BY <1>3, <1>4 DEF Inside
<1>6. \A i \in DOMAIN source \cap DOMAIN target : i \in Inside(Head(blocks)) => target[i] = source[i]
  BY <1>1, <1>5 DEF IInv, PartInv
<1>7. /\ blocks' \in Seq(Block) /\ copied' \subseteq Nat
      /\ CopiedIsSame' /\ ListInv'
  <2>1. source' = source /\ target' = target /\ target \in Devices /\ pc \in {"chunk", "write"}
    BY <1>1 DEF deviceVars, IInv, TypeOK
  <2> QED
    BY <1>1, <1>6, <2>1, BlockEnds
<1>8. TypeOK'
  BY <1>1, <1>2, <1>7 DEF IInv, TypeOK, deviceVars
<1>9. CopyKeepsToBlocks'
  BY <1>1, <1>2 DEF IInv, CopyKeepsToBlocks, deviceVars
<1>10. PositionInv' /\ PartInv'
  BY <1>2 DEF PositionInv, PartInv
<1>11. CompareInv'
  BY <1>1, <1>2 DEF IInv, CompareInv, deviceVars
<1> QED
  BY <1>7, <1>8, <1>9, <1>10, <1>11 DEF IInv

LEMMA WriteStep == ASSUME IInv, WriteChunk PROVE IInv'
<1> USE VerifierAssumption
<1>1. /\ UNCHANGED <<source, spos, got, verdict>>
      /\ pc = "write" /\ Overwrite(got)
      /\ tpos' = tpos + got /\ written' = written + got
      /\ IF got = 0 THEN BlockIsCopied
                    ELSE pc' = "chunk" /\ UNCHANGED <<blocks, historyVars>>
  BY DEF WriteChunk
<1>2. UNCHANGED <<original, listed, records, disturbed>>
  BY <1>1 DEF BlockIsCopied, historyVars
<1>3. got \in 0..got /\ got \in Nat /\ tpos \in Nat /\ written \in Nat /\ spos \in 0..MaxSize
  BY DEF IInv, TypeOK
<1>4. /\ target' \in Devices /\ Len(target') = Len(target)
      /\ DOMAIN target' = DOMAIN target /\ tpos + got <= Len(target)
  BY <1>1, <1>3, OverwriteIs DEF IInv
<1>5. /\ CopyKeepsToBlocks'
      /\ \A i \in DOMAIN source \cap DOMAIN target' :
            /\ target[i] = source[i] => target'[i] = source[i]
            /\ tpos < i /\ i <= tpos + got => target'[i] = source[i]
  BY <1>1, <1>2, <1>3, OverwriteKeeps
<1>6. /\ blocks # <<>> /\ tpos = Head(blocks).offset + written
      /\ written + got <= Head(blocks).size
      /\ spos = tpos + got /\ spos <= Len(source) /\ (got = 0 => tpos = Len(source))
  BY <1>1 DEF IInv, PositionInv
<1>7. Head(blocks).size \in Nat /\ Head(blocks).offset \in Nat
  BY <1>6, HeadFacts, BlockIsNat DEF IInv
<1>8. /\ Len(source) \in Nat /\ DOMAIN source = 1..Len(source)
      /\ Len(target) \in Nat /\ DOMAIN target = 1..Len(target)
  BY DeviceIsSeq DEF IInv, TypeOK
<1>9. \A i \in DOMAIN source \cap DOMAIN target' :
        Head(blocks).offset < i /\ i <= tpos + got => target'[i] = source[i]
  <2> TAKE i \in DOMAIN source \cap DOMAIN target'
  <2> HAVE Head(blocks).offset < i /\ i <= tpos + got
  <2>1. CASE i <= tpos
    <3>1. target[i] = source[i]
      BY <1>1, <1>4, <2>1 DEF IInv, PartInv
    <3> QED
      BY <1>5, <3>1
  <2>2. CASE tpos < i
    BY <1>5, <2>2
  <2> QED
    BY <1>3, <1>8, <2>1, <2>2
<1>10. tpos' \in 0..MaxSize /\ written' \in Nat
  BY <1>1, <1>3, <1>6
<1>11. CompareInv'
  BY <1>1, <1>2 DEF IInv, CompareInv, BlockIsCopied
<1>12. CASE got = 0
  <2>1. BlockIsCopied /\ pc' = "block"
    BY <1>1, <1>12 DEF BlockIsCopied
  <2>2. \A i \in DOMAIN source : i \in Inside(Head(blocks)) =>
          Head(blocks).offset < i /\ i <= tpos + got
    BY <1>3, <1>6, <1>7, <1>8, <1>12 DEF Inside
  <2>3. /\ blocks' \in Seq(Block) /\ copied' \subseteq Nat
        /\ CopiedIsSame' /\ ListInv'
    BY <1>1, <1>4, <1>5, <1>9, <2>1, <2>2, BlockEnds
  <2>4. TypeOK'
    BY <1>1, <1>2, <1>4, <1>10, <2>1, <2>3 DEF IInv, TypeOK
  <2>5. PositionInv' /\ PartInv'
    BY <2>1 DEF PositionInv, PartInv
  <2> QED
    BY <1>5, <1>11, <2>3, <2>4, <2>5 DEF IInv
<1>13. CASE got # 0
  <2>1. pc' = "chunk" /\ blocks' = blocks /\ copied' = copied
    BY <1>1, <1>13 DEF historyVars
  <2>2. TypeOK'
    BY <1>1, <1>2, <1>4, <1>10, <2>1 DEF IInv, TypeOK
  <2>3. CopiedIsSame'
    BY <1>1, <1>4, <1>5, <2>1 DEF IInv, CopiedIsSame
  <2>4. PositionInv'
    BY <1>1, <1>3, <1>4, <1>6, <1>7, <2>1 DEF PositionInv
  <2>5. PartInv'
    BY <1>1, <1>9, <2>1 DEF PartInv
  <2>6. ListInv'
    BY <1>1, <1>2, <2>1 DEF IInv, ListInv, Waiting
  <2> QED
    BY <1>5, <1>11, <2>2, <2>3, <2>4, <2>5, <2>6 DEF IInv
<1> QED
  BY <1>12, <1>13

LEMMA WriteFailsStep == ASSUME IInv, WriteFails PROVE IInv'
<1>1. /\ UNCHANGED <<source, spos, tpos, copyVars, historyVars>>
      /\ pc = "write" /\ pc' = "end" /\ verdict' = "error"
      /\ UNCHANGED target \/ \E n \in 1..got : Overwrite(n)
  BY DEF WriteFails, Finish
<1>2. target' \in Devices /\ CopyKeepsToBlocks' /\ CopiedIsSame'
  <2>1. CASE UNCHANGED target
    BY <1>1, <2>1 DEF IInv, TypeOK, CopyKeepsToBlocks, CopiedIsSame, historyVars
  <2>2. ASSUME NEW n \in 1..got, Overwrite(n)
        PROVE  target' \in Devices /\ CopyKeepsToBlocks' /\ CopiedIsSame'
    <3>1. n \in 0..got
      BY DEF IInv, TypeOK
    <3>2. target' \in Devices /\ DOMAIN target' = DOMAIN target
      BY <1>1, <2>2, <3>1, OverwriteIs DEF IInv
    <3>3. /\ CopyKeepsToBlocks'
          /\ \A i \in DOMAIN source \cap DOMAIN target' :
                target[i] = source[i] => target'[i] = source[i]
      BY <1>1, <2>2, <3>1, OverwriteKeeps DEF historyVars
    <3>4. CopiedIsSame'
      BY <1>1, <3>2, <3>3 DEF IInv, CopiedIsSame, historyVars
    <3> QED
      BY <3>2, <3>3, <3>4
  <2> QED
    BY <1>1, <2>1, <2>2
<1>3. disturbed' \in BOOLEAN
  BY <1>1 DEF IInv, TypeOK, historyVars
<1> QED
  BY <1>1, <1>2, <1>3, EndStep DEF historyVars

\* A device fails elsewhere, or the enumeration.
LEMMA FailStep ==
  ASSUME IInv, SeekFails \/ ReadFails \/ IteratorFails \/ CompareFails
  PROVE  IInv'
<1>1. /\ UNCHANGED <<deviceVars, copyVars, original, listed, copied, records>>
      /\ pc' = "end"
      /\ \/ verdict' = "error"
         \/ verdict' = "mismatch" /\ disturbed' = TRUE /\ pc \in {"idle", "compare"}
  BY DEF SeekFails, ReadFails, IteratorFails, CompareFails, Finish, historyVars
<1>2. disturbed' \in BOOLEAN
  BY DEF SeekFails, ReadFails, IteratorFails, CompareFails, historyVars, IInv, TypeOK
<1>3. target' \in Devices /\ CopyKeepsToBlocks' /\ CopiedIsSame'
  BY <1>1 DEF IInv, TypeOK, CopyKeepsToBlocks, CopiedIsSame, deviceVars
<1> QED
  BY <1>1, <1>2, <1>3, EndStep DEF deviceVars

LEMMA DoneStep == ASSUME IInv, IteratorDone PROVE IInv'
<1> USE VerifierAssumption
<1>1. /\ pc = "idle" /\ UNCHANGED <<source, target, copyVars, historyVars>>
      /\ \/ pc' = "compare" /\ spos' = 0 /\ tpos' = 0 /\ UNCHANGED verdict
         \/ Finish("error") /\ UNCHANGED <<spos, tpos>>
  BY DEF IteratorDone
<1>2. CASE pc' = "compare" /\ spos' = 0 /\ tpos' = 0 /\ UNCHANGED verdict
  <2>1. TypeOK'
    BY <1>1, <1>2 DEF IInv, TypeOK, copyVars, historyVars
  <2>2. CopyKeepsToBlocks' /\ CopiedIsSame'
    BY <1>1 DEF IInv, CopyKeepsToBlocks, CopiedIsSame, historyVars
  <2>3. PositionInv' /\ PartInv' /\ ListInv'
    BY <1>1, <1>2 DEF IInv, PositionInv, PartInv, ListInv, Waiting, copyVars, historyVars
  <2>4. Len(source) \in Nat /\ Len(target) \in Nat
    BY DeviceIsSeq DEF IInv, TypeOK
  <2>5. CompareInv'
    BY <1>1, <1>2, <2>4 DEF IInv, CompareInv
  <2> QED
    BY <2>1, <2>2, <2>3, <2>5 DEF IInv
<1>3. CASE Finish("error") /\ UNCHANGED <<spos, tpos>>
  <2>1. target' \in Devices /\ CopyKeepsToBlocks' /\ CopiedIsSame' /\ disturbed' \in BOOLEAN
    BY <1>1 DEF IInv, TypeOK, CopyKeepsToBlocks, CopiedIsSame, historyVars
  <2> QED
    BY <1>1, <1>3, <2>1, EndStep DEF Finish, historyVars
<1> QED
  BY <1>1, <1>2, <1>3

LEMMA CompareStep == ASSUME IInv, CompareChunk PROVE IInv'
<1> USE VerifierAssumption
<1>1. /\ UNCHANGED <<source, target, copyVars, original, listed, copied, records>>
      /\ disturbed' \in BOOLEAN
      /\ pc = "compare" /\ pc' \in {"compare", "end"}
      /\ verdict' \in {verdict, "match", "mismatch"}
  BY DEF CompareChunk, Finish
<1>2. CompareInv'
  BY CompareTurn
<1>3. spos' \in 0..MaxSize /\ tpos' \in 0..MaxSize
  <2>1. CASE pc' = "compare"
    <3>1. Len(source') \in 0..MaxSize
      BY <1>1, DeviceIsSeq DEF IInv, TypeOK
    <3>2. spos' = tpos' /\ spos' <= Len(source') /\ spos' <= Len(target')
      BY <1>2, <2>1 DEF CompareInv
    <3>3. spos' \in Nat
      <4>1. ASSUME NEW n \in ReadReturns(source, spos, ChunkSize) PROVE n \in Nat
        BY <4>1, ReadBounds DEF IInv, TypeOK
      <4> QED
        BY <4>1 DEF CompareChunk, IInv, TypeOK
    <3> QED
      BY <3>1, <3>2, <3>3
  <2>2. CASE pc' = "end"
    <3>1. UNCHANGED <<spos, tpos>>
      BY <1>1, <2>2 DEF CompareChunk, Finish
    <3> QED
      BY <3>1 DEF IInv, TypeOK
  <2> QED
    BY <1>1, <2>1, <2>2
<1>4. TypeOK'
  BY <1>1, <1>3 DEF IInv, TypeOK, copyVars, historyVars
<1>5. CopyKeepsToBlocks' /\ CopiedIsSame'
  BY <1>1 DEF IInv, CopyKeepsToBlocks, CopiedIsSame, historyVars
<1>6. PositionInv' /\ PartInv' /\ ListInv'
  BY <1>1 DEF IInv, PositionInv, PartInv, ListInv, Waiting, copyVars, historyVars
<1> QED
  BY <1>2, <1>4, <1>5, <1>6 DEF IInv

----------------------------------------------------------------------------
(* Theorems.                                                               *)

\* The invariant of the emitter is inductive: what is copied, what waits and
\* where the devices stand, at every point of the loops (emitters.go:92-197).
THEOREM EmitterInvariant == Spec => []IInv
<1>1. IInv /\ [Next]_vars => IInv'
  <2> SUFFICES ASSUME IInv, [Next]_vars PROVE IInv'
    OBVIOUS
  <2>1. ASSUME NEW r \in Record, IteratorRecord(r) PROVE IInv'
    BY <2>1, RecordStep
  <2>2. CASE EmitterStep
    BY <2>2, ReturnStep, SeekStep, ReadStep, CopyEndsStep, WriteStep, WriteFailsStep,
       FailStep, CompareStep DEF EmitterStep
  <2>3. CASE IteratorDone \/ IteratorFails
    BY <2>3, DoneStep, FailStep
  <2>4. CASE Ended \/ UNCHANGED vars
    <3>1. UNCHANGED vars
      BY <2>4 DEF Ended
    <3>2. TypeOK' /\ CopyKeepsToBlocks' /\ CopiedIsSame'
      BY <3>1 DEF IInv, TypeOK, CopyKeepsToBlocks, CopiedIsSame,
                  vars, deviceVars, copyVars, historyVars
    <3>3. PositionInv' /\ PartInv' /\ ListInv' /\ CompareInv'
      BY <3>1 DEF IInv, PositionInv, PartInv, ListInv, Waiting, CompareInv,
                  vars, deviceVars, copyVars, historyVars
    <3> QED
      BY <3>2, <3>3 DEF IInv
  <2> QED
    BY <2>1, <2>2, <2>3, <2>4 DEF Next
<1> QED
  BY InitIInv, <1>1, PTL DEF Spec

\* Every variable of the emitter keeps its type.
THEOREM TypeCorrect == Spec => []TypeOK
BY EmitterInvariant, PTL DEF IInv

\* The loop of SnapshotMetadataIteratorRecord (emitters.go:108-149) changes no
\* position of the target but to what the source holds, and only in a block.
THEOREM KeepsToBlocks == Spec => []CopyKeepsToBlocks
BY EmitterInvariant, PTL DEF IInv

\* A block that this loop has left behind is copied whole.
THEOREM Copied == Spec => []CopiedIsSame
BY EmitterInvariant, PTL DEF IInv

LEMMA SameInterval ==
  ASSUME NEW m \in Nat, NEW n \in Nat, 1..m = 1..n
  PROVE  m = n
<1>1. m <= n
  <2>1. m > 0 => m \in 1..n
    OBVIOUS
  <2> QED
    BY <2>1
<1>2. n <= m
  <2>1. n > 0 => n \in 1..m
    OBVIOUS
  <2> QED
    BY <2>1
<1> QED
  BY <1>1, <1>2

\* The verdict of compareSourceAndTargetBlocks (emitters.go:165-197) is the
\* verdict on the enumeration.
LEMMA VerdictFollows == IInv => VerdictIsRight
<1> SUFFICES ASSUME IInv PROVE VerdictIsRight
  OBVIOUS
<1>1. /\ Len(source) \in Nat /\ DOMAIN source = 1..Len(source)
      /\ Len(target) \in Nat /\ DOMAIN target = 1..Len(target)
      /\ Len(original) \in Nat /\ DOMAIN original = 1..Len(original)
      /\ source \in Devices /\ target \in Devices
  BY DeviceIsSeq DEF IInv, TypeOK
<1>2. Len(target) = Len(original) /\ DOMAIN target = DOMAIN original
  <2>1. 1..Len(target) = 1..Len(original)
    BY <1>1 DEF IInv, CopyKeepsToBlocks
  <2> QED
    BY <1>1, <2>1, SameInterval
<1>3. \A i \in DOMAIN target : target[i] # original[i] =>
        i \in listed /\ i \in DOMAIN source /\ target[i] = source[i]
  BY DEF IInv, CopyKeepsToBlocks
<1>4. ASSUME verdict = "match"
      PROVE  /\ Len(source) = Len(original)
             /\ \A i \in DOMAIN source : source[i] # original[i] => i \in listed
  <2>1. source = target
    BY <1>4 DEF IInv, CompareInv
  <2> QED
    BY <1>1, <1>2, <1>3, <2>1
<1>5. ASSUME verdict = "mismatch", ~disturbed,
             Len(source) = Len(original)
      PROVE  \E i \in DOMAIN source : source[i] # original[i] /\ i \notin listed
  <2>1. source # target /\ listed \subseteq copied
    BY <1>5 DEF IInv, CompareInv
  <2>2. PICK i \in 1..Len(source) : source[i] # target[i]
    <3>1. Len(source) = Len(target)
      BY <1>2, <1>5
    <3>2. Len(source) \in Nat
      BY <1>1
    <3> QED
      BY <1>1, <2>1, <3>1, <3>2, ComparedWhole
  <2>3. i \in DOMAIN source /\ i \in DOMAIN target
    BY <1>1, <1>2, <1>5, <2>2
  <2>4. i \notin listed
    BY <2>1, <2>2, <2>3 DEF IInv, CopiedIsSame
  <2>5. source[i] # original[i]
    BY <1>3, <2>2, <2>3, <2>4
  <2> QED
    BY <2>3, <2>4, <2>5
<1> QED
  BY <1>4, <1>5 DEF VerdictIsRight

\* Success means that the enumeration listed every difference of the devices,
\* a mismatch that it did not or that the devices have different lengths.
THEOREM Verdict == Spec => []VerdictIsRight
BY EmitterInvariant, VerdictFollows, PTL

----------------------------------------------------------------------------
(* The loops.                                                              *)

\* A step that leaves the block in hand comes nearer to its end, and one that is
\* through with it has one block less.
LEMMA CopyComesNearer ==
  ASSUME IInv, blocks # <<>>,
         Seek \/ SeekFails \/ ReadChunk \/ ReadFails \/ CopyEnds \/ WriteChunk \/ WriteFails,
         pc \in {"block", "chunk", "write"}
  PROVE  Nearer
<1>1. PICK size \in Nat : size = Head(blocks).size
  BY HeadFacts, BlockIsNat DEF IInv
<1>2. /\ blocks \in Seq(Block) /\ written \in Nat /\ got \in Nat
      /\ pc \in {"chunk", "write"} => written <= size
      /\ pc = "write" => written + got <= size
  BY <1>1, VerifierAssumption DEF IInv, TypeOK, PositionInv
<1>3. Len(Tail(blocks)) < Len(blocks) /\ Len(blocks) \in Nat
  BY <1>2, HeadTailProperties, LenProperties
<1>4. /\ pc = "block" => TurnsLeft = 2 * size + 3
      /\ pc = "chunk" => TurnsLeft = 2 * (size - written) + 2
      /\ pc = "write" => TurnsLeft = 2 * (size - written) + 1
  BY <1>1 DEF TurnsLeft
<1>5. TurnsLeft \in Nat \ {0}
  BY <1>2, <1>4
<1>6. pc' = "end" => TurnsLeft' = 0
  BY DEF TurnsLeft
<1>7. CASE SeekFails \/ ReadFails \/ WriteFails
  BY <1>3, <1>5, <1>6, <1>7 DEF SeekFails, ReadFails, WriteFails, Finish, copyVars, Nearer
<1>8. CASE Seek
  <2>1. pc = "block" /\ pc' = "chunk" /\ blocks' = blocks /\ written' = 0
    BY <1>8 DEF Seek
  <2>2. TurnsLeft' = 2 * (size - 0) + 2
    BY <1>1, <2>1 DEF TurnsLeft
  <2> QED BY <1>3, <1>4, <1>5, <2>1, <2>2 DEF Nearer
<1>9. CASE ReadChunk
  <2>1. pc = "chunk" /\ pc' = "write" /\ blocks' = blocks /\ written' = written
    BY <1>9 DEF ReadChunk
  <2>2. TurnsLeft' = 2 * (size - written) + 1
    BY <1>1, <2>1 DEF TurnsLeft
  <2> QED BY <1>2, <1>3, <1>4, <1>5, <2>1, <2>2 DEF Nearer
<1>10. CASE CopyEnds
  BY <1>3, <1>5, <1>10 DEF CopyEnds, BlockIsCopied, Nearer
<1>11. CASE WriteChunk
  <2>1. CASE got = 0
    BY <1>3, <1>5, <1>11, <2>1 DEF WriteChunk, BlockIsCopied, Nearer
  <2>2. CASE got # 0
    <3>1. pc = "write" /\ pc' = "chunk" /\ blocks' = blocks /\ written' = written + got
      BY <1>11, <2>2 DEF WriteChunk
    <3>2. TurnsLeft' = 2 * (size - (written + got)) + 2
      BY <1>1, <3>1 DEF TurnsLeft
    <3> QED BY <1>2, <1>3, <1>4, <1>5, <2>2, <3>1, <3>2 DEF Nearer
  <2> QED BY <2>1, <2>2
<1> QED BY <1>7, <1>8, <1>9, <1>10, <1>11

LEMMA ComparisonComesNearer ==
  ASSUME IInv, CompareChunk \/ CompareFails
  PROVE  Nearer
<1>1. pc = "compare" /\ blocks' = blocks
  BY DEF CompareChunk, CompareFails, copyVars
<1>2. /\ source \in Devices /\ Len(source) \in Nat /\ spos \in Nat /\ spos <= Len(source)
      /\ Len(blocks) \in Nat
  BY <1>1, DeviceIsSeq, VerifierAssumption DEF IInv, TypeOK, CompareInv
<1>3. PICK left \in Nat : left = Len(source) - spos
  BY <1>2
<1>4. TurnsLeft = left + 1
  BY <1>1, <1>3 DEF TurnsLeft
<1>5. CASE pc' = "end"
  <2>1. TurnsLeft' = 0
    BY <1>5 DEF TurnsLeft
  <2> QED BY <1>1, <1>2, <1>4, <2>1 DEF Nearer
<1>6. CASE pc' # "end"
  <2>1. PICK n \in ReadReturns(source, spos, ChunkSize) :
          n > 0 /\ spos' = spos + n /\ pc' = "compare" /\ source' = source
    BY <1>1, <1>6 DEF CompareChunk, CompareFails, Finish
  <2>2. n \in Nat /\ spos + n <= Len(source)
    BY <1>2, <2>1, ReadBounds, VerifierAssumption
  <2>3. TurnsLeft' = (Len(source) - (spos + n)) + 1
    BY <2>1 DEF TurnsLeft
  <2>4. TurnsLeft' \in 0..((left + 1) - 1)
    BY <1>2, <1>3, <2>1, <2>2, <2>3
  <2> QED BY <1>1, <1>2, <1>4, <2>4 DEF Nearer
<1> QED BY <1>5, <1>6

\* The loops over blocks and chunks (emitters.go:123-155) and over both devices
\* (emitters.go:175-197) cannot turn for ever: a block of n bytes takes at most
\* 2n + 3 steps, and the comparison one more than the source has bytes.
THEOREM LoopsEnd == Spec => LoopsComeToAnEnd
<1>1. IInv /\ [Next]_vars => [EmitterStep => Nearer]_vars
  <2> SUFFICES ASSUME IInv, EmitterStep PROVE Nearer
    OBVIOUS
  <2>1. CASE RecordReturns
    <3>1. pc = "block" /\ blocks = <<>> /\ blocks' = blocks /\ pc' = "idle"
      BY <2>1 DEF RecordReturns, copyVars
    <3>2. TurnsLeft = 1 /\ TurnsLeft' = 0
      BY <3>1 DEF TurnsLeft
    <3> QED BY <3>1, <3>2 DEF Nearer
  <2>2. CASE Seek \/ SeekFails \/ ReadChunk \/ ReadFails \/ CopyEnds \/ WriteChunk \/ WriteFails
    <3>1. pc \in {"block", "chunk", "write"} /\ blocks # <<>>
      BY <2>2 DEF Seek, SeekFails, ReadChunk, ReadFails, CopyEnds, WriteChunk, WriteFails,
         IInv, PositionInv
    <3> QED BY <2>2, <3>1, CopyComesNearer
  <2>3. CASE CompareChunk \/ CompareFails
    BY <2>3, ComparisonComesNearer
  <2> QED BY <2>1, <2>2, <2>3 DEF EmitterStep
<1> QED BY <1>1, EmitterInvariant, PTL DEF Spec, LoopsComeToAnEnd
=============================================================================
