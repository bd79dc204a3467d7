--------------------------- MODULE VerifierEmitter ---------------------------
(***************************************************************************)
(* The emitter of the verifier tool.  The target device holds the previous *)
(* snapshot, or nothing; the source device holds the snapshot.  Each block *)
(* that the enumeration lists is copied from the source to the target, in  *)
(* chunks, and when the enumeration is complete the devices are compared:  *)
(* they are equal if the enumeration listed every block that differs.      *)
(*                                                                         *)
(* A device is a sequence of values of a fixed length.  Byte offset p of   *)
(* the code is index p + 1.  The buffer is not kept: it holds what the     *)
(* source, which does not change, has before its file position.            *)
(***************************************************************************)
EXTENDS Naturals, Sequences

CONSTANTS
  Values,      \* what a position of a device may hold
  MaxSize,     \* bound: length of a device
  Offsets,     \* the offsets and the sizes of blocks
  Sizes,
  MaxBlocks,   \* bound: blocks in a record
  MaxRecords,  \* bound: records of an enumeration
  ChunkSize

ASSUME VerifierAssumption ==
  /\ MaxSize \in Nat /\ MaxBlocks \in Nat /\ MaxRecords \in Nat
  /\ Offsets \subseteq Nat /\ Sizes \subseteq Nat
  /\ ChunkSize \in Nat \ {0}

VARIABLES
  source,    \* SourceDevice
  target,    \* TargetDevice
  spos,      \* their file positions
  tpos,
  pc,        \* where the emitter is; "idle": its caller runs
  blocks,    \* the blocks of the record that are not yet copied
  written,   \* of the first of them
  got,       \* what the last read of the source returned
  verdict,   \* of the tool: "none", "match", "mismatch" or "error"
  original,  \* history: what the target held at first
  listed,    \* history: the positions of the blocks handed to the emitter
  copied,    \* history: those of the blocks it is through with
  records,   \* history: the number of records
  disturbed  \* history: while they were compared, a device gave an error, or
             \* less than there was

deviceVars  == <<source, target, spos, tpos>>
copyVars    == <<blocks, written, got>>
historyVars == <<original, listed, copied, records, disturbed>>
vars == <<deviceVars, pc, copyVars, verdict, historyVars>>

Block == [offset : Offsets, size : Sizes]
Inside(b) == (b.offset + 1)..(b.offset + b.size)
Smaller(m, n) == IF m < n THEN m ELSE n

Devices == UNION {[1..n -> Values] : n \in 0..MaxSize}
Record == UNION {[1..n -> Block] : n \in 0..MaxBlocks}

\* os.File.Read for n bytes at position p: 0 only at the end of the device, and
\* otherwise it may be less than there is.
ReadReturns(d, p, n) ==
  IF p >= Len(d) THEN {0} ELSE 1..Smaller(n, Len(d) - p)
ShortRead(d, p, r) == r < Smaller(ChunkSize, Len(d) - p)

Init ==
  /\ source \in Devices /\ target \in Devices /\ original = target
  /\ spos = 0 /\ tpos = 0
  /\ pc = "idle" /\ blocks = <<>> /\ written = 0 /\ got = 0
  /\ verdict = "none"
  /\ listed = {} /\ copied = {} /\ records = 0 /\ disturbed = FALSE

\* An error is returned; the iterator returns it, and so does the tool.
Finish(v) == pc' = "end" /\ verdict' = v

----------------------------------------------------------------------------
(* SnapshotMetadataIteratorRecord.                                         *)

IteratorRecord(r) ==
  /\ pc = "idle" /\ records < MaxRecords
  /\ pc' = "block" /\ blocks' = r /\ records' = records + 1
  /\ listed' = listed \cup UNION {Inside(r[i]) : i \in DOMAIN r}
  /\ UNCHANGED <<deviceVars, written, got, verdict, original, copied, disturbed>>

RecordReturns ==
  /\ pc = "block" /\ blocks = <<>>
  /\ pc' = "idle"
  /\ UNCHANGED <<deviceVars, copyVars, verdict, historyVars>>

\* (Mutant: the count of the previous block is kept.)
SeekKeepsCount ==
  /\ pc = "block" /\ blocks # <<>>
  /\ LET p == Head(blocks).offset IN
     /\ p <= Len(source) /\ p <= Len(target)
     /\ spos' = p /\ tpos' = p
  /\ pc' = "chunk"
  /\ UNCHANGED <<source, target, blocks, written, got, verdict, historyVars>>

\* A block device has no position beyond its end.
Seek ==
  /\ pc = "block" /\ blocks # <<>>
  /\ LET p == Head(blocks).offset IN
     /\ p <= Len(source) /\ p <= Len(target)
     /\ spos' = p /\ tpos' = p
  /\ pc' = "chunk" /\ written' = 0
  /\ UNCHANGED <<source, target, blocks, got, verdict, historyVars>>

SeekFails ==
  /\ pc = "block" /\ blocks # <<>>
  /\ Finish("error")
  /\ UNCHANGED <<deviceVars, copyVars, historyVars>>

BlockIsCopied ==
  /\ pc' = "block"
  /\ blocks' = Tail(blocks)
  /\ copied' = copied \cup Inside(Head(blocks))
  /\ UNCHANGED <<original, listed, records, disturbed>>

\* (Mutant: the buffer is not made smaller for the last chunk.)
ReadFullChunk ==
  /\ pc = "chunk" /\ written < Head(blocks).size
  /\ got' \in ReadReturns(source, spos, ChunkSize)
  /\ spos' = spos + got'
  /\ pc' = "write"
  /\ UNCHANGED <<source, target, tpos, blocks, written, verdict, historyVars>>

ReadChunk ==
  /\ pc = "chunk" /\ written < Head(blocks).size
  /\ got' \in ReadReturns(source, spos, Smaller(ChunkSize, Head(blocks).size - written))
  /\ spos' = spos + got'
  /\ pc' = "write"
  /\ UNCHANGED <<source, target, tpos, blocks, written, verdict, historyVars>>

ReadFails ==
  /\ pc = "chunk" /\ written < Head(blocks).size
  /\ Finish("error")
  /\ UNCHANGED <<deviceVars, copyVars, historyVars>>

CopyEnds ==
  /\ pc = "chunk" /\ written >= Head(blocks).size
  /\ BlockIsCopied
  /\ UNCHANGED <<deviceVars, written, got, verdict>>

\* The first n bytes of the buffer reach the target.
Overwrite(n) ==
  /\ tpos + n <= Len(target)
  /\ target' = [i \in DOMAIN target |->
                  IF i \in (tpos + 1)..(tpos + n) THEN source[(spos - got) + (i - tpos)]
                                                  ELSE target[i]]

\* (Mutant: the source's end of file is not looked at.)
WriteChunkPastEOF ==
  /\ pc = "write"
  /\ Overwrite(got)
  /\ tpos' = tpos + got /\ written' = written + got
  /\ pc' = "chunk"
  /\ UNCHANGED <<source, spos, got, blocks, verdict, historyVars>>

\* The source's end of file ends the block.
WriteChunk ==
  /\ pc = "write"
  /\ Overwrite(got)
  /\ tpos' = tpos + got /\ written' = written + got
  /\ IF got = 0 THEN BlockIsCopied
                ELSE pc' = "chunk" /\ UNCHANGED <<blocks, historyVars>>
  /\ UNCHANGED <<source, spos, got, verdict>>

\* A write that does not fit fails; any other may.
WriteFails ==
  /\ pc = "write"
  /\ UNCHANGED target \/ \E n \in 1..got : Overwrite(n)
  /\ Finish("error")
  /\ UNCHANGED <<source, spos, tpos, copyVars, historyVars>>

----------------------------------------------------------------------------
(* SnapshotMetadataIteratorDone.                                           *)

IteratorDone ==
  /\ pc = "idle"
  /\ \/ pc' = "compare" /\ spos' = 0 /\ tpos' = 0 /\ UNCHANGED verdict
     \/ Finish("error") /\ UNCHANGED <<spos, tpos>>
  /\ UNCHANGED <<source, target, copyVars, historyVars>>

SameChunk(n) == \A i \in 1..n : source[spos + i] = target[tpos + i]

\* (Mutant: the comparison ends with the shorter device.)
CompareShorter ==
  /\ pc = "compare"
  /\ \E n \in ReadReturns(source, spos, ChunkSize),
        m \in ReadReturns(target, tpos, ChunkSize) :
       /\ CASE n = 0 \/ m = 0 -> Finish("match") /\ UNCHANGED <<spos, tpos>>
            [] n > 0 /\ n = m /\ SameChunk(n) ->
                 spos' = spos + n /\ tpos' = tpos + m /\ UNCHANGED <<pc, verdict>>
            [] OTHER -> Finish("mismatch") /\ UNCHANGED <<spos, tpos>>
       /\ disturbed' = (\/ disturbed \/ ShortRead(source, spos, n)
                                    \/ ShortRead(target, tpos, m))
  /\ UNCHANGED <<source, target, copyVars, original, listed, copied, records>>

\* One turn of the loop: both reads return a chunk, or the end of file.
CompareChunk ==
  /\ pc = "compare"
  /\ \E n \in ReadReturns(source, spos, ChunkSize),
        m \in ReadReturns(target, tpos, ChunkSize) :
       /\ CASE n = 0 /\ m = 0 -> Finish("match") /\ UNCHANGED <<spos, tpos>>
            [] n > 0 /\ n = m /\ SameChunk(n) ->
                 spos' = spos + n /\ tpos' = tpos + m /\ UNCHANGED <<pc, verdict>>
            [] OTHER -> Finish("mismatch") /\ UNCHANGED <<spos, tpos>>
       /\ disturbed' = (\/ disturbed \/ ShortRead(source, spos, n)
                                    \/ ShortRead(target, tpos, m))
  /\ UNCHANGED <<source, target, copyVars, original, listed, copied, records>>

\* A read fails.  An end of file of the other device is reported first.
CompareFails ==
  /\ pc = "compare"
  /\ \/ Finish("error")
     \/ (spos >= Len(source) \/ tpos >= Len(target)) /\ Finish("mismatch")
  /\ disturbed' = TRUE
  /\ UNCHANGED <<deviceVars, copyVars, original, listed, copied, records>>

----------------------------------------------------------------------------
\* The enumeration fails between two records: Done is not invoked.
IteratorFails ==
  /\ pc = "idle"
  /\ Finish("error")
  /\ UNCHANGED <<deviceVars, copyVars, historyVars>>

EmitterStep ==
  \/ RecordReturns \/ Seek \/ SeekFails \/ ReadChunk \/ ReadFails \/ CopyEnds
  \/ WriteChunk \/ WriteFails \/ CompareChunk \/ CompareFails

Ended == pc = "end" /\ UNCHANGED vars

Next ==
  \/ \E r \in Record : IteratorRecord(r)
  \/ IteratorDone \/ IteratorFails \/ EmitterStep \/ Ended

Spec == Init /\ [][Next]_vars

----------------------------------------------------------------------------
(* Properties.                                                             *)

Positions == 1..MaxSize

\* Type invariant.
TypeOK ==
  /\ source \in Devices /\ target \in Devices /\ original \in Devices
  /\ spos \in 0..MaxSize /\ tpos \in 0..MaxSize
  /\ pc \in {"idle", "block", "chunk", "write", "compare", "end"}
  /\ blocks \in Seq(Block)
  /\ written \in Nat /\ got \in 0..ChunkSize
  /\ verdict \in {"none", "match", "mismatch", "error"}
  /\ listed \subseteq Nat /\ copied \subseteq Nat
  /\ records \in 0..MaxRecords /\ disturbed \in BOOLEAN

\* The copy keeps to the blocks: whatever the sizes of the blocks, the chunks
\* and the devices, and wherever it is interrupted, a position of the target
\* holds what it held at first or, if it is in a block, what the source holds.
CopyKeepsToBlocks ==
  /\ DOMAIN target = DOMAIN original
  /\ \A i \in DOMAIN target : target[i] # original[i] =>
       /\ i \in listed
       /\ i \in DOMAIN source /\ target[i] = source[i]

\* A block that the emitter is through with is copied: all that both devices
\* have of it is the same.
CopiedIsSame ==
  \A i \in copied : i \in DOMAIN source /\ i \in DOMAIN target => target[i] = source[i]

\* The tool reports success only if the enumeration listed every position at
\* which the devices differed, and a mismatch only if they do differ and not
\* because of a listed block that was not copied (or if a device was disturbed
\* while they were compared: reads of different lengths are a mismatch too).
VerdictIsRight ==
  /\ verdict = "match" =>
       /\ Len(source) = Len(original)
       /\ \A i \in DOMAIN source : source[i] # original[i] => i \in listed
  /\ verdict = "mismatch" /\ ~disturbed =>
       \/ Len(source) # Len(original)
       \/ \E i \in DOMAIN source : source[i] # original[i] /\ i \notin listed

\* What the emitter still has to do at most of its first block, or of the
\* comparison, in reads and writes of a single byte.
TurnsLeft ==
  CASE pc = "block"   -> IF blocks = <<>> THEN 1 ELSE 2 * Head(blocks).size + 3
    [] pc = "chunk"   -> 2 * (Head(blocks).size - written) + 2
    [] pc = "write"   -> 2 * (Head(blocks).size - written) + 1
    [] pc = "compare" -> (Len(source) - spos) + 1
    [] OTHER          -> 0

\* Every turn of the loops comes nearer to their end, whatever the reads return,
\* also in a block that goes beyond the end of the source.
Nearer ==
  /\ TurnsLeft \in Nat \ {0}
  /\ \/ Len(blocks') < Len(blocks)
     \/ Len(blocks') = Len(blocks) /\ TurnsLeft' \in 0..(TurnsLeft - 1)
LoopsComeToAnEnd == [][EmitterStep => Nearer]_vars
=============================================================================
