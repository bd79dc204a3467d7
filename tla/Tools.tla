-------------------------------- MODULE Tools --------------------------------
(***************************************************************************)
(* The command line tools, from the flags to the exit code: the lister     *)
(* with its two emitters, which print an enumeration as a table or as      *)
(* JSON, and the verifier, whose emitter is the module VerifierEmitter.    *)
(*                                                                         *)
(* What the lister enumerates is numbered: the blocks 1..NumBlocks, in the *)
(* order of their offsets, and the starting offset is that of the block    *)
(* `first`.  A lister that failed may be run again, from where its table   *)
(* ends.  A tool handles no signal before NotifyContext, and from then on  *)
(* SIGINT only cancels the context of the enumeration.                     *)
(***************************************************************************)
EXTENDS VerifierEmitter, SequencesExt

CONSTANTS
  NumBlocks,   \* bound: blocks of the enumeration
  MaxResults,  \* the tool's -max-results
  MaxRuns      \* bound: runs of a lister

ASSUME ToolsAssumption == NumBlocks \in Nat /\ MaxResults \in Nat \ {0} /\ MaxRuns \in Nat \ {0}

VARIABLES
  tool,       \* "table", "json" (outputFormat) or "verifier"
  at,         \* where its main goroutine is
  exit,       \* how it ended: "none", a code or "killed"
  interrupt,  \* its context is cancelled
  first,      \* StartingOffset, as a block
  next,       \* the driver's next block
  row,        \* the next block of the table
  out,        \* what JSONEmitter wrote
  rows,       \* what TableEmitter wrote, in all runs
  lost,       \* history: a write to stdout failed
  begin,      \* history: the first block asked of the first run
  runs        \* history: the number of runs

processVars == <<tool, at, exit, interrupt>>
listVars    == <<first, next, row, out, rows, lost, begin, runs>>
toolVars    == <<processVars, listVars>>

Mark(m)    == [mark |-> m, blocks |-> <<>>]
Blocks(bs) == [mark |-> "record", blocks |-> bs]
From(a, b) == [i \in 1..((b + 1) - a) |-> (a + i) - 1]

ToolsInit ==
  /\ Init
  /\ tool \in {"table", "json", "verifier"}
  /\ tool # "verifier" => source = <<>> /\ target = <<>>
  /\ at = "flags" /\ exit = "none" /\ interrupt = FALSE
  /\ first \in 1..(NumBlocks + 1) /\ begin = first
  /\ tool = "verifier" => first = 1
  /\ next = 1 /\ row = 1 /\ out = <<>> /\ rows = <<>>
  /\ lost = FALSE /\ runs = 1

At(l) == exit = "none" /\ at = l

\* One step of main: it goes on, or prints an error and exits.
MainStep(from, to) ==
  /\ At(from)
  /\ \/ at' = to /\ UNCHANGED exit
     \/ exit' = "1" /\ UNCHANGED at
  /\ UNCHANGED <<vars, tool, interrupt, listVars>>

----------------------------------------------------------------------------
(* From the flags to the call.                                             *)

\* -h and -help end with 0, a flag that does not parse with 2, and flags that
\* are missing or wrong with 1.
ParseFlags ==
  /\ At("flags")
  /\ \/ at' = "config" /\ UNCHANGED exit
     \/ exit' \in {"0", "1", "2"} /\ UNCHANGED at
  /\ UNCHANGED <<vars, tool, interrupt, listVars>>
parseFlags         == tool # "verifier" /\ ParseFlags
parseVerifierFlags == tool = "verifier" /\ ParseFlags

buildConfig  == MainStep("config", "clients")
BuildClients == MainStep("clients", IF tool = "verifier" THEN "source" ELSE "call")
OpenSource   == MainStep("source", "target")
OpenTarget   == MainStep("target", "call")

\* The iterator has the arguments, and its request their offset.
newIterator == next' = first /\ row' = first

\* (Mutant: the request is sent without the starting offset.)
RequestWithoutOffset ==
  /\ At("call")
  /\ at' = "enumerate" /\ next' = 1 /\ row' = 1
  /\ UNCHANGED <<vars, tool, exit, interrupt, first, out, rows, lost, begin, runs>>

\* The arguments are valid, the set-up succeeds and the request is sent.
GetSnapshotMetadata ==
  /\ At("call")
  /\ at' = "enumerate" /\ newIterator
  /\ UNCHANGED <<vars, tool, exit, interrupt, first, out, rows, lost, begin, runs>>

CallFails ==
  /\ At("call")
  /\ exit' = "1"
  /\ UNCHANGED <<vars, tool, at, interrupt, listVars>>

----------------------------------------------------------------------------
(* The lister.                                                             *)

Listing(l) == At(l) /\ tool # "verifier" /\ UNCHANGED <<vars, tool, interrupt, first, begin, runs>>

ReceiveRecord ==
  /\ Listing("enumerate")
  /\ next' \in (next + 1)..Smaller(NumBlocks + 1, next + MaxResults)
  /\ at' = "emit"
  /\ UNCHANGED <<exit, row, out, rows, lost>>

\* The error of a write to stdout is not looked at.
Write(stream, what) == stream' = stream \o what /\ UNCHANGED lost
WriteIsLost(stream) == UNCHANGED stream /\ lost' = TRUE

\* SnapshotMetadataIteratorRecord of JSONEmitter: the prefix and the record are
\* one write.
EmitJSON ==
  /\ Listing("emit") /\ tool = "json"
  /\ \/ Write(out, <<Mark(IF row = first THEN "[" ELSE ","), Blocks(From(row, next - 1))>>)
     \/ WriteIsLost(out)
  /\ row' = next /\ at' = "enumerate"
  /\ UNCHANGED <<exit, next, rows>>

\* (Mutant: one row too many.)
EmitRowBeyond ==
  /\ Listing("emit") /\ tool = "table" /\ row <= next
  /\ Write(rows, <<row>>)
  /\ row' = row + 1
  /\ UNCHANGED <<at, exit, next, out>>

\* One row of TableEmitter's record, and its return.
EmitRow ==
  /\ Listing("emit") /\ tool = "table" /\ row < next
  /\ Write(rows, <<row>>) \/ WriteIsLost(rows)
  /\ row' = row + 1
  /\ UNCHANGED <<at, exit, next, out>>

RecordEmitted ==
  /\ Listing("emit") /\ tool = "table" /\ row >= next
  /\ at' = "enumerate"
  /\ UNCHANGED <<exit, next, row, out, rows, lost>>

EnumerationEnds ==
  /\ Listing("enumerate") /\ next = NumBlocks + 1
  /\ at' = "done"
  /\ UNCHANGED <<exit, next, row, out, rows, lost>>

\* (Mutant: Done is invoked whatever the end of the enumeration.)
EnumerationFailsDone ==
  /\ Listing("enumerate")
  /\ at' = "done"
  /\ UNCHANGED <<exit, next, row, out, rows, lost>>

\* The driver, the sidecar or the connection fails, or the context is done.
EnumerationFails ==
  /\ Listing("enumerate")
  /\ exit' = "1"
  /\ UNCHANGED <<at, next, row, out, rows, lost>>

\* SnapshotMetadataIteratorDone, and the exit.
Done ==
  /\ Listing("done")
  /\ \/ tool = "json" /\ Write(out, IF row = first THEN <<Mark("["), Mark("]")>>
                                                   ELSE <<Mark("]")>>)
     \/ tool = "json" /\ WriteIsLost(out)
     \/ tool = "table" /\ UNCHANGED <<out, lost>>
  /\ exit' = "0"
  /\ UNCHANGED <<at, next, row, rows>>

----------------------------------------------------------------------------
(* The verifier: the steps of VerifierEmitter in the call.                 *)

Verifying == At("enumerate") /\ tool = "verifier"

VerifierEmits    == Verifying /\ EmitterStep /\ UNCHANGED toolVars
VerifierReceives == Verifying /\ (IteratorDone \/ \E r \in Record : IteratorRecord(r)) /\ UNCHANGED toolVars
VerifierFails    == Verifying /\ IteratorFails /\ UNCHANGED toolVars

\* (Mutant: a mismatch is not an error.)
VerifierIgnoresMismatch ==
  /\ Verifying /\ pc = "end"
  /\ exit' = (IF verdict = "error" THEN "1" ELSE "0")
  /\ UNCHANGED <<vars, tool, at, interrupt, listVars>>

VerifierReturns ==
  /\ Verifying /\ pc = "end"
  /\ exit' = (IF verdict = "match" THEN "0" ELSE "1")
  /\ UNCHANGED <<vars, tool, at, interrupt, listVars>>

----------------------------------------------------------------------------
(* Signals, and the user.                                                  *)

Interrupt ==
  /\ exit = "none" /\ ~interrupt
  /\ IF at \in {"flags", "config", "clients"}
     THEN exit' = "killed" /\ UNCHANGED interrupt
     ELSE interrupt' = TRUE /\ UNCHANGED exit
  /\ UNCHANGED <<vars, tool, at, listVars>>

\* Any other signal; it leaves the verifier's devices as they are.
Kill ==
  /\ exit = "none" /\ tool # "verifier"
  /\ exit' = "killed"
  /\ UNCHANGED <<vars, tool, at, interrupt, listVars>>

\* The lister is run again, from behind the last row of the table.
Resume ==
  /\ tool = "table" /\ exit \in {"1", "2", "killed"} /\ runs < MaxRuns
  /\ runs' = runs + 1
  /\ first' = IF rows = <<>> THEN begin ELSE Last(rows) + 1
  /\ at' = "flags" /\ exit' = "none" /\ interrupt' = FALSE
  /\ UNCHANGED <<vars, tool, next, row, out, rows, lost, begin>>

----------------------------------------------------------------------------

\* (Mutant: the enumeration is given another context.)
ContextNotPassed == FALSE

\* A request that waits ends when its context is done.
Cancelled == interrupt /\ (CallFails \/ EnumerationFails \/ VerifierFails)

\* What the process does by itself.
Local ==
  \/ parseFlags \/ parseVerifierFlags \/ buildConfig \/ BuildClients \/ OpenSource \/ OpenTarget
  \/ EmitJSON \/ EmitRow \/ RecordEmitted \/ Done \/ VerifierEmits \/ VerifierReturns

Exited == exit # "none" /\ UNCHANGED <<vars, toolVars>>

ToolsNext ==
  \/ Local \/ GetSnapshotMetadata \/ CallFails
  \/ ReceiveRecord \/ EnumerationEnds \/ EnumerationFails
  \/ VerifierReceives \/ VerifierFails
  \/ Interrupt \/ Kill \/ Resume \/ Exited

ToolsSpec == ToolsInit /\ [][ToolsNext]_<<vars, toolVars>>

\* The process runs, its devices and stdout answer, and a request whose context
\* is done ends.  Nothing is assumed of the network and of the driver.
ToolsFairSpec ==
  /\ ToolsSpec
  /\ WF_<<vars, toolVars>>(Local)
  /\ WF_<<vars, toolVars>>(Cancelled)

----------------------------------------------------------------------------
(* Properties.                                                             *)

\* Type invariant.  The table never runs ahead of what was received.
ToolTypes ==
  /\ tool \in {"table", "json", "verifier"}
  /\ at \in {"flags", "config", "clients", "source", "target", "call",
             "enumerate", "emit", "done"}
  /\ exit \in {"none", "0", "1", "2", "killed"}
  /\ interrupt \in BOOLEAN /\ lost \in BOOLEAN
  /\ {first, begin, next, row} \subseteq 1..(NumBlocks + 1)
  /\ row <= next \/ at \notin {"enumerate", "emit", "done"}
  /\ \A i \in DOMAIN rows : rows[i] \in 1..NumBlocks
  /\ runs \in 1..MaxRuns
ToolsTypeOK == TypeOK /\ ToolTypes

\* What a parser of JSON takes: a list, its records separated by commas.
IsList(s) ==
  /\ Len(s) = 2 \/ (Len(s) > 2 /\ Len(s) % 2 = 1)
  /\ s[1] = Mark("[") /\ s[Len(s)] = Mark("]")
  /\ \A i \in 2..(Len(s) - 1) : s[i].mark = IF i % 2 = 0 THEN "record" ELSE ","
Listed(s) == FlattenSeq([i \in DOMAIN s |-> s[i].blocks])

\* Who reads the lister's JSON without its exit code is not misled: if stdout
\* took what was written, an output that parses as a list holds every block from
\* the starting offset on, once and in order, however the tool ended.
ParsedIsWhole ==
  tool = "json" /\ ~lost /\ IsList(out) => Listed(out) = From(begin, NumBlocks)

\* An exit code of 0 is kept for success: the JSON is a whole list, the table
\* has all its rows, the verifier's devices hold the same (unless help was asked
\* for, or stdout lost what was written, which no emitter notices).
ExitCodeIsHonest ==
  exit = "0" /\ at # "flags" /\ ~lost =>
    CASE tool = "json"     -> IsList(out) /\ Listed(out) = From(begin, NumBlocks)
      [] tool = "table"    -> rows = From(begin, NumBlocks)
      [] tool = "verifier" -> source = target /\ DOMAIN source = DOMAIN original

\* A table that is continued with -starting-offset, after any failures and
\* kills, has no gap and no row twice.
ResumeLosesNothing ==
  ~lost => rows = From(begin, (begin + Len(rows)) - 1)

\* The emitter comes back to its caller, also from a block that goes beyond the
\* end of the source.
EmitterReturns == (pc \notin {"idle", "end"}) ~> (pc \in {"idle", "end"})

\* A tool that is interrupted ends, whatever the network and the driver do.
InterruptEnds == interrupt ~> exit # "none"
=============================================================================
