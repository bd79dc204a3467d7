---------------------------- MODULE Tools_proofs ----------------------------
(***************************************************************************)
(* Proofs about the command line tools: what the lister prints, also when  *)
(* it is resumed, and what the exit codes say.  What the verifier does to  *)
(* its devices is what VerifierEmitter_proofs proves of the emitter.       *)
(***************************************************************************)
EXTENDS Tools, VerifierEmitter_proofs, WellFoundedInduction

----------------------------------------------------------------------------
(* The inductive invariant.                                                *)

InCall == at \in {"enumerate", "emit", "done"}

\* How far the enumeration and the emitter are.
RowInv ==
  /\ rows \in Seq(1..NumBlocks)
  /\ at \in {"enumerate", "done"} => row = next
  /\ at = "emit" => tool # "verifier" /\ (tool = "json" => row < next)
  /\ at = "done" => tool # "verifier" /\ next = NumBlocks + 1
  /\ InCall => first <= row

\* Only a tool that is through exits with 0, or one that was asked for help.
ExitInv ==
  exit = "0" => \/ at \in {"flags", "done"}
                \/ tool = "verifier" /\ at = "enumerate" /\ verdict = "match"

\* The table has the rows from the first run's first block on, and a run
\* starts or goes on where it ends.
TableInv ==
  /\ tool # "table" => rows = <<>>
  /\ tool = "table" /\ ~lost =>
       /\ rows = From(begin, (begin + Len(rows)) - 1)
       /\ IF InCall THEN row = begin + Len(rows) ELSE first = begin + Len(rows)

\* The JSON is open until Done: the records with what comes before each of them.
Piece == [mark : {"[", ",", "]", "record"}, blocks : Seq(Nat)]
IsOpen(s) ==
  /\ Len(s) % 2 = 0
  /\ \A i \in 1..Len(s) : IF i % 2 = 0 THEN s[i].mark = "record"
                                       ELSE s[i] = Mark(IF i = 1 THEN "[" ELSE ",")
Open ==
  /\ row = first <=> out = <<>>
  /\ IsOpen(out)
  /\ Listed(out) = From(begin, row - 1)
JSONInv ==
  tool = "json" =>
    /\ out \in Seq(Piece)
    /\ first = begin
    /\ ~lost => IF ~InCall THEN out = <<>>
                ELSE IF at = "done" /\ exit = "0"
                THEN IsList(out) /\ Listed(out) = From(begin, NumBlocks)
                ELSE Open

ToolsIInv == ToolTypes /\ RowInv /\ ExitInv /\ TableInv /\ JSONInv

----------------------------------------------------------------------------
(* The numbers a..b, and sequences of sequences.                           *)

LEMMA FromIs ==
  ASSUME NEW a \in Nat, NEW b \in Nat, a <= b + 1
  PROVE  /\ From(a, b) \in Seq(Nat) /\ Len(From(a, b)) = (b + 1) - a
         /\ \A i \in 1..((b + 1) - a) : From(a, b)[i] = (a + i) - 1
<1> DEFINE n == (b + 1) - a
<1>1. n \in Nat
  OBVIOUS
<1>2. From(a, b) = [i \in 1..n |-> (a + i) - 1] /\ \A i \in 1..n : (a + i) - 1 \in Nat
  BY DEF From
<1> HIDE DEF n
<1>3. From(a, b) \in [1..n -> Nat] /\ \A i \in 1..n : From(a, b)[i] = (a + i) - 1
  BY <1>2
<1>4. From(a, b) \in Seq(Nat) /\ Len(From(a, b)) = n
  BY <1>1, <1>3, SeqDef, LenProperties
<1> QED BY <1>3, <1>4 DEF n

LEMMA FromJoins ==
  ASSUME NEW a \in Nat, NEW b \in Nat, NEW c \in Nat, a <= b + 1, b <= c
  PROVE  From(a, b) \o From(b + 1, c) = From(a, c)
<1>0. PICK f, g, h : f = From(a, b) /\ g = From(b + 1, c) /\ h = From(a, c)
  OBVIOUS
<1>1. /\ f \in Seq(Nat) /\ Len(f) = (b + 1) - a
      /\ \A i \in 1..((b + 1) - a) : f[i] = (a + i) - 1
  BY <1>0, FromIs
<1>2. /\ g \in Seq(Nat) /\ Len(g) = (c + 1) - (b + 1)
      /\ \A i \in 1..((c + 1) - (b + 1)) : g[i] = ((b + 1) + i) - 1
  BY <1>0, b + 1 \in Nat, b + 1 <= c + 1, FromIs
<1>3. /\ h \in Seq(Nat) /\ Len(h) = (c + 1) - a
      /\ \A i \in 1..((c + 1) - a) : h[i] = (a + i) - 1
  BY <1>0, a <= c + 1, FromIs
<1>4. f \o g \in Seq(Nat) /\ Len(f \o g) = Len(f) + Len(g)
      /\ \A i \in 1..(Len(f) + Len(g)) : (f \o g)[i] = IF i <= Len(f) THEN f[i] ELSE g[i - Len(f)]
  BY <1>1, <1>2, ConcatProperties
<1>5. Len(f \o g) = Len(h)
  BY <1>1, <1>2, <1>3, <1>4
<1>6. ASSUME NEW i \in 1..Len(h) PROVE (f \o g)[i] = h[i]
  <2>1. CASE i <= Len(f)
    <3>1. i \in 1..((b + 1) - a) /\ i \in 1..((c + 1) - a) /\ i \in 1..(Len(f) + Len(g))
      BY <1>1, <1>2, <1>3, <2>1
    <3>2. (f \o g)[i] = f[i]
      BY <1>4, <2>1, <3>1
    <3>3. f[i] = (a + i) - 1
      BY <1>1, <3>1
    <3>4. h[i] = (a + i) - 1
      BY <1>3, <3>1
    <3> QED BY <3>2, <3>3, <3>4
  <2>2. CASE i > Len(f)
    <3>1. PICK j \in Nat : j = i - Len(f)
      BY <1>1, <1>3, <2>2
    <3>2. i \in Nat /\ j \in 1..((c + 1) - (b + 1)) /\ a + i = (b + 1) + j
      BY <1>1, <1>3, <2>2, <3>1
    <3>3. (f \o g)[i] = g[j]
      BY <1>1, <1>2, <1>3, <1>4, <2>2, <3>1
    <3>4. g[j] = ((b + 1) + j) - 1
      BY <1>2, <3>2
    <3>5. h[i] = (a + i) - 1
      BY <1>3
    <3> QED BY <3>2, <3>3, <3>4, <3>5
  <2>3. i \in Nat /\ Len(f) \in Nat
    BY <1>1, <1>3
  <2>4. i <= Len(f) \/ i > Len(f)
    BY <2>3
  <2> QED BY <2>1, <2>2, <2>4
<1>7. f \o g = h
  BY <1>3, <1>4, <1>5, <1>6, SeqEqual
<1> QED BY <1>0, <1>7

LEMMA Least ==
  ASSUME NEW T, T \subseteq Nat, T # {}
  PROVE  \E m \in T : \A k \in T : m <= k
<1>1. PICK m \in T : \A k \in T : <<k, m>> \notin OpToRel(<, Nat)
  BY NatLessThanWellFounded, WFMin
<1>2. \A k \in T : ~(k < m)
  BY <1>1, Zenon DEF OpToRel
<1> QED BY <1>2

\* What FlattenSeq chooses: the sequences up to the i-th one after the other.
Flatten(s, n, g) == g = [i \in 1..n |-> IF i = 1 THEN s[i] ELSE g[i - 1] \o s[i]]

LEMMA FlattenValue ==
  ASSUME NEW s, NEW n \in Nat, NEW g, Flatten(s, n, g)
  PROVE  /\ 1 \in 1..n => g[1] = s[1]
         /\ \A i \in 1..n : i # 1 => g[i] = g[i - 1] \o s[i]
BY DEF Flatten

\* The induction over the length is that of a smallest counterexample.
LEMMA FlattenExists ==
  ASSUME NEW s, NEW n \in Nat
  PROVE  \E g : Flatten(s, n, g)
<1> DEFINE T == {k \in Nat : ~\E g : Flatten(s, k, g)}
<1>1. ASSUME T # {} PROVE FALSE
  <2>1. PICK m \in T : \A k \in T : m <= k
    BY <1>1, Least
  <2>2. CASE m = 0
    <3>1. Flatten(s, 0, [i \in 1..0 |-> s[i]])
      BY DEF Flatten
    <3> QED BY <2>1, <2>2, <3>1
  <2>3. CASE m # 0
    <3>1. m - 1 \in Nat /\ m - 1 \notin T
      BY <2>1, <2>3
    <3>2. PICK g : Flatten(s, m - 1, g)
      BY <3>1
    <3> DEFINE h == [i \in 1..m |-> IF i < m THEN g[i]
                                    ELSE IF i = 1 THEN s[i] ELSE g[i - 1] \o s[i]]
    <3>3. ASSUME NEW i \in 1..m
          PROVE  h[i] = IF i = 1 THEN s[i] ELSE h[i - 1] \o s[i]
      <4>1. CASE i < m
        <5>1. i \in 1..(m - 1)
          BY <4>1, <2>1
        <5>2. g[i] = IF i = 1 THEN s[i] ELSE g[i - 1] \o s[i]
          BY <3>2, <5>1 DEF Flatten
        <5>3. h[i] = g[i] /\ (i # 1 => h[i - 1] = g[i - 1])
          BY <4>1, <2>1
        <5> QED BY <5>2, <5>3
      <4>2. CASE i = m
        BY <4>2, <2>1
      <4> QED BY <4>1, <4>2, <2>1
    <3>4. Flatten(s, m, h)
      <4> DEFINE e == [i \in 1..m |-> IF i = 1 THEN s[i] ELSE h[i - 1] \o s[i]]
      <4>1. \A i \in 1..m : h[i] = e[i]
        BY <3>3
      <4>2. h = e
        BY <4>1
      <4> QED BY <4>2 DEF Flatten
    <3> QED BY <2>1, <3>4
  <2> QED BY <2>2, <2>3
<1> QED BY <1>1

LEMMA FlattenSeqIs ==
  ASSUME NEW s, NEW n \in Nat \ {0}, Len(s) = n
  PROVE  \E g : Flatten(s, n, g) /\ FlattenSeq(s) = g[n]
<1> DEFINE h == CHOOSE g : g = [i \in 1..Len(s) |-> IF i = 1 THEN s[i] ELSE g[i - 1] \o s[i]]
<1>1. Flatten(s, n, h)
  BY FlattenExists DEF Flatten
<1>2. FlattenSeq(s) = h[Len(s)]
  BY DEF FlattenSeq
<1> QED BY <1>1, <1>2

\* It depends on those sequences only.
Agree(s, t, n) == \A i \in 1..n : s[i] = t[i]

LEMMA FlattenAgrees ==
  ASSUME NEW s, NEW t, NEW m \in Nat, NEW n \in Nat, m <= n, Agree(s, t, m),
         NEW g, NEW h, Flatten(s, m, g), Flatten(t, n, h)
  PROVE  Agree(g, h, m)
<1> DEFINE T == {i \in 1..m : g[i] # h[i]}
<1>1. ASSUME T # {} PROVE FALSE
  <2>1. T \subseteq Nat
    OBVIOUS
  <2>2. PICK k \in Nat : k \in T /\ \A j \in T : k <= j
    BY <1>1, <2>1, Least
  <2>3. k \in 1..m /\ k \in 1..n /\ g[k] # h[k] /\ s[k] = t[k]
    BY <2>2 DEF Agree
  <2>4. k # 1 => g[k - 1] = h[k - 1]
    BY <2>2
  <2>5. k = 1 => g[k] = h[k]
    <3>1. 1 \in 1..m => g[1] = s[1]
      BY DEF Flatten
    <3>2. 1 \in 1..n => h[1] = t[1]
      BY DEF Flatten
    <3> QED BY <2>3, <3>1, <3>2
  <2>6. k # 1 => g[k] = g[k - 1] \o s[k]
    BY <2>3, FlattenValue
  <2>7. k # 1 => h[k] = h[k - 1] \o t[k]
    BY <2>3, FlattenValue
  <2>8. k # 1 => g[k] = h[k]
    BY <2>3, <2>4, <2>6, <2>7
  <2> QED BY <2>3, <2>5, <2>8
<1> QED BY <1>1 DEF Agree

LEMMA FlattenAppend ==
  ASSUME NEW E, NEW s \in Seq(Seq(E)), NEW t \in Seq(E)
  PROVE  FlattenSeq(Append(s, t)) = FlattenSeq(s) \o t
<1>1. PICK n \in Nat : n = Len(s)
  OBVIOUS
<1>2. PICK k \in Nat : k = n + 1
  OBVIOUS
<1>3. PICK u : u = Append(s, t)
  OBVIOUS
<1>4. Len(u) = k /\ u[k] = t /\ \A i \in 1..n : s[i] = u[i]
  BY <1>1, <1>2, <1>3, AppendProperties
<1>5. PICK h : Flatten(u, k, h) /\ FlattenSeq(u) = h[k]
  BY <1>2, <1>4, k \in Nat \ {0}, FlattenSeqIs
<1>6. CASE n = 0
  <2>1. s = <<>> /\ FlattenSeq(s) = <<>>
    BY <1>1, <1>6, EmptySeq DEF FlattenSeq
  <2>2. h[k] = t
    <3>1. 1 \in 1..k => h[1] = u[1]
      BY <1>5 DEF Flatten
    <3>2. k = 1
      BY <1>2, <1>6
    <3> QED BY <1>4, <3>1, <3>2
  <2> QED BY <1>3, <1>5, <2>1, <2>2
<1>7. CASE n # 0
  <2>1. PICK g : Flatten(s, n, g) /\ FlattenSeq(s) = g[n]
    BY <1>1, <1>7, n \in Nat \ {0}, FlattenSeqIs
  <2>2. g[n] = h[n]
    <3>1. n <= k /\ n \in 1..n
      BY <1>2, <1>7
    <3>2. Agree(s, u, n)
      BY <1>4 DEF Agree
    <3>3. Agree(g, h, n)
      BY <1>5, <2>1, <3>1, <3>2, FlattenAgrees, Zenon
    <3> QED BY <3>1, <3>3 DEF Agree
  <2>3. k \in 1..k /\ k # 1 /\ k - 1 = n
    BY <1>2, <1>7
  <2>4. h[k] = h[k - 1] \o u[k]
    BY <1>5, <2>3, FlattenValue
  <2> QED BY <1>3, <1>4, <1>5, <2>1, <2>2, <2>3, <2>4
<1> QED BY <1>6, <1>7

\* What was listed goes on with what is written.
LEMMA ListedAppend ==
  ASSUME NEW s \in Seq(Piece), NEW p \in Piece
  PROVE  Listed(Append(s, p)) = Listed(s) \o p.blocks
<1>1. PICK n \in Nat : n = Len(s)
  OBVIOUS
<1>2. PICK b : b = [i \in 1..n |-> s[i].blocks]
  OBVIOUS
<1>3. \A i \in 1..n : b[i] = s[i].blocks /\ s[i].blocks \in Seq(Nat)
  <2>1. \A q \in Piece : q.blocks \in Seq(Nat)
    BY DEF Piece
  <2>2. \A i \in 1..n : s[i] \in Piece
    BY <1>1
  <2> QED BY <1>2, <2>1, <2>2
<1>4. b \in [1..n -> Seq(Nat)]
  BY <1>2, <1>3
<1>5. b \in Seq(Seq(Nat)) /\ Len(b) = n
  BY <1>4, SeqDef, LenProperties
<1>6. p.blocks \in Seq(Nat)
  BY DEF Piece
<1>7. PICK t : t = Append(s, p)
  OBVIOUS
<1>8. /\ DOMAIN t = 1..(n + 1) /\ t[n + 1] = p
      /\ \A i \in 1..n : t[i] = s[i]
  BY <1>1, <1>7, AppendProperties
<1>9. [i \in DOMAIN t |-> t[i].blocks] = Append(b, p.blocks)
  <2>1. PICK c : c = [i \in 1..(n + 1) |-> t[i].blocks]
    OBVIOUS
  <2>2. \A i \in 1..(n + 1) : c[i] = t[i].blocks /\ t[i].blocks \in Seq(Nat)
    BY <1>3, <1>6, <1>8, <2>1
  <2>3. c \in [1..(n + 1) -> Seq(Nat)]
    BY <2>1, <2>2
  <2>4. c \in Seq(Seq(Nat)) /\ Len(c) = n + 1
    BY <2>3, n + 1 \in Nat, SeqDef, LenProperties
  <2>5. PICK d : d = Append(b, p.blocks)
    OBVIOUS
  <2>6. /\ d \in Seq(Seq(Nat)) /\ Len(d) = n + 1 /\ d[n + 1] = p.blocks
        /\ \A i \in 1..n : d[i] = b[i]
    BY <1>5, <1>6, <2>5, AppendProperties
  <2>7. \A i \in 1..(n + 1) : c[i] = d[i]
    <3>1. ASSUME NEW i \in 1..n PROVE c[i] = d[i]
      <4>1. i \in 1..(n + 1)
        OBVIOUS
      <4>2. c[i] = t[i].blocks
        BY <2>2, <4>1
      <4>3. t[i] = s[i] /\ b[i] = s[i].blocks /\ d[i] = b[i]
        BY <1>3, <1>8, <2>6
      <4> QED BY <4>2, <4>3
    <3>2. c[n + 1] = d[n + 1]
      BY <1>8, <2>2, <2>6
    <3> QED BY <3>1, <3>2
  <2>8. c = d
    BY <2>4, <2>6, <2>7, SeqEqual
  <2> QED BY <1>8, <2>1, <2>5, <2>8
<1>10. Listed(s) = FlattenSeq(b)
  <2>1. DOMAIN s = 1..n
    BY <1>1
  <2> QED BY <1>2, <2>1 DEF Listed
<1>11. Listed(t) = FlattenSeq(Append(b, p.blocks))
  BY <1>9 DEF Listed
<1> QED BY <1>5, <1>6, <1>7, <1>10, <1>11, FlattenAppend

LEMMA ListedNothing == Listed(<<>>) = <<>>
<1>1. [i \in DOMAIN <<>> |-> <<>>[i].blocks] = <<>>
  OBVIOUS
<1> QED BY <1>1, EmptySeq DEF Listed, FlattenSeq

----------------------------------------------------------------------------
(* The tools are runs of the emitter, or let it be.                        *)

\* The lister leaves the emitter's state alone, and the verifier changes it by the
\* emitter's steps only: the call of the iterator (tools/snapshot-metadata-verifier).
THEOREM ToolsRunTheEmitter == ToolsSpec => Spec
<1>1. ToolsInit => Init
  BY DEF ToolsInit
<1>2. [ToolsNext]_<<vars, toolVars>> => [Next]_vars
  <2> SUFFICES ASSUME ToolsNext, ~UNCHANGED vars PROVE Next
    OBVIOUS
  <2>1. VerifierEmits \/ VerifierReceives \/ VerifierFails
    BY DEF ToolsNext, Local, parseFlags, parseVerifierFlags, ParseFlags, buildConfig, BuildClients,
       OpenSource, OpenTarget, MainStep, GetSnapshotMetadata, CallFails, Listing, ReceiveRecord,
       EmitJSON, EmitRow, RecordEmitted, EnumerationEnds, EnumerationFails, Done,
       VerifierReturns, Interrupt, Kill, Resume, Exited
  <2> QED BY <2>1 DEF VerifierEmits, VerifierReceives, VerifierFails, Next
<1> QED BY <1>1, <1>2, PTL DEF ToolsSpec, Spec

LEMMA InitToolsIInv == ToolsInit => ToolsIInv
<1> SUFFICES ASSUME ToolsInit PROVE ToolsIInv
  OBVIOUS
<1> USE ToolsAssumption DEF ToolsInit, InCall
<1>1. first \in 1..(NumBlocks + 1) /\ begin = first /\ 1 \in 1..(NumBlocks + 1)
  OBVIOUS
<1>2. ToolTypes
  <2>1. {first, begin, next, row} \subseteq 1..(NumBlocks + 1) /\ runs \in 1..MaxRuns
    BY <1>1
  <2>2. \A i \in DOMAIN rows : rows[i] \in 1..NumBlocks
    OBVIOUS
  <2> QED BY <2>1, <2>2 DEF ToolTypes
<1>3. RowInv /\ ExitInv
  BY EmptySeq DEF RowInv, ExitInv
<1>4. From(begin, (begin + 0) - 1) = <<>>
  <2>1. (begin + 0) - 1 \in Nat /\ begin \in Nat /\ begin = ((begin + 0) - 1) + 1
    BY <1>1
  <2>2. /\ From(begin, (begin + 0) - 1) \in Seq(Nat)
        /\ Len(From(begin, (begin + 0) - 1)) = (((begin + 0) - 1) + 1) - begin
    BY <2>1, FromIs
  <2> QED BY <2>1, <2>2, EmptySeq
<1>5. TableInv
  BY <1>1, <1>4, Len(<<>>) = 0 DEF TableInv
<1>6. JSONInv
  BY <1>1, EmptySeq DEF JSONInv
<1> QED BY <1>2, <1>3, <1>5, <1>6 DEF ToolsIInv

\* A step that prints nothing, and ends the tool with 0 only where it may.
LEMMA StaysPut ==
  ASSUME ToolsIInv, UNCHANGED <<tool, listVars>>, ExitInv',
         exit' \in {"none", "0", "1", "2", "killed"}, interrupt' \in BOOLEAN,
         \/ at' = at
         \/ ~InCall /\ at' \in {"flags", "config", "clients", "source", "target", "call"},
         exit' = exit \/ (exit = "none" /\ (at = "done" => exit' # "0"))
  PROVE  ToolsIInv'
<1> USE DEF listVars, InCall
<1>1. ToolTypes'
  BY DEF ToolsIInv, ToolTypes
<1>2. RowInv'
  BY DEF ToolsIInv, RowInv
<1>3. TableInv'
  BY DEF ToolsIInv, TableInv
<1>4. JSONInv'
  <2>1. Open' <=> Open
    BY DEF Open
  <2> QED BY <2>1 DEF ToolsIInv, JSONInv
<1> QED BY <1>1, <1>2, <1>3, <1>4 DEF ToolsIInv

\* From the flags to the call.
LEMMA BeforeTheCall ==
  ASSUME ToolsIInv,
         \/ parseFlags \/ parseVerifierFlags \/ buildConfig \/ BuildClients \/ OpenSource \/ OpenTarget
         \/ CallFails
  PROVE  ToolsIInv'
<1>1. /\ UNCHANGED <<vars, tool, interrupt, listVars>> /\ exit = "none" /\ ~InCall
      /\ at' = at \/ (at' \in {"config", "clients", "source", "target", "call"} /\ exit' = exit)
      /\ exit' \in {"none", "0", "1", "2"} /\ (exit' = "0" => at = "flags" /\ at' = at)
  BY DEF parseFlags, parseVerifierFlags, ParseFlags, buildConfig, BuildClients, OpenSource,
     OpenTarget, MainStep, CallFails, At, InCall
<1>2. ExitInv'
  BY <1>1 DEF ExitInv
<1> QED BY <1>1, <1>2, StaysPut DEF ToolsIInv, ToolTypes

LEMMA VerifierKeeps ==
  ASSUME ToolsIInv, VerifierEmits \/ VerifierReceives \/ VerifierFails \/ VerifierReturns
  PROVE  ToolsIInv'
<1> USE DEF VerifierEmits, VerifierReceives, VerifierFails, VerifierReturns, Verifying, At
<1>1. /\ UNCHANGED <<tool, at, interrupt, listVars>> /\ exit = "none" /\ at = "enumerate"
      /\ exit' \in {"none", "0", "1"}
  BY DEF toolVars, processVars, listVars
<1>2. ExitInv'
  BY <1>1 DEF ExitInv, toolVars, processVars, vars
<1> QED BY <1>1, <1>2, StaysPut DEF ToolsIInv, ToolTypes

LEMMA SignalsKeep ==
  ASSUME ToolsIInv, Interrupt \/ Kill \/ EnumerationFails \/ Exited \/ UNCHANGED <<vars, toolVars>>
  PROVE  ToolsIInv'
<1> USE DEF listVars, toolVars, processVars, At, Listing
<1>1. /\ UNCHANGED <<vars, tool, at, listVars>> /\ interrupt' \in BOOLEAN
      /\ exit' = exit \/ (exit = "none" /\ exit' \in {"1", "killed"})
  BY DEF Interrupt, Kill, EnumerationFails, Exited, ToolsIInv, ToolTypes
<1>2. ExitInv'
  BY <1>1 DEF ToolsIInv, ExitInv, vars
<1>3. exit' \in {"none", "0", "1", "2", "killed"}
  BY <1>1 DEF ToolsIInv, ToolTypes
<1> QED BY <1>1, <1>2, <1>3, StaysPut

----------------------------------------------------------------------------
(* The lister.                                                             *)

LEMMA RequestKeeps == ASSUME ToolsIInv, GetSnapshotMetadata PROVE ToolsIInv'
<1> USE DEF GetSnapshotMetadata, At, InCall, newIterator
<1>1. ToolTypes'
  BY DEF ToolsIInv, ToolTypes
<1>2. RowInv' /\ ExitInv'
  BY DEF ToolsIInv, ToolTypes, RowInv, ExitInv
<1>3. TableInv'
  BY DEF ToolsIInv, TableInv
<1>4. JSONInv'
  <2>1. ASSUME tool = "json", ~lost PROVE Open'
    <3>1. out = <<>> /\ out' = out /\ first' = begin' /\ row' = first' /\ begin' \in Nat
      BY <2>1 DEF ToolsIInv, JSONInv, ToolTypes
    <3>2. From(begin', row' - 1) = <<>>
      <4>1. begin' - 1 \in Nat /\ begin' = (begin' - 1) + 1
        BY <3>1, ToolsAssumption DEF ToolsIInv, ToolTypes
      <4>2. /\ From(begin', begin' - 1) \in Seq(Nat)
            /\ Len(From(begin', begin' - 1)) = ((begin' - 1) + 1) - begin'
        BY <3>1, <4>1, FromIs
      <4> QED BY <3>1, <4>1, <4>2, EmptySeq
    <3>3. IsOpen(<<>>)
      BY EmptySeq DEF IsOpen
    <3>4. IsOpen(out') /\ Listed(out') = From(begin', row' - 1)
      BY <3>1, <3>2, <3>3, ListedNothing
    <3>5. row' = first' <=> out' = <<>>
      BY <3>1
    <3> QED BY <3>4, <3>5, Zenon DEF Open
  <2> QED BY <2>1 DEF ToolsIInv, JSONInv
<1> QED BY <1>1, <1>2, <1>3, <1>4 DEF ToolsIInv

\* The emitter is not invoked, or has come back.
LEMMA EnumerationKeeps ==
  ASSUME ToolsIInv, ReceiveRecord \/ RecordEmitted \/ EnumerationEnds
  PROVE  ToolsIInv'
<1> USE DEF ReceiveRecord, RecordEmitted, EnumerationEnds, Listing, At, InCall
<1>1. /\ UNCHANGED <<tool, exit, interrupt, first, row, out, rows, lost, begin, runs>>
      /\ exit = "none" /\ InCall /\ InCall' /\ at' \in {"enumerate", "emit", "done"}
  OBVIOUS
<1>2. next' \in 1..(NumBlocks + 1) /\ row <= next'
  BY ToolsAssumption DEF ToolsIInv, ToolTypes, RowInv, Smaller
<1>3. ToolTypes'
  BY <1>1, <1>2 DEF ToolsIInv, ToolTypes
<1>4. RowInv'
  BY <1>1, <1>2 DEF ToolsIInv, ToolTypes, RowInv, Smaller
<1>5. TableInv' /\ ExitInv'
  BY <1>1 DEF ToolsIInv, TableInv, ExitInv
<1>6. JSONInv'
  <2>1. Open' <=> Open
    BY <1>1 DEF Open
  <2> QED BY <1>1, <2>1 DEF ToolsIInv, JSONInv
<1> QED BY <1>3, <1>4, <1>5, <1>6 DEF ToolsIInv

LEMMA SeqMembers ==
  ASSUME NEW S, NEW s \in Seq(S)
  PROVE  (\A i \in DOMAIN s : s[i] \in S) /\ (s # <<>> => Last(s) \in S)
<1>1. \A i \in DOMAIN s : s[i] \in S
  OBVIOUS
<1>2. s # <<>> => Len(s) \in DOMAIN s
  OBVIOUS
<1> QED BY <1>1, <1>2 DEF Last

\* One row is one more number of the table.
LEMMA RowIsNext ==
  ASSUME NEW a \in Nat, NEW n \in Nat, NEW s, s = From(a, (a + n) - 1), a + n >= 1
  PROVE  s \o <<a + n>> = From(a, a + n)
<1>1. PICK b \in Nat : b = (a + n) - 1
  OBVIOUS
<1>2. a <= b + 1 /\ b <= b + 1 /\ b + 1 \in Nat /\ b + 1 = a + n
  BY <1>1
<1>3. From(a, b) \o From(b + 1, b + 1) = From(a, b + 1)
  BY <1>2, FromJoins
<1>4. From(b + 1, b + 1) = <<b + 1>>
  <2>1. PICK m \in Nat : m = b + 1
    BY <1>2
  <2>2. PICK f : f = From(m, m)
    OBVIOUS
  <2>3. /\ f \in Seq(Nat) /\ Len(f) = (m + 1) - m
        /\ \A i \in 1..((m + 1) - m) : f[i] = (m + i) - 1
    BY <2>2, m <= m + 1, FromIs
  <2>4. Len(f) = 1 /\ f[1] = m
    BY <2>3
  <2>5. f = <<m>>
    BY <2>3, <2>4
  <2> QED BY <2>1, <2>2, <2>5
<1> QED BY <1>1, <1>2, <1>3, <1>4

\* A row of the table, written or lost.
LEMMA RowKeeps == ASSUME ToolsIInv, EmitRow PROVE ToolsIInv'
<1> USE DEF EmitRow, Listing, At, InCall, Write, WriteIsLost
<1>1. /\ UNCHANGED <<tool, at, exit, interrupt, first, next, out, begin, runs>>
      /\ exit = "none" /\ at = "emit" /\ tool = "table" /\ row < next /\ row' = row + 1
      /\ row \in 1..NumBlocks /\ row' \in 1..(NumBlocks + 1) /\ row' <= next'
  BY ToolsAssumption DEF ToolsIInv, ToolTypes
<1>2. \/ rows' = rows \o <<row>> /\ lost' = lost
      \/ rows' = rows /\ lost'
  OBVIOUS
<1>3. rows' \in Seq(1..NumBlocks)
  <2>1. rows \in Seq(1..NumBlocks) /\ <<row>> \in Seq(1..NumBlocks)
    BY <1>1 DEF ToolsIInv, RowInv
  <2> QED BY <1>2, <2>1, ConcatProperties
<1>4. ToolTypes'
  <2>1. \A i \in DOMAIN rows' : rows'[i] \in 1..NumBlocks
    BY <1>3, SeqMembers, Zenon
  <2>2. lost' \in BOOLEAN
    BY <1>2 DEF ToolsIInv, ToolTypes
  <2> QED BY <1>1, <2>1, <2>2 DEF ToolsIInv, ToolTypes
<1>5. RowInv' /\ ExitInv' /\ JSONInv'
  BY <1>1, <1>3 DEF ToolsIInv, ToolTypes, RowInv, ExitInv, JSONInv
<1>6. TableInv'
  <2>1. CASE rows' = rows \o <<row>> /\ lost' = lost /\ ~lost
    <3>1. /\ rows = From(begin, (begin + Len(rows)) - 1) /\ row = begin + Len(rows)
          /\ Len(rows) \in Nat /\ begin \in Nat /\ begin >= 1 /\ rows \in Seq(1..NumBlocks)
      BY <1>1, <2>1 DEF ToolsIInv, TableInv, RowInv, ToolTypes
    <3>2. PICK n \in Nat : n = Len(rows)
      BY <3>1
    <3>3. rows' = From(begin, begin + n)
      <4>1. rows = From(begin, (begin + n) - 1) /\ begin + n >= 1
        BY <3>1, <3>2
      <4>2. rows \o <<begin + n>> = From(begin, begin + n)
        BY <3>1, <4>1, RowIsNext
      <4> QED BY <2>1, <3>1, <3>2, <4>2
    <3>4. Len(rows') = n + 1
      BY <2>1, <3>1, <3>2
    <3>5. (begin + (n + 1)) - 1 = begin + n /\ begin + (n + 1) = row + 1
      BY <3>1, <3>2
    <3> QED BY <1>1, <3>3, <3>4, <3>5 DEF TableInv
  <2>2. CASE lost'
    BY <1>1, <2>2 DEF ToolsIInv, TableInv
  <2> QED BY <1>2, <2>1, <2>2
<1> QED BY <1>4, <1>5, <1>6 DEF ToolsIInv

\* The next run starts at the number after the table's last one.
LEMMA ResumeKeeps == ASSUME ToolsIInv, Resume PROVE ToolsIInv'
<1> USE DEF Resume, InCall
<1>1. /\ UNCHANGED <<tool, next, row, out, rows, lost, begin>> /\ tool = "table"
      /\ at' = "flags" /\ exit' = "none" /\ interrupt' = FALSE
      /\ runs' \in 1..MaxRuns
  BY ToolsAssumption DEF ToolsIInv, ToolTypes
<1>2. first' \in 1..(NumBlocks + 1)
  <2>1. CASE rows = <<>>
    BY <2>1 DEF ToolsIInv, ToolTypes
  <2>2. CASE rows # <<>>
    <3>1. rows \in Seq(1..NumBlocks)
      BY DEF ToolsIInv, RowInv
    <3>2. Last(rows) \in 1..NumBlocks
      BY <2>2, <3>1, SeqMembers, Zenon
    <3> QED BY <2>2, <3>2, ToolsAssumption
  <2> QED BY <2>1, <2>2
<1>3. ToolTypes' /\ RowInv' /\ ExitInv' /\ JSONInv'
  BY <1>1, <1>2 DEF ToolsIInv, ToolTypes, RowInv, ExitInv, JSONInv
<1>4. ASSUME ~lost PROVE first' = begin + Len(rows)
  <2>1. rows = From(begin, (begin + Len(rows)) - 1) /\ rows \in Seq(1..NumBlocks) /\ begin \in Nat
    BY <1>1, <1>4 DEF ToolsIInv, TableInv, RowInv, ToolTypes
  <2>2. CASE rows = <<>>
    BY <2>1, <2>2
  <2>3. CASE rows # <<>>
    <3>1. PICK n \in Nat : n = Len(rows) /\ n # 0
      BY <2>1, <2>3, EmptySeq
    <3>2. PICK b \in Nat : b = (begin + n) - 1
      <4>1. begin \in Nat /\ n \in Nat /\ n # 0
        BY <2>1, <3>1
      <4>2. (begin + n) - 1 \in Nat
        BY ONLY <4>1
      <4> QED BY ONLY <4>2
    <3>3. n \in 1..((b + 1) - begin) /\ begin <= b + 1 /\ rows = From(begin, b)
      BY <2>1, <3>1, <3>2
    <3>4. \A i \in 1..((b + 1) - begin) : rows[i] = (begin + i) - 1
      BY <2>1, <3>3, FromIs
    <3>5. rows[n] = (begin + n) - 1
      BY <3>3, <3>4
    <3> QED BY <2>1, <2>3, <3>1, <3>5 DEF Last
  <2> QED BY <2>2, <2>3
<1>5. TableInv'
  BY <1>1, <1>4 DEF ToolsIInv, TableInv
<1> QED BY <1>3, <1>5 DEF ToolsIInv

LEMMA Pieces ==
  /\ \A m \in {"[", ",", "]"} : Mark(m) \in Piece /\ Mark(m).blocks = <<>>
  /\ \A bs \in Seq(Nat) : Blocks(bs) \in Piece /\ Blocks(bs).blocks = bs /\ Blocks(bs).mark = "record"
BY EmptySeq DEF Piece, Mark, Blocks

\* A mark lists nothing, and what it is followed by is listed after it.
LEMMA MarkListsNothing ==
  ASSUME NEW s \in Seq(Piece), NEW m \in {"[", ",", "]"}
  PROVE  /\ Append(s, Mark(m)) \in Seq(Piece)
         /\ Listed(s) \in Seq(Nat) => Listed(Append(s, Mark(m))) = Listed(s)
<1>1. PICK p \in Piece : p = Mark(m) /\ p.blocks = <<>>
  BY Pieces
<1>2. Listed(Append(s, p)) = Listed(s) \o <<>>
  BY <1>1, ListedAppend
<1>3. Append(s, p) \in Seq(Piece)
  BY AppendProperties
<1>4. Listed(s) \in Seq(Nat) => Listed(s) \o <<>> = Listed(s)
  BY ConcatEmptySeq
<1> QED BY <1>1, <1>2, <1>3, <1>4

\* A write of two pieces, and of one.
LEMMA PairAppends ==
  ASSUME NEW s \in Seq(Piece), NEW p \in Piece, NEW q \in Piece
  PROVE  /\ s \o <<p, q>> = Append(Append(s, p), q)
         /\ s \o <<p>> = Append(s, p)
         /\ s \o <<p, q>> \in Seq(Piece) /\ Len(s \o <<p, q>>) = Len(s) + 2
         /\ (s \o <<p, q>>)[Len(s) + 1] = p /\ (s \o <<p, q>>)[Len(s) + 2] = q
         /\ \A i \in 1..Len(s) : (s \o <<p, q>>)[i] = s[i]
OBVIOUS

LEMMA AfterEven ==
  ASSUME NEW n \in Nat, n % 2 = 0
  PROVE  (n + 1) % 2 = 1 /\ (n + 2) % 2 = 0
OBVIOUS

\* A record and the prefix that is written with it.
LEMMA OpenGoesOn ==
  ASSUME NEW s \in Seq(Piece), IsOpen(s), Listed(s) \in Seq(Nat), NEW bs \in Seq(Nat)
  PROVE  \E t : /\ t = s \o <<Mark(IF s = <<>> THEN "[" ELSE ","), Blocks(bs)>>
                /\ t \in Seq(Piece) /\ t # <<>> /\ IsOpen(t)
                /\ Listed(t) = Listed(s) \o bs
<1>1. PICK n \in Nat : n = Len(s)
  OBVIOUS
<1>2. PICK p \in Piece : p = Mark(IF n = 0 THEN "[" ELSE ",")
  BY Pieces
<1>3. PICK q \in Piece : q = Blocks(bs)
  BY Pieces
<1>4. q.blocks = bs /\ q.mark = "record"
  BY <1>3, Pieces
<1>5. PICK t : t = s \o <<p, q>>
  OBVIOUS
<1>6. /\ t = Append(Append(s, p), q) /\ t \in Seq(Piece) /\ Len(t) = n + 2
      /\ t[n + 1] = p /\ t[n + 2] = q
      /\ \A i \in 1..n : t[i] = s[i]
  BY <1>1, <1>5, PairAppends
<1>7. Listed(t) = Listed(s) \o bs
  <2>1. Append(s, p) \in Seq(Piece) /\ Listed(Append(s, p)) = Listed(s)
    BY <1>2, MarkListsNothing
  <2> QED BY <1>4, <1>6, <2>1, ListedAppend
<1>8. n % 2 = 0 /\ \A i \in 1..n : IF i % 2 = 0 THEN s[i].mark = "record"
                                              ELSE s[i] = Mark(IF i = 1 THEN "[" ELSE ",")
  BY <1>1 DEF IsOpen
<1>9. (n + 1) % 2 = 1 /\ (n + 2) % 2 = 0
  BY <1>8, AfterEven
<1>10. ASSUME NEW i \in 1..(n + 2)
       PROVE  IF i % 2 = 0 THEN t[i].mark = "record"
                           ELSE t[i] = Mark(IF i = 1 THEN "[" ELSE ",")
  <2>1. i \in 1..n \/ i = n + 1 \/ i = n + 2
    OBVIOUS
  <2>2. CASE i \in 1..n
    BY <1>6, <1>8, <2>2
  <2>3. CASE i = n + 1
    <3>1. i = 1 <=> n = 0
      BY <2>3
    <3>2. p = Mark(IF i = 1 THEN "[" ELSE ",")
      BY <1>2, <3>1
    <3>3. i % 2 # 0
      BY <1>9, <2>3
    <3> QED BY <1>6, <2>3, <3>2, <3>3
  <2>4. CASE i = n + 2
    BY <1>4, <1>6, <1>9, <2>4
  <2> QED BY <2>1, <2>2, <2>3, <2>4
<1>11. IsOpen(t)
  BY <1>6, <1>9, <1>10 DEF IsOpen
<1>12. t # <<>>
  <2>1. Len(t) = n + 2
    BY <1>6
  <2> QED BY <2>1, Len(<<>>) = 0
<1>13. t = s \o <<Mark(IF s = <<>> THEN "[" ELSE ","), Blocks(bs)>>
  <2>1. n = 0 <=> s = <<>>
    BY <1>1, EmptySeq
  <2> QED BY <1>2, <1>3, <1>5, <2>1
<1> QED BY <1>6, <1>7, <1>11, <1>12, <1>13

\* Done closes the list, or writes an empty one.
LEMMA ListCloses ==
  ASSUME NEW s \in Seq(Piece), IsOpen(s), Listed(s) \in Seq(Nat),
         NEW t, t = s \o (IF s = <<>> THEN <<Mark("["), Mark("]")>> ELSE <<Mark("]")>>)
  PROVE  t \in Seq(Piece) /\ IsList(t) /\ Listed(t) = Listed(s)
<1>1. PICK n \in Nat : n = Len(s)
  OBVIOUS
<1>2. PICK p \in Piece, q \in Piece : p = Mark("[") /\ q = Mark("]")
  BY Pieces
<1>3. CASE s = <<>>
  <2>1. n = 0 /\ t = s \o <<p, q>>
    BY <1>1, <1>2, <1>3
  <2>2. /\ t = Append(Append(s, p), q) /\ t \in Seq(Piece) /\ Len(t) = n + 2
        /\ t[n + 1] = p /\ t[n + 2] = q
    BY <1>1, <2>1, PairAppends
  <2>3. PICK u \in Seq(Piece) : u = Append(s, Mark("[")) /\ Listed(u) = Listed(s)
    BY MarkListsNothing
  <2>4. Listed(Append(u, Mark("]"))) = Listed(u)
    BY <2>3, MarkListsNothing
  <2>5. Listed(t) = Listed(s)
    BY <1>2, <2>2, <2>3, <2>4, Zenon
  <2>6. IsList(t)
    <3>1. Len(t) = 2 /\ t[1] = p /\ t[2] = q
      BY <2>1, <2>2
    <3>2. \A i \in 2..(Len(t) - 1) : FALSE
      BY <3>1
    <3> QED BY <1>2, <3>1, <3>2 DEF IsList
  <2> QED BY <2>2, <2>5, <2>6
<1>4. CASE s # <<>>
  <2>1. n # 0 /\ n % 2 = 0
    BY <1>1, <1>4, EmptySeq DEF IsOpen
  <2>2. t = s \o <<q>>
    BY <1>2, <1>4
  <2>3. t = Append(s, q)
    BY <2>2, PairAppends
  <2>4. /\ t \in Seq(Piece) /\ Len(t) = n + 1 /\ t[n + 1] = q
        /\ \A i \in 1..n : t[i] = s[i]
    BY <1>1, <2>3, AppendProperties
  <2>5. Listed(t) = Listed(s)
    <3>1. Listed(Append(s, Mark("]"))) = Listed(s)
      BY MarkListsNothing
    <3> QED BY <1>2, <2>3, <3>1, Zenon
  <2>6. IsList(t)
    <3>1. n >= 2 /\ n + 1 > 2 /\ (n + 1) % 2 = 1
      BY ONLY <2>1, n \in Nat
    <3>2. \A i \in 1..n : IF i % 2 = 0 THEN s[i].mark = "record"
                                       ELSE s[i] = Mark(IF i = 1 THEN "[" ELSE ",")
      BY <1>1 DEF IsOpen
    <3>3. t[1] = Mark("[")
      <4>1. 1 \in 1..n /\ 1 % 2 # 0
        BY <3>1
      <4>2. s[1] = Mark("[")
        BY <3>2, <4>1
      <4> QED BY <2>4, <4>1, <4>2
    <3>4. ASSUME NEW i \in 2..n
          PROVE  t[i].mark = IF i % 2 = 0 THEN "record" ELSE ","
      <4>1. i \in 1..n /\ i # 1 /\ t[i] = s[i]
        BY <2>4
      <4>2. CASE i % 2 = 0
        BY <3>2, <4>1, <4>2
      <4>3. CASE i % 2 # 0
        <5>1. s[i] = Mark(",")
          BY <3>2, <4>1, <4>3
        <5>2. Mark(",").mark = ","
          BY DEF Mark
        <5> QED BY <4>1, <4>3, <5>1, <5>2
      <4> QED BY <4>2, <4>3
    <3>5. Len(t) - 1 = n
      BY <2>4
    <3> QED BY <1>2, <2>4, <3>1, <3>3, <3>4, <3>5 DEF IsList
  <2> QED BY <2>4, <2>5, <2>6
<1> QED BY <1>3, <1>4

\* The second piece of an open list is a record, so that the list has no end there,
\* and longer ones have an even number of pieces.
LEMMA OpenDoesNotParse == ASSUME NEW s \in Seq(Piece), IsOpen(s) PROVE ~IsList(s)
<1> SUFFICES ASSUME IsList(s) PROVE FALSE
  OBVIOUS
<1>1. PICK n \in Nat : n = Len(s)
  OBVIOUS
<1>2. n % 2 = 0 /\ (n = 2 \/ (n > 2 /\ n % 2 = 1)) /\ s[n] = Mark("]")
  BY <1>1 DEF IsOpen, IsList
<1>3. n = 2
  BY <1>2
<1>4. 2 \in 1..n /\ 2 % 2 = 0
  BY <1>3
<1>5. s[2].mark = "record"
  BY <1>1, <1>4 DEF IsOpen
<1> QED BY <1>2, <1>3, <1>5 DEF Mark

\* A record of the JSON, written or lost.
LEMMA JSONKeeps == ASSUME ToolsIInv, EmitJSON PROVE ToolsIInv'
<1>1. /\ UNCHANGED <<tool, exit, interrupt, first, next, rows, begin, runs>>
      /\ exit = "none" /\ at = "emit" /\ at' = "enumerate" /\ tool = "json" /\ row' = next
      /\ InCall /\ InCall' /\ row < next /\ first <= row /\ first = begin /\ out \in Seq(Piece)
      /\ (~lost => Open)
  BY DEF EmitJSON, Listing, At, ToolsIInv, RowInv, InCall, JSONInv
<1>2. \/ /\ out' = out \o <<Mark(IF row = first THEN "[" ELSE ","), Blocks(From(row, next - 1))>>
         /\ lost' = lost
      \/ out' = out /\ lost' = TRUE
  BY DEF EmitJSON, Write, WriteIsLost
<1>3. lost' \in BOOLEAN
  BY <1>2 DEF ToolsIInv, ToolTypes
<1>4. ToolTypes'
  BY <1>1, <1>3 DEF ToolsIInv, ToolTypes
<1>5. /\ row \in 1..(NumBlocks + 1) /\ next \in 1..(NumBlocks + 1) /\ begin \in 1..(NumBlocks + 1)
      /\ NumBlocks \in Nat
  BY ToolsAssumption DEF ToolsIInv, ToolTypes
<1>6. RowInv'
  BY <1>1, <1>5 DEF ToolsIInv, RowInv, InCall
<1>7. TableInv' /\ ExitInv'
  BY <1>1 DEF ToolsIInv, TableInv, ExitInv
<1>8. PICK b \in Nat, d \in Nat, c \in Nat : b = row - 1 /\ d = next - 1 /\ c = begin
  BY <1>5
<1>9. c <= b + 1 /\ b <= d /\ b + 1 <= d + 1 /\ b + 1 = row /\ b + 1 \in Nat
  BY <1>1, <1>5, <1>8
<1>10. From(c, b) \in Seq(Nat) /\ From(b + 1, d) \in Seq(Nat)
  BY <1>9, FromIs
<1>11. PICK bs \in Seq(Nat) : bs = From(b + 1, d)
  BY <1>10
<1>12. From(row, next - 1) = bs
  BY <1>8, <1>9, <1>11
<1>13. out' \in Seq(Piece)
  <2>1. PICK p \in Piece, q \in Piece : p = Mark(IF row = first THEN "[" ELSE ",") /\ q = Blocks(bs)
    BY Pieces
  <2>2. out \o <<p, q>> \in Seq(Piece)
    BY <1>1, PairAppends
  <2> QED BY <1>1, <1>2, <1>12, <2>1, <2>2
<1>14. ASSUME ~lost' PROVE Open'
  <2>1. ~lost
    BY <1>2, <1>14
  <2>2. out' = out \o <<Mark(IF row = first THEN "[" ELSE ","), Blocks(bs)>>
    BY <1>2, <1>12, <1>14
  <2>3. IsOpen(out) /\ (row = first <=> out = <<>>) /\ Listed(out) = From(c, b)
    BY <1>1, <1>8, <2>1 DEF Open
  <2>4. PICK t : /\ t = out \o <<Mark(IF out = <<>> THEN "[" ELSE ","), Blocks(bs)>>
                 /\ t \in Seq(Piece) /\ t # <<>> /\ IsOpen(t)
                 /\ Listed(t) = Listed(out) \o bs
    BY <1>1, <1>10, <2>3, OpenGoesOn
  <2>5. out' = t
    BY <2>2, <2>3, <2>4
  <2>6. Listed(out') = From(c, d)
    <3>1. Listed(t) = From(c, b) \o From(b + 1, d)
      BY <1>11, <2>3, <2>4
    <3>2. From(c, b) \o From(b + 1, d) = From(c, d)
      BY <1>9, FromJoins
    <3> QED BY <2>5, <3>1, <3>2
  <2>7. row' # first' /\ row' - 1 = d /\ begin' = c
    BY <1>1, <1>5, <1>8
  <2>8. row' = first' <=> out' = <<>>
    BY <2>4, <2>5, <2>7
  <2> QED BY <2>4, <2>5, <2>6, <2>7, <2>8 DEF Open
<1>15. JSONInv'
  BY <1>1, <1>13, <1>14 DEF JSONInv
<1> QED BY <1>4, <1>6, <1>7, <1>15 DEF ToolsIInv

LEMMA DoneKeeps == ASSUME ToolsIInv, Done PROVE ToolsIInv'
<1>1. /\ UNCHANGED <<tool, at, interrupt, first, next, row, rows, begin, runs>>
      /\ exit = "none" /\ exit' = "0" /\ at = "done" /\ InCall
  BY DEF Done, Listing, At, InCall
<1>2. \/ /\ tool = "json" /\ UNCHANGED lost
         /\ out' = out \o (IF row = first THEN <<Mark("["), Mark("]")>> ELSE <<Mark("]")>>)
      \/ tool = "json" /\ out' = out /\ lost' = TRUE
      \/ tool = "table" /\ UNCHANGED <<out, lost>>
  BY DEF Done, Write, WriteIsLost
<1>3. lost' \in BOOLEAN
  BY <1>2 DEF ToolsIInv, ToolTypes
<1>4. ToolTypes'
  BY <1>1, <1>3 DEF ToolsIInv, ToolTypes
<1>5. RowInv' /\ ExitInv'
  BY <1>1 DEF ToolsIInv, RowInv, ExitInv, InCall
<1>6. TableInv'
  BY <1>1, <1>2 DEF ToolsIInv, TableInv, InCall
<1>7. JSONInv'
  <2>1. CASE tool # "json"
    <3>1. tool' # "json"
      BY <1>1, <2>1
    <3> QED BY <3>1, Zenon DEF JSONInv
  <2>2. CASE tool = "json" /\ lost'
    <3>1. PICK p \in Piece, q \in Piece : p = Mark("[") /\ q = Mark("]")
      BY Pieces
    <3>2. out \in Seq(Piece)
      BY <2>2 DEF ToolsIInv, JSONInv
    <3>3. out \o <<p, q>> \in Seq(Piece) /\ out \o <<q>> \in Seq(Piece)
      BY <3>2, ConcatProperties
    <3>4. out' \in Seq(Piece)
      BY <1>2, <2>2, <3>1, <3>2, <3>3
    <3> QED BY <1>1, <2>2, <3>4 DEF ToolsIInv, JSONInv
  <2>3. CASE tool = "json" /\ ~lost'
    <3>1. ~lost /\ out' = out \o (IF row = first THEN <<Mark("["), Mark("]")>> ELSE <<Mark("]")>>)
      BY <1>2, <2>3
    <3>2. first = begin /\ out \in Seq(Piece) /\ row = NumBlocks + 1 /\ Open
      BY <1>1, <2>3, <3>1 DEF ToolsIInv, JSONInv, RowInv
    <3>3. row - 1 = NumBlocks /\ begin \in Nat /\ NumBlocks \in Nat /\ begin <= NumBlocks + 1
      BY <3>2, ToolsAssumption DEF ToolsIInv, ToolTypes
    <3>4. IsOpen(out) /\ (row = first <=> out = <<>>) /\ Listed(out) = From(begin, NumBlocks)
      BY <3>2, <3>3 DEF Open
    <3>5. From(begin, NumBlocks) \in Seq(Nat)
      BY <3>3, FromIs
    <3>6. out' = out \o (IF out = <<>> THEN <<Mark("["), Mark("]")>> ELSE <<Mark("]")>>)
      BY <3>1, <3>4
    <3>7. out' \in Seq(Piece) /\ IsList(out') /\ Listed(out') = From(begin, NumBlocks)
      BY <3>2, <3>4, <3>5, <3>6, ListCloses
    <3> QED BY <1>1, <2>3, <3>2, <3>7 DEF JSONInv, InCall
  <2> QED BY <2>1, <2>2, <2>3
<1> QED BY <1>4, <1>5, <1>6, <1>7 DEF ToolsIInv

----------------------------------------------------------------------------
(* The theorems.                                                           *)

\* Whatever a tool's emitters print, however it is interrupted, killed and run
\* again: the lemmas above, one per operation.
THEOREM ToolsInvariant == ToolsSpec => []ToolsIInv
<1>1. ToolsInit => ToolsIInv
  BY InitToolsIInv
<1>2. ToolsIInv /\ [ToolsNext]_<<vars, toolVars>> => ToolsIInv'
  <2> SUFFICES ASSUME ToolsIInv, [ToolsNext]_<<vars, toolVars>> PROVE ToolsIInv'
    OBVIOUS
  <2>1. CASE \/ parseFlags \/ parseVerifierFlags \/ buildConfig \/ BuildClients
             \/ OpenSource \/ OpenTarget \/ CallFails
    BY <2>1, BeforeTheCall
  <2>2. CASE VerifierEmits \/ VerifierReceives \/ VerifierFails \/ VerifierReturns
    BY <2>2, VerifierKeeps
  <2>3. CASE Interrupt \/ Kill \/ EnumerationFails \/ Exited \/ UNCHANGED <<vars, toolVars>>
    BY <2>3, SignalsKeep
  <2>4. CASE GetSnapshotMetadata
    BY <2>4, RequestKeeps
  <2>5. CASE ReceiveRecord \/ RecordEmitted \/ EnumerationEnds
    BY <2>5, EnumerationKeeps
  <2>6. CASE EmitRow
    BY <2>6, RowKeeps
  <2>7. CASE EmitJSON
    BY <2>7, JSONKeeps
  <2>8. CASE Done
    BY <2>8, DoneKeeps
  <2>9. CASE Resume
    BY <2>9, ResumeKeeps
  <2> QED BY <2>1, <2>2, <2>3, <2>4, <2>5, <2>6, <2>7, <2>8, <2>9, Zenon DEF ToolsNext, Local
<1> QED BY <1>1, <1>2, PTL DEF ToolsSpec

\* The table's emitter is never ahead of the driver, nor the driver of the volume.
THEOREM ToolsTypeCorrect == ToolsSpec => []ToolsTypeOK
<1>1. TypeOK /\ ToolsIInv => ToolsTypeOK
  BY DEF ToolsIInv, ToolsTypeOK
<1> QED BY <1>1, ToolsInvariant, ToolsRunTheEmitter, TypeCorrect, PTL

\* JSONEmitter writes what parses as a list in Done only: whoever parses what the
\* lister wrote has all blocks from the starting offset on, or nothing.
THEOREM ParsedWhole == ToolsSpec => []ParsedIsWhole
<1>1. ToolsIInv => ParsedIsWhole
  <2> SUFFICES ASSUME ToolsIInv, tool = "json", ~lost, IsList(out)
               PROVE  Listed(out) = From(begin, NumBlocks)
    BY DEF ParsedIsWhole
  <2>1. out \in Seq(Piece) /\ \/ out = <<>>
                              \/ Listed(out) = From(begin, NumBlocks)
                              \/ Open
    BY DEF ToolsIInv, JSONInv
  <2>2. IsOpen(<<>>)
    BY EmptySeq DEF IsOpen
  <2>3. out # <<>> /\ ~Open
    BY <2>1, <2>2, OpenDoesNotParse DEF Open
  <2> QED BY <2>1, <2>3
<1> QED BY <1>1, ToolsInvariant, PTL

\* A table that is resumed where it ended, however often and after whatever
\* failure, lists every block once and in order.
THEOREM ResumeCorrect == ToolsSpec => []ResumeLosesNothing
<1>1. ToolsIInv => ResumeLosesNothing
  <2> SUFFICES ASSUME ToolsIInv, ~lost
               PROVE  rows = From(begin, (begin + Len(rows)) - 1)
    BY DEF ResumeLosesNothing
  <2>1. CASE tool = "table"
    BY <2>1 DEF ToolsIInv, TableInv
  <2>2. CASE tool # "table"
    <3>1. rows = <<>> /\ begin \in 1..(NumBlocks + 1)
      BY <2>2 DEF ToolsIInv, TableInv, ToolTypes
    <3>2. PICK b \in Nat : b = begin - 1
      BY <3>1, ToolsAssumption
    <3>3. begin \in Nat /\ begin <= b + 1 /\ (b + 1) - begin = 0 /\ (begin + 0) - 1 = b
      BY <3>1, <3>2, ToolsAssumption
    <3>4. From(begin, b) \in Seq(Nat) /\ Len(From(begin, b)) = 0
      BY <3>3, FromIs
    <3>5. From(begin, b) = <<>>
      BY <3>4, EmptySeq
    <3> QED BY <3>1, <3>3, <3>5, Len(<<>>) = 0
  <2> QED BY <2>1, <2>2
<1> QED BY <1>1, ToolsInvariant, PTL

\* What VerifierEmitter_proofs shows of the emitter holds of the emitter the
\* verifier runs, also when its context is cancelled.
THEOREM ToolsEmitter ==
  ToolsSpec => /\ [](TypeOK /\ CopyKeepsToBlocks /\ CopiedIsSame /\ VerdictIsRight)
               /\ LoopsComeToAnEnd
BY ToolsRunTheEmitter, TypeCorrect, KeepsToBlocks, Copied, Verdict, LoopsEnd, PTL

\* No tool exits with 0 unless its output is whole: the list is closed, the table
\* has its last row, the devices hold the same.
THEOREM ExitHonest == ToolsSpec => []ExitCodeIsHonest
<1>1. ToolsIInv /\ IInv => ExitCodeIsHonest
  <2> SUFFICES ASSUME ToolsIInv, IInv, exit = "0", at # "flags", ~lost
               PROVE  CASE tool = "json"     -> IsList(out) /\ Listed(out) = From(begin, NumBlocks)
                        [] tool = "table"    -> rows = From(begin, NumBlocks)
                        [] tool = "verifier" -> source = target /\ DOMAIN source = DOMAIN original
    BY DEF ExitCodeIsHonest
  <2>1. tool \in {"table", "json", "verifier"}
    BY DEF ToolsIInv, ToolTypes
  <2>2. ASSUME tool = "json" PROVE IsList(out) /\ Listed(out) = From(begin, NumBlocks)
    <3>1. at = "done"
      BY <2>2 DEF ToolsIInv, ExitInv
    <3> QED BY <2>2, <3>1 DEF ToolsIInv, JSONInv, InCall
  <2>3. ASSUME tool = "table" PROVE rows = From(begin, NumBlocks)
    <3>1. at = "done"
      BY <2>3 DEF ToolsIInv, ExitInv
    <3>2. /\ rows = From(begin, (begin + Len(rows)) - 1) /\ row = begin + Len(rows)
          /\ row = NumBlocks + 1
      BY <2>3, <3>1 DEF ToolsIInv, TableInv, RowInv, InCall
    <3>3. (begin + Len(rows)) - 1 = NumBlocks
      BY <3>2, ToolsAssumption
    <3> QED BY <3>2, <3>3
  <2>4. ASSUME tool = "verifier" PROVE source = target /\ DOMAIN source = DOMAIN original
    <3>1. verdict = "match"
      BY <2>4 DEF ToolsIInv, ExitInv, RowInv
    <3>2. source = target
      BY <3>1 DEF IInv, CompareInv
    <3>3. DOMAIN target = DOMAIN original
      BY DEF IInv, CopyKeepsToBlocks
    <3> QED BY <3>2, <3>3
  <2>5. CASE tool = "json"
    BY <2>2, <2>5
  <2>6. CASE tool = "table"
    BY <2>3, <2>6
  <2>7. CASE tool = "verifier"
    BY <2>4, <2>7
  <2> QED BY <2>1, <2>5, <2>6, <2>7
<1> QED BY <1>1, ToolsInvariant, ToolsRunTheEmitter, EmitterInvariant, PTL
=============================================================================
