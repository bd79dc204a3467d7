-------------------------- MODULE ServerSetup_proofs --------------------------
(***************************************************************************)
(* Proofs about the module ServerSetup: its types, and that whatever is    *)
(* renewed while the sidecar reads, what it serves was in place and what   *)
(* it negotiates is what its command line asks for.                        *)
(***************************************************************************)
EXTENDS ServerSetup, SequenceTheorems, TLAPS

----------------------------------------------------------------------------
(* The inductive invariant.                                                *)

\* What is left of a renewal while the new certificate is not there, and what
\* is left from then on.  The owner puts the key in place last.
CertToDo ==
  { <<Op("swap", "cert"), Op("drop", "cert"), Op("drop", "key")>>,
    <<Op("truncate", "cert"), Op("fill", "cert"), Op("truncate", "key"), Op("fill", "key")>>,
    <<Op("fill", "cert"), Op("truncate", "key"), Op("fill", "key")>>,
    <<Op("unlink", "cert"), Op("create", "cert"), Op("fill", "cert"),
      Op("unlink", "key"), Op("create", "key"), Op("fill", "key")>>,
    <<Op("create", "cert"), Op("fill", "cert"),
      Op("unlink", "key"), Op("create", "key"), Op("fill", "key")>>,
    <<Op("fill", "cert"), Op("unlink", "key"), Op("create", "key"), Op("fill", "key")>> }
KeyToDo ==
  { <<>>,
    <<Op("drop", "cert"), Op("drop", "key")>>, <<Op("drop", "key")>>,
    <<Op("truncate", "key"), Op("fill", "key")>>, <<Op("fill", "key")>>,
    <<Op("unlink", "key"), Op("create", "key"), Op("fill", "key")>>,
    <<Op("create", "key"), Op("fill", "key")>> }

RenewalInv ==
  todo \in CertToDo \/ (todo \in KeyToDo /\ disk["cert"] = gen)

\* So a key that is on the disk was there together with its certificate, and so
\* was what was served.
PairInv ==
  /\ disk["key"] \in pairs \cup {0}
  /\ served \in pairs \cup {0}

\* The command line was validated before anything else is done with it.
TLSInv ==
  /\ main \notin {"flags", "new"} => Validate
  /\ main \in {"start", "probe", "dispatch", "wait"} =>
       tls = [min |-> ParseTLSVersion(args.min).min,
              suites |-> ParseCipherSuites(args.suites),
              curves |-> ParseCurvePreferences(args.curves)]

EventsInv == events \in Seq(Files \X {"write", "remove"})

IInv == TypeOK /\ EventsInv /\ RenewalInv /\ PairInv /\ TLSInv

LEMMA InitIInv == Init => IInv
<1> SUFFICES ASSUME Init PROVE IInv
  OBVIOUS
<1> USE SetupAssumption DEF Init
<1>1. tls.min = 0 /\ tls.suites.list = {} /\ tls.curves.list = {}
  BY DEF NoTLS, ParseList
<1>2. disk \in [Files -> 0..gen] /\ watch \in [Files -> {"none", "file", "left"}]
  OBVIOUS
<1>3. \A i \in DOMAIN events : events[i] \in Files \X {"write", "remove"}
  OBVIOUS
<1>4. gen \in 1..MaxGen /\ read \in 0..gen /\ served \in 0..gen /\ pairs \subseteq 1..gen
  OBVIOUS
<1>5. TypeOK
  BY <1>1, <1>2, <1>3, <1>4 DEF TypeOK
<1>6. EventsInv /\ RenewalInv /\ PairInv
  BY DEF EventsInv, RenewalInv, CertToDo, KeyToDo, PairInv, Files
<1>7. TLSInv
  BY DEF TLSInv
<1> QED BY <1>5, <1>6, <1>7 DEF IInv

----------------------------------------------------------------------------
(* The renewals.                                                           *)

LEMMA StepsAre == \A way \in Ways : Steps(way) \in CertToDo
<1> SUFFICES ASSUME NEW way \in {"swap", "write", "replace"} PROVE Steps(way) \in CertToDo
  BY SetupAssumption
<1>1. CASE way = "swap"
  BY <1>1 DEF Steps, CertToDo
<1>2. CASE way = "write"
  <2>1. EachFile(<<"truncate", "fill">>)
          = <<Op("truncate", "cert"), Op("fill", "cert")>> \o <<Op("truncate", "key"), Op("fill", "key")>>
    BY DEF EachFile
  <2>2. EachFile(<<"truncate", "fill">>)
          = <<Op("truncate", "cert"), Op("fill", "cert"), Op("truncate", "key"), Op("fill", "key")>>
    BY <2>1
  <2> QED BY <1>2, <2>2 DEF Steps, CertToDo
<1>3. CASE way = "replace"
  <2>1. EachFile(<<"unlink", "create", "fill">>)
          = <<Op("unlink", "cert"), Op("create", "cert"), Op("fill", "cert")>>
            \o <<Op("unlink", "key"), Op("create", "key"), Op("fill", "key")>>
    BY DEF EachFile
  <2>2. EachFile(<<"unlink", "create", "fill">>)
          = <<Op("unlink", "cert"), Op("create", "cert"), Op("fill", "cert"),
              Op("unlink", "key"), Op("create", "key"), Op("fill", "key")>>
    BY <2>1
  <2> QED BY <1>3, <2>2 DEF Steps, CertToDo
<1> QED BY <1>1, <1>2, <1>3

\* A step of the renewal, and what it leaves to be done.
LEMMA CertGoesOn ==
  ASSUME todo \in CertToDo, NEW do, NEW f, Do(do, f)
  PROVE  /\ f = "cert"
         /\ \/ do \in {"truncate", "unlink", "create"} /\ todo' \in CertToDo
            \/ do \in {"swap", "fill"} /\ todo' \in KeyToDo
<1>1. CASE todo = <<Op("swap", "cert"), Op("drop", "cert"), Op("drop", "key")>>
  BY <1>1 DEF Do, Op, CertToDo, KeyToDo
<1>2. CASE todo = <<Op("truncate", "cert"), Op("fill", "cert"), Op("truncate", "key"),
               Op("fill", "key")>>
  BY <1>2 DEF Do, Op, CertToDo, KeyToDo
<1>3. CASE todo = <<Op("fill", "cert"), Op("truncate", "key"), Op("fill", "key")>>
  BY <1>3 DEF Do, Op, CertToDo, KeyToDo
<1>4. CASE todo = <<Op("unlink", "cert"), Op("create", "cert"), Op("fill", "cert"),
               Op("unlink", "key"), Op("create", "key"), Op("fill", "key")>>
  BY <1>4 DEF Do, Op, CertToDo, KeyToDo
<1>5. CASE todo = <<Op("create", "cert"), Op("fill", "cert"), Op("unlink", "key"),
               Op("create", "key"), Op("fill", "key")>>
  BY <1>5 DEF Do, Op, CertToDo, KeyToDo
<1>6. CASE todo = <<Op("fill", "cert"), Op("unlink", "key"), Op("create", "key"),
               Op("fill", "key")>>
  BY <1>6 DEF Do, Op, CertToDo, KeyToDo
<1> QED BY <1>1, <1>2, <1>3, <1>4, <1>5, <1>6 DEF CertToDo

LEMMA KeyGoesOn ==
  ASSUME todo \in KeyToDo, NEW do, NEW f, Do(do, f)
  PROVE  /\ todo' \in KeyToDo
         /\ \/ f = "cert" /\ do = "drop"
            \/ f = "key" /\ do \in {"drop", "truncate", "unlink", "create", "fill"}
<1>1. CASE todo = <<Op("drop", "cert"), Op("drop", "key")>>
  BY <1>1 DEF Do, Op, KeyToDo
<1>2. CASE todo = <<Op("drop", "key")>>
  BY <1>2 DEF Do, Op, KeyToDo
<1>3. CASE todo = <<Op("truncate", "key"), Op("fill", "key")>>
  BY <1>3 DEF Do, Op, KeyToDo
<1>4. CASE todo = <<Op("fill", "key")>>
  BY <1>4 DEF Do, Op, KeyToDo
<1>5. CASE todo = <<Op("unlink", "key"), Op("create", "key"), Op("fill", "key")>>
  BY <1>5 DEF Do, Op, KeyToDo
<1>6. CASE todo = <<Op("create", "key"), Op("fill", "key")>>
  BY <1>6 DEF Do, Op, KeyToDo
<1> QED BY <1>1, <1>2, <1>3, <1>4, <1>5, <1>6 DEF KeyToDo, Do

----------------------------------------------------------------------------
(* sidecar.Run preserves the invariant.                                    *)

\* Nothing but what main does itself.
LEMMA MainOnly ==
  ASSUME IInv, UNCHANGED <<args, tls, certVars, watchVars, fileVars>>, exit' \in {"none", "0", "1", "2", "died"},
         \/ main' = main
         \/ main = "flags" /\ main' = "new"
         \/ main = "new" /\ main' = "kube" /\ Validate
         \/ <<main, main'>> \in {<<"kube", "csi">>, <<"csi", "cert">>, <<"start", "probe">>,
                                 <<"probe", "dispatch">>}
  PROVE  IInv'
<1> USE DEF certVars, watchVars, fileVars
<1>1. TypeOK'
  BY DEF IInv, TypeOK
<1>2. EventsInv' /\ RenewalInv' /\ PairInv'
  BY DEF IInv, EventsInv, RenewalInv, PairInv
<1>3. TLSInv'
  BY DEF IInv, TLSInv, Validate
<1> QED BY <1>1, <1>2, <1>3 DEF IInv

LEMMA MainKeeps ==
  ASSUME IInv,
         MainStep \/ csiConnect \/ WaitTillCSIDriverIsValidated \/ shutdownOnTerminationSignal \/ ProcessDies
  PROVE  IInv'
<1> USE DEF At, Alive, GoTo, Exit
<1>1. CASE parseFlagsAndHandleShowVersion
  BY <1>1, MainOnly DEF parseFlagsAndHandleShowVersion
<1>2. CASE New
  BY <1>2, MainOnly DEF New, Setup
<1>3. CASE kubeConnect \/ csiConnect \/ Start \/ WaitTillCSIDriverIsValidated
  BY <1>3, MainOnly DEF kubeConnect, csiConnect, Start, WaitTillCSIDriverIsValidated, Setup
<1>4. CASE shutdownOnTerminationSignal \/ ProcessDies
  BY <1>4, MainOnly DEF shutdownOnTerminationSignal, ProcessDies
<1>5. CASE ReadFirstCert
  <2>1. TypeOK'
    BY <1>5 DEF ReadFirstCert, ReadFile, IInv, TypeOK, watchVars, fileVars, Files
  <2>2. EventsInv' /\ RenewalInv' /\ PairInv'
    BY <1>5 DEF ReadFirstCert, IInv, EventsInv, RenewalInv, PairInv, watchVars, fileVars
  <2>3. TLSInv'
    BY <1>5 DEF ReadFirstCert, IInv, TLSInv, Validate
  <2> QED BY <2>1, <2>2, <2>3 DEF IInv
<1>6. CASE ReadFirstKey
  <2>1. TypeOK'
    BY <1>6 DEF ReadFirstKey, Matches, IInv, TypeOK, watchVars, fileVars
  <2>2. PairInv'
    BY <1>6 DEF ReadFirstKey, Matches, IInv, PairInv, fileVars
  <2>3. EventsInv' /\ RenewalInv'
    BY <1>6 DEF ReadFirstKey, IInv, EventsInv, RenewalInv, watchVars, fileVars
  <2>4. TLSInv'
    BY <1>6 DEF ReadFirstKey, IInv, TLSInv, Validate
  <2> QED BY <2>1, <2>2, <2>3, <2>4 DEF IInv
<1>7. CASE NewServer
  <2>1. Validate
    BY <1>7 DEF NewServer, IInv, TLSInv
  <2>2. tls'.min \in {0, 12, 13} /\ tls'.suites.list \subseteq Suites /\ tls'.curves.list \subseteq Curves
    BY <1>7, <2>1 DEF NewServer, Validate, ParseTLSVersion, ParseCipherSuites,
       ParseCurvePreferences, ParseList
  <2>3. TypeOK'
    BY <1>7, <2>2 DEF NewServer, IInv, TypeOK, certVars, watchVars, fileVars
  <2>4. EventsInv' /\ RenewalInv' /\ PairInv'
    BY <1>7 DEF NewServer, IInv, EventsInv, RenewalInv, PairInv, certVars, watchVars, fileVars
  <2>5. TLSInv'
    BY <1>7, <2>1 DEF NewServer, TLSInv, Validate
  <2> QED BY <2>3, <2>4, <2>5 DEF IInv
<1>8. CASE DispatchWatcher
  <2>1. TypeOK'
    BY <1>8 DEF DispatchWatcher, IInv, TypeOK, certVars, fileVars
  <2>2. EventsInv' /\ RenewalInv' /\ PairInv'
    BY <1>8 DEF DispatchWatcher, IInv, EventsInv, RenewalInv, PairInv, certVars, fileVars
  <2>3. TLSInv'
    BY <1>8 DEF DispatchWatcher, IInv, TLSInv, Validate
  <2> QED BY <2>1, <2>2, <2>3 DEF IInv
<1> QED
  BY <1>1, <1>2, <1>3, <1>4, <1>5, <1>6, <1>7, <1>8 DEF MainStep

----------------------------------------------------------------------------
(* So does the watcher.                                                    *)

LEMMA EventsTaken ==
  ASSUME NEW E, NEW s \in Seq(E), s # <<>>
  PROVE  Tail(s) \in Seq(E) /\ Head(s) \in E
OBVIOUS

\* A certificate is served only with a key that is the one on the disk.
LEMMA WatcherKeeps ==
  ASSUME IInv, WatcherStep
  PROVE  IInv'
<1> USE DEF WatcherAt, Alive, setupVars, fileVars, certVars
<1>1. TypeOK'
  <2>1. CASE AddCert
    BY <2>1 DEF AddCert, IInv, TypeOK, Files
  <2>2. CASE AddKey
    <3>1. fresh' \in BOOLEAN
      <4>1. CASE "key" \in absent
        BY <2>2, <4>1 DEF AddKey, IInv, TypeOK
      <4>2. CASE "key" \notin absent
        <5>1. fresh' = (events # <<>> \/ \A f \in Files : disk[f] = served)
          BY <2>2, <4>2 DEF AddKey
        <5> QED BY <5>1, Zenon
      <4> QED BY <4>1, <4>2
    <3>2. watch' \in [Files -> {"none", "file", "left"}] /\ watcher' \in {"failed", "watch"}
      BY <2>2 DEF AddKey, IInv, TypeOK, Files
    <3> QED BY <2>2, <3>1, <3>2 DEF AddKey, IInv, TypeOK
  <2>3. CASE HandleEvent
    <3>0. events \in Seq(Files \X {"write", "remove"}) /\ events # <<>> /\ events' = Tail(events)
      BY <2>3 DEF HandleEvent, IInv, EventsInv
    <3>1. events' \in Seq(Files \X {"write", "remove"}) /\ Head(events) \in Files \X {"write", "remove"}
      BY <3>0, EventsTaken
    <3>2. watch' \in [Files -> {"none", "file", "left"}] /\ fresh' \in BOOLEAN
      BY <2>3, <3>1 DEF HandleEvent, IInv, TypeOK
    <3>3. \A i \in DOMAIN events' : events'[i] \in Files \X {"write", "remove"}
      BY <3>1
    <3> QED BY <2>3, <3>2, <3>3 DEF HandleEvent, IInv, TypeOK
  <2>4. CASE ReadCert
    BY <2>4 DEF ReadCert, ReadFile, IInv, TypeOK, Files
  <2>5. CASE ReadKey
    BY <2>5 DEF ReadKey, Matches, IInv, TypeOK
  <2> QED BY <2>1, <2>2, <2>3, <2>4, <2>5 DEF WatcherStep
<1>2. EventsInv'
  <2>1. CASE AddCert \/ AddKey
    BY <2>1 DEF IInv, EventsInv, AddCert, AddKey
  <2>2. CASE HandleEvent
    BY <2>2 DEF IInv, EventsInv, HandleEvent
  <2>3. CASE ReadCert \/ ReadKey
    BY <2>3 DEF IInv, EventsInv, ReadCert, ReadKey
  <2> QED BY <2>1, <2>2, <2>3 DEF WatcherStep
<1>3. PairInv'
  BY DEF IInv, PairInv, WatcherStep, AddCert, AddKey, HandleEvent, ReadCert, ReadKey, Matches
<1>4. RenewalInv' /\ TLSInv'
  BY DEF IInv, RenewalInv, TLSInv, Validate, WatcherStep, AddCert, AddKey, HandleEvent, ReadCert, ReadKey
<1> QED BY <1>1, <1>2, <1>3, <1>4 DEF IInv

----------------------------------------------------------------------------
(* And the owner of the files.                                             *)

LEMMA ReportsEvents ==
  ASSUME EventsInv, NEW f \in Files, NEW kind \in {"write", "remove"},
         Reports(f, kind) \/ UNCHANGED events
  PROVE  /\ events' \in Seq(Files \X {"write", "remove"})
         /\ \A i \in DOMAIN events' : events'[i] \in Files \X {"write", "remove"}
<1> DEFINE E == Files \X {"write", "remove"}
<1>1. events \in Seq(E) /\ <<f, kind>> \in E
  BY DEF EventsInv
<1>2. events' = events \/ events' = Append(events, <<f, kind>>)
  BY DEF Reports
<1> HIDE DEF E
<1>3. events' \in Seq(E)
  BY <1>1, <1>2, AppendProperties
<1>4. \A i \in DOMAIN events' : events'[i] \in E
  BY ONLY <1>3
<1> QED BY <1>3, <1>4 DEF E

\* A new content of the files is remembered if they fit, and nothing is forgotten.
LEMMA ContentPairs ==
  ASSUME NEW d \in [Files -> 0..gen], Content(d), gen \in Nat, pairs \subseteq 1..gen
  PROVE  /\ disk' = d /\ pairs \subseteq pairs' /\ pairs' \subseteq 1..gen
         /\ d["cert"] = gen /\ d["key"] = gen => gen \in pairs' \cup {0}
<1>1. disk' = d /\ pairs' = pairs \cup {n \in 1..gen : \A f \in Files : d[f] = n}
  BY DEF Content
<1>2. ASSUME d["cert"] = gen, d["key"] = gen, gen # 0
      PROVE  gen \in pairs'
  BY <1>1, <1>2 DEF Files
<1> QED BY <1>1, <1>2

LEMMA RenewKeeps ==
  ASSUME IInv, NEW way \in Ways, Renew(way)
  PROVE  IInv'
<1> USE DEF Renew, setupVars, certVars, watchVars
<1>1. TypeOK'
  <2>1. gen' \in 1..MaxGen /\ 0..gen \subseteq 0..gen' /\ 1..gen \subseteq 1..gen'
    BY SetupAssumption DEF IInv, TypeOK
  <2>2. disk' \in [Files -> 0..gen']
    BY <2>1 DEF IInv, TypeOK
  <2> QED BY <2>1, <2>2 DEF IInv, TypeOK
<1>2. RenewalInv'
  BY StepsAre DEF RenewalInv
<1>3. EventsInv' /\ PairInv' /\ TLSInv'
  BY DEF IInv, EventsInv, PairInv, TLSInv, Validate
<1> QED BY <1>1, <1>2, <1>3 DEF IInv

\* What all the steps of a renewal leave alone.
LEMMA OwnerOnly ==
  ASSUME IInv, UNCHANGED <<setupVars, certVars, watcher, fresh, gen>>,
         watch' \in [Files -> {"none", "file", "left"}],
         events' \in Seq(Files \X {"write", "remove"}),
         disk' \in [Files -> 0..gen], absent' \subseteq Files, pairs' \subseteq 1..gen,
         pairs \subseteq pairs', RenewalInv', disk'["key"] \in pairs' \cup {0}
  PROVE  IInv'
<1> USE DEF setupVars, certVars
<1>1. TypeOK'
  BY DEF IInv, TypeOK
<1>2. EventsInv' /\ PairInv' /\ TLSInv'
  BY DEF IInv, EventsInv, PairInv, TLSInv, Validate
<1> QED BY <1>1, <1>2 DEF IInv

LEMMA OwnerKeeps ==
  ASSUME IInv, Owner
  PROVE  IInv'
<1> USE DEF Files
<1>0. /\ gen \in Nat \ {0} /\ pairs \subseteq 1..gen /\ disk \in [Files -> 0..gen] /\ absent \subseteq Files
      /\ watch \in [Files -> {"none", "file", "left"}]
      /\ EventsInv /\ RenewalInv /\ disk["key"] \in pairs \cup {0}
  BY DEF IInv, TypeOK, PairInv
<1>1. CASE \E way \in Ways : Renew(way)
  BY <1>1, RenewKeeps
<1>2. CASE Swap
  <2>1. [f \in Files |-> gen] \in [Files -> 0..gen]
    BY <1>0
  <2>2. disk' = [f \in Files |-> gen] /\ pairs \subseteq pairs' /\ pairs' \subseteq 1..gen /\ gen \in pairs' \cup {0}
    BY <1>0, <1>2, <2>1, ContentPairs DEF Swap
  <2>3. todo' \in KeyToDo
    BY <1>0, <1>2, CertGoesOn, KeyGoesOn DEF Swap, RenewalInv
  <2>4. RenewalInv'
    BY <1>2, <2>2, <2>3 DEF Swap, RenewalInv
  <2>5. watch' \in [Files -> {"none", "file", "left"}]
    BY <1>0, <1>2 DEF Swap
  <2>6. disk'["key"] \in pairs' \cup {0} /\ disk' \in [Files -> 0..gen]
    BY <2>1, <2>2
  <2> QED BY <1>0, <1>2, <2>2, <2>4, <2>5, <2>6, OwnerOnly DEF Swap, EventsInv
<1>3. ASSUME NEW f \in Files, DropOld(f)
      PROVE  IInv'
  <2>1. RenewalInv'
    BY <1>0, <1>3, CertGoesOn, KeyGoesOn DEF DropOld, RenewalInv
  <2>2. events' \in Seq(Files \X {"write", "remove"})
    BY <1>0, <1>3, ReportsEvents DEF DropOld
  <2>3. watch' \in [Files -> {"none", "file", "left"}]
    BY <1>0, <1>3 DEF DropOld
  <2> QED BY <1>0, <1>3, <2>1, <2>2, <2>3, OwnerOnly DEF DropOld
<1>4. ASSUME NEW f \in Files, Write(f)
      PROVE  IInv'
  <2>1. events' \in Seq(Files \X {"write", "remove"})
    BY <1>0, <1>4, ReportsEvents DEF Write, FileChanges
  <2>2. CASE Do("truncate", f) /\ Content([disk EXCEPT ![f] = 0])
    <3>1. [disk EXCEPT ![f] = 0] \in [Files -> 0..gen]
      BY <1>0
    <3>2. disk' = [disk EXCEPT ![f] = 0] /\ pairs \subseteq pairs' /\ pairs' \subseteq 1..gen
      BY <1>0, <2>2, <3>1, ContentPairs
    <3>3. RenewalInv'
      BY <1>0, <1>4, <2>2, <3>2, CertGoesOn, KeyGoesOn DEF RenewalInv, Write
    <3>4. disk'["key"] \in pairs' \cup {0} /\ disk' \in [Files -> 0..gen]
      BY <1>0, <3>1, <3>2
    <3> QED BY <1>0, <1>4, <2>1, <3>2, <3>3, <3>4, OwnerOnly DEF Write
  <2>3. CASE Do("fill", f) /\ Content([disk EXCEPT ![f] = gen])
    <3>1. [disk EXCEPT ![f] = gen] \in [Files -> 0..gen]
      BY <1>0
    <3>2. /\ disk' = [disk EXCEPT ![f] = gen] /\ pairs \subseteq pairs' /\ pairs' \subseteq 1..gen
          /\ disk'["cert"] = gen /\ disk'["key"] = gen => gen \in pairs' \cup {0}
      BY <1>0, <2>3, <3>1, ContentPairs
    <3>3. todo' \in KeyToDo /\ disk'["cert"] = gen
      BY <1>0, <2>3, <3>2, CertGoesOn, KeyGoesOn DEF RenewalInv
    <3>4. RenewalInv'
      BY <1>4, <3>3 DEF RenewalInv, Write
    <3>5. disk'["key"] \in pairs' \cup {0} /\ disk' \in [Files -> 0..gen]
      BY <1>0, <3>1, <3>2, <3>3
    <3> QED BY <1>0, <1>4, <2>1, <3>2, <3>4, <3>5, OwnerOnly DEF Write
  <2> QED BY <1>4, <2>2, <2>3 DEF Write
<1>5. ASSUME NEW f \in Files, Unlink(f)
      PROVE  IInv'
  <2>1. events' \in Seq(Files \X {"write", "remove"})
    BY <1>0, <1>5, ReportsEvents DEF Unlink
  <2>2. watch' \in [Files -> {"none", "file", "left"}]
    BY <1>0, <1>5 DEF Unlink
  <2>3. [disk EXCEPT ![f] = 0] \in [Files -> 0..gen]
    BY <1>0
  <2>4. disk' = [disk EXCEPT ![f] = 0] /\ pairs \subseteq pairs' /\ pairs' \subseteq 1..gen
    BY <1>0, <1>5, <2>3, ContentPairs DEF Unlink
  <2>5. RenewalInv'
    BY <1>0, <1>5, <2>4, CertGoesOn, KeyGoesOn DEF RenewalInv, Unlink
  <2>6. disk'["key"] \in pairs' \cup {0} /\ disk' \in [Files -> 0..gen] /\ absent' \subseteq Files
    BY <1>0, <1>5, <2>3, <2>4 DEF Unlink
  <2> QED BY <1>0, <1>5, <2>1, <2>2, <2>4, <2>5, <2>6, OwnerOnly DEF Unlink
<1>6. ASSUME NEW f \in Files, Create(f)
      PROVE  IInv'
  <2>1. RenewalInv'
    BY <1>0, <1>6, CertGoesOn, KeyGoesOn DEF Create, RenewalInv
  <2> QED BY <1>0, <1>6, <2>1, OwnerOnly DEF Create, watchVars, EventsInv
<1> QED BY <1>1, <1>2, <1>3, <1>4, <1>5, <1>6 DEF Owner

----------------------------------------------------------------------------

\* What the files and the sidecar hold is tied to how far a renewal is, and the
\* TLS configuration to the command line.
THEOREM SetupInvariant == Spec => []IInv
<1>1. Init => IInv
  BY InitIInv
<1>2. IInv /\ [Next]_vars => IInv'
  <2> SUFFICES ASSUME IInv, [Next]_vars PROVE IInv'
    OBVIOUS
  <2>1. CASE UNCHANGED vars
    <3>1. UNCHANGED <<setupVars, certVars, watcher, fresh, gen, watch, events, disk, absent, todo, pairs>>
      BY <2>1 DEF vars, watchVars, fileVars
    <3> QED
      BY <3>1, OwnerOnly DEF IInv, TypeOK, EventsInv, RenewalInv, PairInv
  <2> QED
    BY <2>1, MainKeeps, WatcherKeeps, OwnerKeeps DEF Next, Ended
<1> QED BY <1>1, <1>2, PTL DEF Spec

\* Every state has its type, and from the making of the server on there is a
\* certificate.
THEOREM TypeCorrect == Spec => []TypeOK
BY SetupInvariant, PTL DEF IInv

\* However renewals and reads interleave, the certificate that is served was in
\* place together with its key.
THEOREM ServedCorrect == Spec => []ServedWasPair
<1>1. IInv => ServedWasPair
  BY DEF IInv, TypeOK, PairInv, ServedWasPair, Listening
<1> QED BY <1>1, SetupInvariant, PTL

\* A server that listens negotiates what its command line says.
THEOREM TLSCorrect == Spec => []TLSAsAsked
<1>1. IInv => TLSAsAsked
  <2> SUFFICES ASSUME IInv, Listening PROVE TLSAsAsked
    BY DEF TLSAsAsked
  <2> DEFINE min    == IF args.min = "VersionTLS13" THEN 13 ELSE 12
             suites == args.suites \ {Blank}
             curves == args.curves \ {Blank}
  <2>1. /\ Validate
        /\ tls = [min |-> ParseTLSVersion(args.min).min,
                  suites |-> ParseCipherSuites(args.suites),
                  curves |-> ParseCurvePreferences(args.curves)]
    BY DEF IInv, TLSInv, Listening
  <2>2. /\ args.min \in {"", "VersionTLS12", "VersionTLS13"}
        /\ suites \subseteq Suites /\ curves \subseteq Curves
    BY <2>1 DEF Validate, ParseTLSVersion, ParseCipherSuites, ParseCurvePreferences, ParseList
  <2>3. min = IF tls.min = 0 THEN 12 ELSE tls.min
    <3>1. tls.min = ParseTLSVersion(args.min).min
      BY <2>1
    <3>2. CASE args.min = ""
      BY <3>1, <3>2 DEF ParseTLSVersion
    <3>3. CASE args.min = "VersionTLS12"
      BY <3>1, <3>3 DEF ParseTLSVersion
    <3>4. CASE args.min = "VersionTLS13"
      BY <3>1, <3>4 DEF ParseTLSVersion
    <3> QED BY <2>2, <3>2, <3>3, <3>4
  <2>4. tls.suites = ParseList(args.suites, Suites) /\ tls.curves = ParseList(args.curves, Curves)
    BY <2>1 DEF ParseCipherSuites, ParseCurvePreferences
  <2>5. tls.suites.list = suites /\ tls.curves.list = curves
    BY <2>4 DEF ParseList
  <2>6. tls.suites.nil <=> suites = {}
    <3>1. tls.suites.nil = (suites = {})
      BY <2>4 DEF ParseList
    <3> QED BY <3>1, Zenon
  <2>7. Other \notin suites \cup curves
    BY <2>2, SetupAssumption
  <2>8. ASSUME NEW v \in {11, 12, 13}, NEW s \in Suites, NEW c \in Curves
        PROVE  Negotiates(v, s, c) <=>
                 /\ v >= min
                 /\ v = 13 \/ s \in suites \/ (suites = {} /\ s \in DefaultSuites)
                 /\ c \in curves \/ curves = {}
    BY <2>3, <2>5, <2>6 DEF Negotiates
  <2> QED BY <2>2, <2>7, <2>8 DEF TLSAsAsked
<1> QED BY <1>1, SetupInvariant, PTL

\* A key on the disk is never older than the one that is served.
ForwardInv == disk["key"] # 0 => served <= disk["key"]

\* Whatever the watcher reads in whatever state of a renewal, it goes on with what
\* it serves or serves what is newer (certwatcher.go:116-132).
THEOREM ServedForward == Spec => ServedGoesForward
<1>1. Init => ForwardInv
  <2>1. Init => disk["key"] = 1 /\ served = 0
    BY DEF Init, Files
  <2> QED BY <2>1 DEF ForwardInv
<1>2. IInv /\ ForwardInv /\ [Next]_vars => ForwardInv' /\ served <= served'
  <2> SUFFICES ASSUME IInv, ForwardInv, [Next]_vars PROVE ForwardInv' /\ served <= served'
    OBVIOUS
  <2>1. /\ served \in 0..gen /\ gen \in Nat /\ disk \in [Files -> 0..gen]
    BY SetupAssumption DEF IInv, TypeOK
  <2>2. CASE UNCHANGED <<served, disk>>
    BY <2>1, <2>2 DEF ForwardInv
  <2>3. CASE ReadFirstKey \/ ReadKey
    <3>1. disk' = disk /\ (served' = served \/ (served' = disk["key"] /\ disk["key"] # 0))
      BY <2>3 DEF ReadFirstKey, ReadKey, Matches, WatcherAt, fileVars
    <3>2. disk["key"] \in Nat
      BY <2>1 DEF Files
    <3> QED BY <2>1, <3>1, <3>2 DEF ForwardInv
  <2>4. CASE Owner
    <3>1. served' = served
      BY <2>4 DEF Owner, Renew, Swap, DropOld, Write, Unlink, Create, certVars
    <3>2. disk'["key"] \in {disk["key"], 0, gen}
      BY <2>1, <2>4 DEF Owner, Renew, Swap, DropOld, Write, Unlink, Create, Content, Files
    <3> QED BY <2>1, <3>1, <3>2 DEF ForwardInv
  <2> QED
    BY <2>2, <2>3, <2>4 DEF Next, MainStep, WatcherStep, Ended, vars, certVars, fileVars, setupVars,
       watchVars, parseFlagsAndHandleShowVersion, New, Setup, kubeConnect, csiConnect,
       ReadFirstCert, NewServer, Start, WaitTillCSIDriverIsValidated, DispatchWatcher,
       shutdownOnTerminationSignal, ProcessDies, WatcherAt, AddCert, AddKey, HandleEvent, ReadCert
<1>3. Spec => []ForwardInv
  BY <1>1, <1>2, SetupInvariant, PTL DEF Spec
<1> QED BY <1>2, <1>3, SetupInvariant, PTL DEF Spec, ServedGoesForward
=============================================================================
