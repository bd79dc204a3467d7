----------------------------- MODULE ServerSetup -----------------------------
(***************************************************************************)
(* What the sidecar serves with: the TLS configuration that its command    *)
(* line asks for, and the certificate, which is read from two files at the *)
(* start and again whenever a watch on one of them reports a change.       *)
(* While the sidecar starts and runs the certificate is renewed by whoever *)
(* owns the files.                                                         *)
(*                                                                         *)
(* The n-th certificate and its key have the content n, each certificate   *)
(* with a key of its own; 0 is a file with nothing in it.  A list of names *)
(* is the set of its entries, whose order does not matter here; Blank is   *)
(* an entry with nothing but spaces.                                       *)
(***************************************************************************)
EXTENDS Naturals, Sequences, SequencesExt

CONSTANTS
  Suites, Curves,  \* the names of tls.CipherSuites() and tlsCurves
  DefaultSuites,   \* those that HTTP/2 permits
  Blank, Other,    \* an empty name, and an unknown or insecure one
  Ways,            \* the ways in which the certificate is renewed
  MaxGen           \* bound: certificates

ASSUME SetupAssumption ==
  /\ DefaultSuites \subseteq Suites
  /\ {Blank, Other} \cap (Suites \cup Curves) = {} /\ Blank # Other
  /\ Ways \subseteq {"swap", "write", "replace"}
  /\ MaxGen \in Nat \ {0}

VARIABLES
  args,     \* what the command line says
  main,     \* where sidecar.Run is
  exit,     \* the exit code, "died", or "none"
  tls,      \* Server.tlsCfg
  read,     \* the certificate file's content, while the key file is read
  served,   \* currentCert
  watcher,  \* the goroutine of cw.Start and then that of cw.Watch
  watch,    \* watch[f]: on the file, on one that a swap left behind, or none
  events,   \* the changes the watches report: <<file, "write" or "remove">>
  disk,     \* disk[f]: the content of the file
  absent,   \* the files that do not exist
  gen,      \* the newest certificate
  todo,     \* what is left to do to put it in place
  pairs,    \* history: the contents that both files had at one time
  fresh     \* history: no change escaped the watches since they were set

setupVars == <<args, main, exit, tls>>
certVars  == <<read, served>>
watchVars == <<watcher, watch, events, fresh>>
fileVars  == <<disk, absent, gen, todo, pairs>>
vars == <<setupVars, certVars, watchVars, fileVars>>

Files == {"cert", "key"}
Alive == exit = "none"
Listening == Alive /\ main \in {"probe", "dispatch", "wait"}

----------------------------------------------------------------------------
(* The command line.                                                       *)

Args == [version : BOOLEAN, missing : BOOLEAN,
         min : {"", "VersionTLS12", "VersionTLS13", "other"},
         suites : SUBSET (Suites \cup {Blank, Other}),
         curves : SUBSET (Curves \cup {Blank, Other})]

\* (Mutant: a list of blanks is not nil but a list without entries.)
ParseListKept(names, known) ==
  [ok |-> names \ {Blank} \subseteq known, nil |-> names = {}, list |-> names \ {Blank}]

ParseList(names, known) ==
  [ok |-> names \ {Blank} \subseteq known, nil |-> names \ {Blank} = {}, list |-> names \ {Blank}]

ParseTLSVersion(s) ==
  [ok  |-> s \in {"", "VersionTLS12", "VersionTLS13"},
   min |-> CASE s = "VersionTLS12" -> 12 [] s = "VersionTLS13" -> 13 [] OTHER -> 0]
ParseCipherSuites(names)     == ParseList(names, Suites)
ParseCurvePreferences(names) == ParseList(names, Curves)

Validate ==
  /\ ~args.missing
  /\ ParseTLSVersion(args.min).ok
  /\ ParseCipherSuites(args.suites).ok /\ ParseCurvePreferences(args.curves).ok

NoTLS == [min |-> 0, suites |-> ParseList({}, {}), curves |-> ParseList({}, {})]

\* What a handshake may agree on: the defaults are those of the credentials of
\* gRPC, and crypto/tls takes its own for curves also if the list is empty.
Negotiates(version, suite, curve) ==
  /\ version >= IF tls.min = 0 THEN 12 ELSE tls.min
  /\ version < 13 => suite \in IF tls.suites.nil THEN DefaultSuites ELSE tls.suites.list
  /\ tls.curves.list = {} \/ curve \in tls.curves.list

----------------------------------------------------------------------------
(* sidecar.Run.                                                            *)

Init ==
  /\ args \in Args
  /\ main = "flags" /\ exit = "none" /\ tls = NoTLS
  /\ read = 0 /\ served = 0
  /\ watcher = "none" /\ watch = [f \in Files |-> "none"]
  /\ events = <<>> /\ fresh = FALSE
  /\ disk = [f \in Files |-> 1] /\ absent = {}
  /\ gen = 1 /\ todo = <<>> /\ pairs = {1}

At(l) == Alive /\ main = l
GoTo(l) == main' = l /\ UNCHANGED exit
Exit(code) == exit' = code /\ UNCHANGED main

\* A step that is not about the certificate.
Setup(from, to, fails) ==
  /\ At(from)
  /\ (GoTo(to) /\ ~fails) \/ Exit("1")
  /\ UNCHANGED <<args, tls, certVars, watchVars, fileVars>>

\* A flag that does not parse ends the process with 2, -version with 0.
parseFlagsAndHandleShowVersion ==
  /\ At("flags")
  /\ (IF args.version THEN Exit("0") ELSE GoTo("new")) \/ Exit("2")
  /\ UNCHANGED <<args, tls, certVars, watchVars, fileVars>>

New         == Setup("new", "kube", ~Validate)
kubeConnect == Setup("kube", "csi", FALSE)
csiConnect  == Setup("csi", "cert", FALSE)

\* LoadX509KeyPair reads one file after the other.
ReadFile(f) == f \notin absent
Matches(f) == f \notin absent /\ disk[f] # 0 /\ disk[f] = read

\* NewCertWatcher.
ReadFirstCert ==
  /\ At("cert")
  /\ \/ ReadFile("cert") /\ read' = disk["cert"] /\ GoTo("key")
     \/ ~ReadFile("cert") /\ Exit("1") /\ UNCHANGED read
  /\ UNCHANGED <<args, tls, served, watchVars, fileVars>>

ReadFirstKey ==
  /\ At("key")
  /\ \/ Matches("key") /\ served' = read /\ (GoTo("server") \/ Exit("1"))
     \/ ~Matches("key") /\ Exit("1") /\ UNCHANGED served
  /\ UNCHANGED <<args, tls, read, watchVars, fileVars>>

NewServer ==
  /\ At("server")
  /\ tls' = [min |-> ParseTLSVersion(args.min).min,
             suites |-> ParseCipherSuites(args.suites),
             curves |-> ParseCurvePreferences(args.curves)]
  /\ GoTo("start")
  /\ UNCHANGED <<args, certVars, watchVars, fileVars>>

Start == Setup("start", "probe", FALSE)

\* The driver may take for ever to become ready; then it may turn out not to
\* have the capability.
WaitTillCSIDriverIsValidated == Setup("probe", "dispatch", FALSE)

DispatchWatcher ==
  /\ At("dispatch") /\ GoTo("wait")
  /\ watcher' = "addCert"
  /\ UNCHANGED <<args, tls, certVars, watch, events, fresh, fileVars>>

shutdownOnTerminationSignal ==
  /\ At("wait") /\ Exit("0")
  /\ UNCHANGED <<args, tls, certVars, watchVars, fileVars>>

\* The CSI connection is lost, the HTTP server fails or, before the last step, a
\* signal arrives.
ProcessDies ==
  /\ Alive /\ main \notin {"flags", "new", "kube", "csi"}
  /\ Exit("died")
  /\ UNCHANGED <<args, tls, certVars, watchVars, fileVars>>

----------------------------------------------------------------------------
(* The certificate watcher.                                                *)

WatcherAt(l) == Alive /\ watcher = l /\ UNCHANGED <<setupVars, fileVars>>

\* cw.Start.  If a file is not there the error is logged, and that is the end of
\* the goroutine.
AddCert ==
  /\ WatcherAt("addCert")
  /\ IF "cert" \in absent THEN watcher' = "failed" /\ UNCHANGED watch
     ELSE watcher' = "addKey" /\ watch' = [watch EXCEPT !["cert"] = "file"]
  /\ UNCHANGED <<certVars, events, fresh>>

AddKey ==
  /\ WatcherAt("addKey")
  /\ IF "key" \in absent THEN watcher' = "failed" /\ UNCHANGED <<watch, fresh>>
     ELSE /\ watcher' = "watch" /\ watch' = [watch EXCEPT !["key"] = "file"]
          /\ fresh' = (events # <<>> \/ \A f \in Files : disk[f] = served)
  /\ UNCHANGED <<certVars, events>>

\* (Mutant: the watch of a file that was removed is not set again.)
HandleEventWithoutAdd ==
  /\ WatcherAt("watch") /\ events # <<>>
  /\ events' = Tail(events)
  /\ watcher' = "readCert"
  /\ UNCHANGED <<certVars, watch, fresh>>

\* The watch that is set again is on the file that now has the name.  If there is
\* none the error is logged, and changes of that file are no longer reported.
HandleEvent ==
  /\ WatcherAt("watch") /\ events # <<>>
  /\ events' = Tail(events)
  /\ LET f == Head(events)[1] IN
       CASE Head(events)[2] = "write" -> UNCHANGED <<watch, fresh>>
         [] Head(events)[2] = "remove" /\ f \notin absent ->
              watch' = [watch EXCEPT ![f] = "file"] /\ UNCHANGED fresh
         [] OTHER -> UNCHANGED watch /\ fresh' = FALSE
  /\ watcher' = "readCert"
  /\ UNCHANGED certVars

ReadCert ==
  /\ WatcherAt("readCert")
  /\ \/ ReadFile("cert") /\ read' = disk["cert"] /\ watcher' = "readKey"
     \/ ~ReadFile("cert") /\ watcher' = "watch" /\ UNCHANGED read
  /\ UNCHANGED <<served, watch, events, fresh>>

\* (Mutants: the error of LoadX509KeyPair is not looked at; the certificate and
\* the key are not compared.)
ReadKeyIgnoresError ==
  /\ WatcherAt("readKey")
  /\ served' = (IF Matches("key") THEN read ELSE 0)
  /\ watcher' = "watch"
  /\ UNCHANGED <<read, watch, events, fresh>>
ReadKeyUncompared ==
  /\ WatcherAt("readKey")
  /\ served' = (IF ReadFile("key") /\ read # 0 THEN read ELSE served)
  /\ watcher' = "watch"
  /\ UNCHANGED <<read, watch, events, fresh>>

\* Files that do not parse or do not match leave currentCert as it is.
ReadKey ==
  /\ WatcherAt("readKey")
  /\ served' = (IF Matches("key") THEN read ELSE served)
  /\ watcher' = "watch"
  /\ UNCHANGED <<read, watch, events, fresh>>

----------------------------------------------------------------------------
(* The owner of the files renews the certificate: the kubelet swaps a      *)
(* symbolic link and then deletes the old files, others write into the     *)
(* files or delete and create them, the certificate first.                 *)

Op(do, f) == <<do, f>>
EachFile(dos) == [i \in DOMAIN dos |-> Op(dos[i], "cert")] \o [i \in DOMAIN dos |-> Op(dos[i], "key")]
Steps(way) ==
  CASE way = "swap"    -> <<Op("swap", "cert"), Op("drop", "cert"), Op("drop", "key")>>
    [] way = "write"   -> EachFile(<<"truncate", "fill">>)
    [] way = "replace" -> EachFile(<<"unlink", "create", "fill">>)

Renew(way) ==
  /\ Alive /\ todo = <<>> /\ gen < MaxGen
  /\ gen' = gen + 1 /\ todo' = Steps(way)
  /\ UNCHANGED <<setupVars, certVars, watchVars, disk, absent, pairs>>

Do(do, f) == Alive /\ todo # <<>> /\ Head(todo) = Op(do, f) /\ todo' = Tail(todo)

\* What the watches say of it; inotify does not report the same twice in a row.
Reports(f, kind) ==
  events' = IF events # <<>> /\ Last(events) = <<f, kind>> THEN events ELSE Append(events, <<f, kind>>)
FileChanges(f) == IF watch[f] = "file" THEN Reports(f, "write") ELSE UNCHANGED events
Content(d) ==
  /\ disk' = d
  /\ pairs' = pairs \cup {n \in 1..gen : \A f \in Files : d[f] = n}

Swap ==
  /\ Do("swap", "cert")
  /\ Content([f \in Files |-> gen])
  /\ watch' = [f \in Files |-> IF watch[f] = "file" THEN "left" ELSE watch[f]]
  /\ UNCHANGED <<setupVars, certVars, watcher, events, fresh, absent, gen>>

DropOld(f) ==
  /\ Do("drop", f)
  /\ IF watch[f] = "left" THEN Reports(f, "remove") /\ watch' = [watch EXCEPT ![f] = "none"]
                          ELSE UNCHANGED <<events, watch>>
  /\ UNCHANGED <<setupVars, certVars, watcher, fresh, disk, absent, gen, pairs>>

Write(f) ==
  /\ \/ Do("truncate", f) /\ Content([disk EXCEPT ![f] = 0])
     \/ Do("fill", f) /\ Content([disk EXCEPT ![f] = gen])
  /\ FileChanges(f)
  /\ UNCHANGED <<setupVars, certVars, watcher, watch, fresh, absent, gen>>

Unlink(f) ==
  /\ Do("unlink", f)
  /\ Content([disk EXCEPT ![f] = 0]) /\ absent' = absent \cup {f}
  /\ IF watch[f] = "file" THEN Reports(f, "remove") /\ watch' = [watch EXCEPT ![f] = "none"]
                          ELSE UNCHANGED <<events, watch>>
  /\ UNCHANGED <<setupVars, certVars, watcher, fresh, gen>>

Create(f) ==
  /\ Do("create", f)
  /\ absent' = absent \ {f}
  /\ UNCHANGED <<setupVars, certVars, watchVars, disk, gen, pairs>>

----------------------------------------------------------------------------

MainStep ==
  \/ parseFlagsAndHandleShowVersion \/ New \/ kubeConnect
  \/ ReadFirstCert \/ ReadFirstKey \/ NewServer \/ Start \/ DispatchWatcher

WatcherStep == AddCert \/ AddKey \/ HandleEvent \/ ReadCert \/ ReadKey

Owner ==
  \/ \E way \in Ways : Renew(way)
  \/ Swap \/ \E f \in Files : DropOld(f) \/ Write(f) \/ Unlink(f) \/ Create(f)

Ended == ~Alive /\ UNCHANGED vars

Next ==
  \/ MainStep \/ csiConnect \/ WaitTillCSIDriverIsValidated \/ shutdownOnTerminationSignal \/ ProcessDies
  \/ WatcherStep \/ Owner \/ Ended

Spec == Init /\ [][Next]_vars

\* The goroutines run.  The waits for the driver's socket, for the driver to be
\* ready and for a signal may last for ever, and so may a renewal.
FairSpec == Spec /\ WF_vars(MainStep) /\ WF_vars(WatcherStep)

----------------------------------------------------------------------------
(* Properties.                                                             *)

\* Type invariant.  As soon as the server is made there is a certificate.
TypeOK ==
  /\ args \in Args
  /\ main \in {"flags", "new", "kube", "csi", "cert", "key", "server", "start",
               "probe", "dispatch", "wait"}
  /\ exit \in {"none", "0", "1", "2", "died"}
  /\ tls.min \in {0, 12, 13} /\ tls.suites.list \subseteq Suites /\ tls.curves.list \subseteq Curves
  /\ gen \in 1..MaxGen /\ read \in 0..gen /\ served \in 0..gen
  /\ main \in {"server", "start", "probe", "dispatch", "wait"} => served # 0
  /\ watcher \in {"none", "addCert", "addKey", "failed", "watch", "readCert", "readKey"}
  /\ watch \in [Files -> {"none", "file", "left"}]
  /\ \A i \in DOMAIN events : events[i] \in Files \X {"write", "remove"}
  /\ disk \in [Files -> 0..gen] /\ absent \subseteq Files
  /\ pairs \subseteq 1..gen /\ fresh \in BOOLEAN

\* Whatever is renewed while it is read, clients are shown a certificate whose
\* key the server has, and one that really was in place.
ServedWasPair == Listening => served \in pairs

\* A certificate that was replaced is not served again, and none is given up for
\* files that are being written.
ServedGoesForward == [][served <= served']_vars

\* A server that listens negotiates what its command line literally lists, and
\* the defaults where it lists nothing: lists of blanks lock nobody out, and a
\* name that is unknown or insecure never comes to be served.
TLSAsAsked ==
  Listening =>
    LET min    == IF args.min = "VersionTLS13" THEN 13 ELSE 12
        suites == args.suites \ {Blank}
        curves == args.curves \ {Blank}
    IN  /\ args.min # "other" /\ Other \notin suites \cup curves
        /\ \A v \in {11, 12, 13}, s \in Suites, c \in Curves :
             Negotiates(v, s, c) <=>
               /\ v >= min
               /\ v = 13 \/ s \in suites \/ (suites = {} /\ s \in DefaultSuites)
               /\ c \in curves \/ curves = {}

InPlace == todo = <<>> /\ \A f \in Files : disk[f] = gen
Current == served = gen

\* A certificate that is renewed while both watches are set is served, without a
\* restart and however the renewal and the reads interleave, unless the process
\* ends, the next renewal begins or a file was away when its watch was renewed.
RotationIsServed ==
  (watcher = "watch" /\ fresh /\ InPlace) ~> (Current \/ ~InPlace \/ ~fresh \/ ~Alive)

\* The comment on CertWatcher (certwatcher.go:31): when either file changes, it
\* reads both.  In a sidecar that serves, a certificate that is in place is
\* eventually the one that is served.
ChangesAreRead ==
  (watcher = "watch" /\ InPlace) ~> (Current \/ ~InPlace \/ ~Alive)
=============================================================================
