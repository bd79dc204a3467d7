# A verification project for external-snapshot-metadata

`external-snapshot-metadata` is a sidecar of a CSI driver. It serves the
`SnapshotMetadata` gRPC service to backup applications: a caller names a
VolumeSnapshot and gets a stream of records that list the allocated blocks of
the snapshot, or the blocks in which it differs from a base snapshot. The
sidecar authenticates and authorizes the caller, finds the CSI handles and the
secret in the Kubernetes API, calls the driver and relays its stream. The
package `pkg/iterator` is the client side: a library, and two command line
tools built on it.

This directory holds TLA+ models of that code, configurations under which TLC
checks them, and theorems about them that TLAPS proves.

## 1. The system

| Part | Source (`src/`) | State | Operations | Talks to |
|---|---|---|---|---|
| Handlers | `pkg/internal/server/grpc/get_metadata_*.go` | per call: context with deadline, stream from the driver, stream to the client | `GetMetadataAllocated`, `GetMetadataDelta`: validate, authenticate, authorize, readiness, convert the request, call the driver, relay | Kubernetes API, driver, client, metrics |
| Snapshot lookup | `snapshot.go`, `snapshotter_secret.go`, `grpc/get_metadata_*.go` (conversion) | none; reads objects that others change | `getVolSnapshotInfo`, `getDefaultVolumeSnapshotClassForDriver`, `getSnapshotterCredentials` | Kubernetes API |
| Authentication, authorization | `grpc/auth.go`, `pkg/internal/authn`, `authz` | none; reads objects that others change | `getAudienceForDriver`, `Authenticate`, `Authorize` | Kubernetes API |
| Server and health | `grpc/server.go`, `health.go` | listener, connections, serving status, update channels of `Watch` | `Start`, `Stop`, `CSIDriverIsReady`, `isCSIDriverReady`, `shuttingDown` | `sidecar.Run`, clients |
| Process | `pkg/sidecar/sidecar.go`, `cmd/csi-snapshot-metadata` | goroutines of main, of the gRPC and of the HTTP server, signal channel | `Run` | driver, operating system |
| Runtime | `pkg/internal/runtime` | API clients, connection to the driver | `New`, `WaitTillCSIDriverIsValidated`, metrics | driver, Kubernetes API |
| Iterator | `pkg/iterator/iter.go` | record count, the client's stream | `GetSnapshotMetadata`: validate, service account, driver, service object, token, connection, receive loop | Kubernetes API, sidecar, emitter |
| Emitters | `pkg/iterator/emitters.go`, `tools/snapshot-metadata-verifier` | position in a list or on two devices | `SnapshotMetadataIteratorRecord`, `SnapshotMetadataIteratorDone` | iterator, files, devices |
| Tools | `tools/` | none but the context that a signal cancels | flags, construction of clients and emitter, exit code | iterator, devices, stdout |
| Set-up, TLS | `pkg/sidecar/sidecar.go`, `pkg/internal/tlsconfig`, the certificate watcher of the snapshotter's library | the TLS configuration; the certificate that is served, reloaded by a watcher | flags, `Args.Validate`, `New`, parsing of versions, suites and curves, `NewCertWatcher`, `Start`, `Watch` | files, gRPC server |

`PROJECT.json` lists these parts, with the modules and the status of each, and
the hazards of the code at their lines.

### How they interact

    driver --stream--> handler (sidecar) --stream--> iterator --call--> emitter
                          |                             |
                    Kubernetes API                Kubernetes API

Both arrows called *stream* are gRPC server streams with flow control. The two
sides read the Kubernetes API on their own: the iterator to find the sidecar,
the token's audience and the base's handle; the sidecar to check the token and
to find the handles and the secret. Neither side sees the other's reads.

In the process of the sidecar the handlers share the readiness (the status of
the health server), the connection to the driver and the end of the process:
a stop lets calls finish, and the loss of the driver's connection, a failure of
either server goroutine or a panic in any handler ends all of them.

### What is hard, and what makes each part correct

* **Relay.** Records are in several places at once: the driver's stream, the
  handler's hand, the client's stream, the emitter's. The deadline, the client's
  cancellation, a broken connection, an error of the driver or the end of the
  process may come at any time, also after the last record and before its
  status. *Correct*: no record is lost in the middle, repeated or reordered;
  completion is reported only for a whole enumeration; an error has the cause it
  names; an enumeration ends; a cancellation reaches the driver.
* **Life of the process.** The port is open before the driver is validated,
  which may take for ever. Signals arrive at any point. A stop races with
  connections being accepted and calls being admitted, and the goroutine of
  `Serve` may not yet run. *Correct*: only a validated driver is called; a
  graceful exit cuts no call that was admitted; watchers of the health service
  know the current status; a signal is heard, startup and stop end.
* **Lookup.** Up to eight reads of objects that change between any two of them: a
  snapshot may be deleted and made again under its name, default classes and
  secrets may change. Whether a snapshot is ready may be unknown, which is refused
  of the target and let pass of the base. *Correct*: what is sent to the driver was
  true at an instant of the call, of the base as far as the code asks; a refusal
  has its cause; in a cluster that is left alone
  all the reads together decide as one look would.
* **Admission.** The iterator and the sidecar read the audience each on their
  own, the token is reviewed before the right is asked for, and each request may
  fail. *Correct*: an admitted caller was entitled; a refusal's code is true; in
  a cluster left alone admission is exactly the set-up's.
* **Order.** The iterator's requests for its admission and its reads of snapshots
  alternate, the sidecar's follow, and between them comes its look at its own
  readiness. *Correct*: a snapshot is read, and spoken of, for entitled users
  only; in a cluster left alone the first obstacle decides.
* **Verifier.** Blocks, chunks, short reads and the ends of two devices.
  *Correct*: only listed positions of the target change, and only to what the
  source holds; the verdict is about the enumeration and not about the copy; the
  loops end.
* **Tools.** A list of JSON is begun with the first record and ended by `Done`;
  writes to stdout fail unnoticed; an enumeration may fail or be interrupted at
  any record, and a table may be continued from where it ends. *Correct*: what
  parses is whole; an exit code of 0 means success; a table that is continued has
  no gap and no row twice; a tool that is interrupted ends.
* **Set-up.** The certificate and its key are two files, read one after the other
  while someone else replaces them; the first read and the setting of the watches
  are far apart. *Correct*: what is served was a pair and gives way only to a newer
  one; what is renewed comes to be served; the TLS configuration is literally the one asked for.

## 2. The modules

| Module | What it is | Lines |
|---|---|---|
| `Enumeration` | abstract: what a backup application is promised | 66 |
| `SidecarPhases` | abstract: what the life of the sidecar promises its calls | 51 |
| `MetadataStream` | the relay, from driver to emitter; refines both | 694 |
| `Lifecycle` | the process of the sidecar; refines `SidecarPhases` | 466 |
| `SnapshotLookup` | the reads of snapshot, content, class and secret | 430 |
| `CallAuth` | the requests by which a call is admitted | 339 |
| `Request` | a whole call up to the request to the driver; composes `CallAuth` and `SnapshotLookup` | 184 |
| `VerifierEmitter` | the emitter of the verifier | 295 |
| `Tools` | the lister and the verifier from the flags to the exit code; extends `VerifierEmitter` | 294 |
| `ServerSetup` | the command line, the TLS configuration and the certificate of the sidecar | 372 |
| `*_proofs` | the theorems about the module of that name | |
| `MC*` | symmetry sets and functions for TLC; the `.cfg` give the rest | |

A definition that is only there for a mutant carries "(Mutant: ...)" in its
comment and is not used by the specification.

### `MetadataStream`

Two gRPC streams and two loops for each call:

    driver --csiQ/csiEnd--> handler --cliQ/cliEnd--> iterator -> emitter

| Variables | Code |
|---|---|
| `it`, `itHand`, `recordNum`, `emitted` | the receive loops of `iter.go` and what the emitter accepted |
| `cliQ`, `cliEnd`, `strDone` | the client's stream: responses on the way, its end, the server-side context |
| `pc`, `hand`, `ret`, `ctxErr`, `metric` | the handler: its place, the response between `Recv` and `Send`, its result, the context with `MaxStreamDur`, what is recorded |
| `csiQ`, `csiEnd`, `drv`, `sent` | the driver's stream, the driver, and all it ever sent |
| `sidecar`, `csiConn` | the process and its connection to the driver |

Actions are named after the code: `Validate`, `AuthenticateAndAuthorize`,
`IsCSIDriverReady`, `ConvertRequest`, `CallDriver`,
`streamGetMetadataAllocatedResponse`, `streamGetMetadataDeltaResponse`,
`Finish` for the handler; `Call`, `getAllocatedBlocks`, `getChangedBlocks` for
the iterator; `HandlerTimeout`, `ApplicationCancels`, `ResetArrives`,
`ConnectionBreaks`, `ContextClosesStream`, `LostConnectionClosesStream`,
`DriverStops` for what happens around them. The driver sends any record at any
time and ends when and how it likes. The order of the handler's checks and the
code of each return are the code's; why a request is refused is the subject of
`CallAuth` and `SnapshotLookup`.

What the model takes from gRPC, as the code uses it: a stream is a FIFO; its
status comes after the records that arrived before it; when a stream is closed
by a context or a lost connection any suffix of what was on the way may be lost
(`Prefixes`); `Send` blocks while the quota is used up and is released only by
the end of the client's stream.

*Bounds.* `MaxRecords` records per call; windows `CsiWindow`, `WriteQuota`,
`ClientWindow`. They count records where gRPC counts bytes. Three records fill
both hands and a window of one, so that each place may be full or empty while a
fourth event happens; two record values tell an order from a repetition.

### `Lifecycle`

`main` follows `sidecar.Run` from `runtime.New` to its return, with
`GracefulStop` opened up into its steps (`Quit`, `CloseListeners`, `WaitServe`,
`DrainAllServerTransports`, `WaitConnectionsAndHandlers`), because other
goroutines act between them. `serve` and `http` are the two goroutines that end
the process with `klog.Fatalf`. `status`, `update` and `told` are the health
server, its one-place channel per `Watch` call and what the watcher last heard.
`sigChan` has room for one signal. `conn` and `rpc` follow each client's
connection and its call; a client has one of each, and more clients stand for
more calls. `plugin` and `capable` are the driver under validation.

`SidecarPhases` joins this module to `MetadataStream`: each implements it with
its own notion of a call that is being served, so what `MetadataStream` assumes
of its simple process (readiness opens once, closes with the stop, a graceful
exit waits for the handlers) is what `Lifecycle` provides.

### `SnapshotLookup`

The cluster is the users, administrators and the snapshot controller: any of
them may change any object between any two reads. A snapshot has incarnations,
numbered by their UID; its content and its CSI handle are those of the
incarnation, so "the right handle" is "the right UID". One call reads, in the
code's order: driver's snapshot and content, base's snapshot and content (the
iterator); target's snapshot, content, class and secret (the sidecar). History
variables remember which incarnations were ready and which classes were right
at some instant of the call, and whether anything changed (`quiet`).

`ReadyToUse` is a pointer in the status of a VolumeSnapshot and of a content, and
nil says that the readiness is unknown: the stage "unknown" of a snapshot that is
bound to a content, and the content "unknown" that has its handle. The sidecar asks
for a true, and looks at the target alone (`GetVolumeSnapshot`,
`GetVolumeSnapshotContent`). The iterator refuses only a false ("Check
ready-to-use if set, otherwise ignore", `iter.go:451`, `:477`; the tests at
`iter_test.go:949` and `:1085` have the nil): `GetPrevSnapshot` and
`GetPrevContent` let a base pass that is `Undenied`. Nobody looks at the base again,
so its handle may go to the driver although it was ready at no instant of the call.
`RequestWasTrue` claims of a base what the two reads do establish: `wasOpen` holds
the incarnations that a read of the VolumeSnapshot would have let pass at some
instant of the call, and `wasUsable` those of them whose content a read would have
let pass then or later. Of the target it claims that it was ready.

*Bounds.* `MaxUid` incarnations: two allow the target to be deleted and made
again during the call, three give the base one more. Three classes of two
drivers give none, one and several defaults with another driver's between them.
The state constraint `InstanceBound` of `MCSnapshotLookup` keeps a run to one of
two instances: no base, two incarnations, and all drivers, classes and secrets,
where no snapshot names the class `k2`, only `k1` is ever there without being
a default (a class that is named is `k1` or the other driver's `k3`) and every
content says whether it is ready; or three
incarnations of targets and bases with one driver and one default class, for a
delta. The choice of the class does not depend on the base, so what the constraint
leaves out are combinations of two reads that do not touch. Snapshots pass
through "unknown" in both, contents in the second: a delta whose base is at no
instant ready is sent to the driver in the run.

### `CallAuth`

The same method for the requests of admission: `Begin` (`Args.Validate`),
`getDefaultServiceAccount`, `getSnapshotMetadataServiceCR`,
`createSecurityToken`, `getGRPCClient`, `Connect` for the iterator;
`getAudienceForDriver`, `Authenticate`, `Authorize` for the sidecar;
`OtherClient` for clients that are not the iterator and bring any token. The
initial state is *any* cluster, and it changes only during the call: what
happened before does not matter to it. A token is bound to the incarnation of
its account and may expire. `aware` is whether the reviewer of tokens knows of
audiences, which the Kubernetes API leaves open and the code allows for.
`RequestFails` is every request to the Kubernetes API that may fail, and
`grpc.NewClient`, which may not take the address it is given (`iter.go:352`).

*Bounds.* `CallAuth` is checked in the run of `Request`, whose theorems say that it
is a part of it: one account, which may be deleted and made again once; two
audiences and two CAs, a right and a wrong one of each, and a CA bundle that does
not parse; one namespace.

### `Request`

`Request` extends `CallAuth` and has `SnapshotLookup` as the instance `Lookup`,
with `read`, `driverGiven`, `readCode`, `calm` and `made` for its `pc`, `given`,
`code`, `quiet` and `last`. `MayRead` and `MayAuthenticate` are the order of
`iterator.run` and of the handlers: service account, driver's name, object, token,
client, base (`iter.go:218-270`); then admission, readiness, target
(`get_metadata_*.go`). `isCSIDriverReady` is the one step of its own, on the
`health` that `setReady` and `shuttingDown` change; why they are called is the
subject of `Lifecycle`. Every other step is one of `CallAuth` or of
`SnapshotLookup`, guarded by the order and by nothing having failed (`Over`).
`ReadForTheEntitled` says what the sidecar may have looked up, and for whom;
`FirstObstacleDecides` compares an undisturbed call with `ExpectedOutcome`, one
look at both halves of the cluster, with the obstacles in the order of the code.

*Bounds.* `InstanceBound` of `MCRequest` keeps a run to one of two instances: the
whole admission (two audiences, two CAs, an account made again) and no snapshot; or
both halves, the admission with one of everything and one incarnation each of
target and base, or two of one. In the second the one class is set up before the
snapshots are made, none names it or is deleted before the call, of a target and a
base the base is made first (the UIDs could be exchanged), only the base's
VolumeSnapshot and content may not say whether they are ready (what becomes of such
a target is in the run `lookup`), and a content has come further than "new" only
where its VolumeSnapshot is bound. The call is disturbed in one half at a time,
while the other is as a call needs it: a step of one half does not read the other,
so what is left out are pairs of disturbances that do not meet. Audiences and CAs
are symmetric: the run checks invariants only, and none names one of them.

### `VerifierEmitter`

Two devices as sequences of values, the loop over blocks and chunks
(`Seek`, `ReadChunk`, `WriteChunk`), the comparison (`CompareChunk`) and every
failure of a read, a write, a seek or the enumeration. A write that fails may
have written part of the chunk, and a read may return less than there is. The
history variable `disturbed` remembers that a read failed or was short while the
devices were compared; then the verdict `mismatch` is not claimed to be right,
since two reads of different lengths are a mismatch to the code.

*Bounds.* Devices up to three, chunks of two, two records of up to two blocks at
0 and 1 of sizes 1 and 3: blocks that are less than a chunk, a chunk and a
rest, overlapping, across the end of a device, and beyond that of a short one;
devices of equal and of different lengths.

### `Tools`

One tool runs: the lister with its table, the lister with its JSON, or the
verifier. `at` follows its main goroutine (`ParseFlags`, `buildConfig`,
`BuildClients`, `OpenSource`, `OpenTarget`, the call, `Done`), `exit` is how it
ended. What the lister enumerates are the blocks `1..NumBlocks`; `EmitJSON` and
`EmitRow` are the writes to stdout, each of which may be lost (`WriteIsLost`)
without the code looking at its error; `out` is the JSON as a sequence of marks
and records, `rows` the table. In the verifier the steps of `VerifierEmitter`
take the place of the writes. `Interrupt` is SIGINT: before `NotifyContext` it
kills the tool, from then on it cancels the context and the enumeration fails at
its next wait. `Resume` is a user who runs a failed lister again with
`-starting-offset` set to the end of the table's last row; the driver then
enumerates from that offset, as the protocol asks of it.

*Bounds.* Four blocks in records of one or two, so that a failure comes before,
in the middle of and after a record and a table may end within one; three runs,
so that a run that resumed is resumed. The verifier's devices are those of
`VerifierEmitter`.

### `ServerSetup`

`main` follows `sidecar.Run` again, this time for its data: `args` is any command
line, as sets of names with blanks and unknown ones among them; `tls` is what
`NewServer` makes of it. `served` is the `currentCert` of the watcher, and
`watcher` the goroutine that sets the watches and then reads. `disk` and `absent`
are the two files; their owner renews the certificate with the steps of one of
three ways: the swap of a symbolic link as the kubelet does it, writes into
the files, or their deletion and creation. inotify watches are on files and not
on names: `watch` says for each whether it is on the file that has the name now.
A renewal always brings a new key, so that the contents of a certificate and of
its key match only if they are of the same renewal.

*Bounds.* Two suites and a curve, each list any subset of them with a blank and
an unknown entry. Two renewals (`MaxGen = 3`), so that one may begin when the
watcher is at any point of reading the other.

## 3. The runs

| Run | Question | Bounds |
|---|---|---|
| `stream_one` | one delta call with a client that keeps reading: `RecordsInOrder`, `CompleteMeansWhole`, `FailureHasItsCause`, refinement of `Enumeration`; `EnumerationEnds`, `DriverIsReleased`, `StopReturns` | 3 records of 2 values, windows 2/1/1 |
| `stream_two` | two allocated-block calls in one process: `GracefulExitBreaksNoStream`, refinement of `SidecarPhases` | 1 record each, windows 1/1/0 |
| `life` | two callers and a watcher that leave at some time: `ServedByCapableDriver`, `WatchUpToDate`, refinement of `SidecarPhases`; `StartupEnds`, `SignalIsHeard`, `StopTerminates` | one connection and call per client |
| `lookup` | `RequestWasTrue`, `RefusalHasCause`, `QuietMeansExact`, with and without a base | 2 drivers, 3 classes, 1 secret, 2 incarnations without a base, 3 with one |
| `request` | a whole call: `AdmittedWasEntitled`, `RefusalIsTrue` and `QuietMeansExact` of `CallAuth`; `ReadForTheEntitled`, `FirstObstacleDecides` | 1 account with 2 incarnations, 2 audiences, 2 CAs; 1 driver, class, secret, 2 incarnations of snapshots |
| `tools` | the verifier: `CopyKeepsToBlocks`, `CopiedIsSame`, `VerdictIsRight`, `LoopsComeToAnEnd`, `EmitterReturns`; the lister: `ParsedIsWhole`, `ResumeLosesNothing`; both: `ExitCodeIsHonest`, `InterruptEnds` | devices up to 3, chunks of 2, 2 records of up to 2 blocks; 4 blocks to list, 3 runs |
| `setup` | `ServedWasPair`, `TLSAsAsked`, `ServedGoesForward`, `RotationIsServed` | 2 suites, 1 curve, 2 renewals in 3 ways |

A fairness condition adds no state, so the runs that check liveness check safety
in the same pass. The type invariants of `SnapshotLookup` and `CallAuth` are
left to their proofs; that of each other module is checked in its first run (that
of `Tools` includes that of the emitter it runs). `Quiescent` and
`Ended` name the states in which a model may stop, so that TLC's search for
deadlocks stays on in all of them.

Five more runs end in a violation, each of one property that quotes the
repository (section 6): `stream_idle_client`, `stream_metrics`, `life_watcher`,
`lookup_new`, `certificate`.

Every property of a passing run is also run against a changed definition, a bug
that could plausibly be in the code there, and is violated by it
(`PROJECT.json`, `mutants`).

*Symmetry* is used for the sessions of `stream_two`, and never in a run with
liveness properties.

### Fairness

* `MetadataStream`, `SidecarFairness`: goroutines that can run do run (the
  handlers, `GracefulStop`, `ExitOnConnectionLoss`); timers fire
  (`HandlerTimeout`: `context.WithTimeout`); the transport delivers resets and
  the ends of streams. `ClientFairness`: the application's loop calls `Recv`
  again, which is what `iter.go` does. Nothing is assumed of the driver, of
  signals, of the application's cancellation or of the driver's connection.
  `IdleClientSpec` leaves `ClientFairness` out.
* `Lifecycle`, `FairSpec`: `sidecar.Run` goes on, `Serve` is scheduled and sees
  its listener closed, handshakes end (grpc-go bounds them), GOAWAYs arrive, a
  handler returns (`EnumerationEnds` and `HandlerTimeout` in `MetadataStream`)
  and a `Watch` call does its sends. `LeavingClientsSpec` adds that clients do
  not stay connected for ever; `life_watcher` shows that without it
  `StopTerminates` fails.
* `Tools`, `ToolsFairSpec`: the process runs, its devices and stdout answer
  (`Local`), and a request whose context is done ends (`Cancelled`), which gRPC
  and client-go guarantee. Nothing is assumed of the network, of the driver, of
  signals or of the user. `EmitterReturns` and `InterruptEnds` need no more.
* `ServerSetup`, `FairSpec`: `sidecar.Run` goes on (`MainStep`) and so does the
  goroutine of the watcher (`WatcherStep`). The waits for the driver's socket, for
  the driver to be ready and for a signal are not fair, and neither is the owner
  of the files, who may leave a renewal half done.

## 4. What is proved

Every safety property of a passing run is a theorem: the type invariants, the
invariants, the action properties and the refinements. A theorem holds for all
values of the constants that satisfy the module's assumptions:
`SessionsAssumption`, `CodesAssumption`, `BoundsAssumption` (windows and bounds
are natural numbers), `ClientsAssumption` (a client is a caller or a watcher),
`LookupAssumption`, `AuthAssumption`, `RequestAssumption` (both of them, for the
constants of `Request`), `VerifierAssumption`, `SetupAssumption`,
`ToolsAssumption` (kinds of values are told apart; classes have a driver and a
secret or none; the default suites are suites; there is at least one generation
of the certificate and one run of a tool). There is no bound on calls, records,
windows, incarnations, classes, device lengths, block sizes, renewals, blocks to
list and runs of a lister: where TLC bounds them, in `InstanceBound` or in a
`.cfg`, the theorems do not.

* **`MetadataStream_proofs`**: `TypeCorrect`, `StreamInvariant`, `InOrder`,
  `NoSilentTruncation`, `TrueCauses`, `GracefulExit`,
  `StreamImplementsEnumeration`, `StreamImplementsPhases`, `WorkIsBounded`,
  `StepsProgress`.
  `RecordsInOrder` is not inductive: it says nothing of records that the handler
  holds or that the driver has sent and the handler has not received. `StreamInv`
  adds, per call, where a record may be at each point of the two loops
  (`ControlInv`), and that the concatenation emitter, iterator, client's stream,
  handler, driver's stream *equals* what was sent as long as no stream has been
  cut, and begins it afterwards (`DataInv`). `CompleteMeansWhole` then follows
  from the stream's end alone: an end "OK" of the client's stream implies that of
  the driver's. `CauseInv` is what `FailureHasItsCause` needs of the calls that
  still run: while a handler runs, a cancelled context is its client's doing, and
  the end of the driver's stream is the driver's answer or that context's.
  `ExitInv` says that an open stream has a running handler, that only a crash
  breaks a stream, and that a process that has exited had flushed every call;
  `GracefulExitBreaksNoStream` is then immediate. The two refinements are a step
  simulation under the invariant.
  The last two theorems are the part of termination that needs no fairness.
  `Work` gives every call a number: what its records weigh by how far they have
  come, and ranks of the places of the handler's and the iterator's loops, of the
  contexts and of the ends of the two streams. It starts at
  `5 * MaxRecords + 22`, and every step that is not a stutter takes from the work
  of one call, or of the process, and adds to none: cancellation, timeout, reset
  and broken connection cannot chase each other, and nothing is retried. Every run
  of finitely many calls whose drivers send finitely many records therefore comes to
  rest and, by the search for deadlocks that TLC makes on small instances, can do
  so for want of a successor only where the model is `Quiescent`. The measure is a
  definition of the proof module, and its bound `MaxRecords` is one of the model
  and not of the code: what stops a driver that would send forever is the
  handler's timeout, which closes its stream.
* **`Lifecycle_proofs`**: `TypeCorrect`, `RunInvariant`, `ServedByCapable`,
  `WatchersUpToDate`, `LifecycleImplementsPhases`. `RunInv` ties the status of
  the health server to the place of `sidecar.Run` and to the driver that was
  found, and says that at `returned` no handler is active.
* **`SnapshotLookup_proofs`**: `TypeCorrect`, `LookupInvariant`, `RequestIsTrue`,
  `RefusalCaused`, `QuietCalls`, `QuietIsExact`. The invariant follows the reads:
  what has been found at each point has the name it was asked for, and was ready at
  an instant of the call if it is the target; if it is the base, it was `Open`
  from its first read on, and `Usable` at an instant after that from its second;
  incarnations that exist have an origin that does not change. `QuietMeansExact` needs a second one, of the calls that nothing has
  disturbed: what each read has established is still so at the next
  (`QuietDriver`, `QuietBase`, `QuietTarget`), and a snapshot that is bound has its
  content (`ContentInv`). `LookupAssumption` had to
  say that an invalid secret reference is neither a secret nor none.
* **`CallAuth_proofs`**: `TypeCorrect`, `AuthInvariant`, `AdmittedEntitled`,
  `RefusalTrue`, `QuietExact`. `MomentInv` says that the history of the call
  contains the present for as long as the sidecar is at it; `QuietInv` what has
  been established at each point of an undisturbed call.
* **`Request_proofs`**: `ImplementsAuth`, `ImplementsLookup`, `OrderKept`,
  `ForTheEntitled`, `FirstObstacle`. Every step of `Request` is a step of each half
  or leaves it alone, so the theorems of both halves hold of the whole call
  (`HalvesKeep`; those of `SnapshotLookup` through the instance `Reads` of its proof
  module, which `SameCallStep` and the other lemmas of that kind identify with
  `Lookup`). What is left to prove is what relates the halves. `OrderInv` says which
  places of one go with which of the other: that a target has been looked for only
  if the call is admitted and the sidecar was ready, that a call in the sidecar has
  its base, that a client was made with a CA. `ForTheEntitled` is then the two
  halves' `AdmittedWasEntitled` and `RequestWasTrue` put together, with what that says
  of a base and no more.
  `FirstObstacleDecides` is proved at the one step that ends a call, by a
  lemma for each kind of step (`AuthObstacle`, `ClientObstacle`,
  `ReadinessObstacle`, `TargetObstacle`): `Undisturbed` collects from both `QuietInv`s
  and the order which obstacles the call has passed at each place, so that the
  one it has met is the first.
* **`VerifierEmitter_proofs`**: `TypeCorrect`, `EmitterInvariant`,
  `KeepsToBlocks`, `Copied`, `Verdict`, `LoopsEnd`. The invariant has four parts: both file
  positions agree with the block and the count (`PositionInv`), what has been
  written of the block in hand (`PartInv`), that blocks in hand are listed
  (`ListInv`) and that what has been compared is equal (`CompareInv`).

  `LoopsEnd` is the part of `EmitterReturns` that is not about fairness: the pair
  of the blocks in hand and `TurnsLeft` is smaller after each step of the emitter,
  so that no run of it has infinitely many, whatever the reads return.
* **`ServerSetup_proofs`**: `SetupInvariant`, `TypeCorrect`, `ServedCorrect`,
  `TLSCorrect`, `ServedForward`. A read that finds the certificate `n` and later
  the key `n` shows that both were in place at once only because the owner puts
  the key in place last. `RenewalInv` lists what may be left of a renewal before
  (`CertToDo`) and after (`KeyToDo`) the new certificate is there, and that it is
  there in the second case; then a key on the disk was there together with its
  certificate (`PairInv`). `TLSInv` says that a command line that is not valid
  does not get beyond `New` and that `tls` is what the parsers make of it;
  `TLSCorrect` then follows from the parsers alone. `ServedForward` needs that a
  key on the disk is never older than the one that is served (`ForwardInv`).
* **`Tools_proofs`**: `ToolsRunTheEmitter`, `ToolsInvariant`, `ToolsTypeCorrect`,
  `ParsedWhole`, `ExitHonest`, `ResumeCorrect`, `ToolsEmitter`. Every step of the
  tools is a step of `VerifierEmitter` or leaves it alone, so its theorems hold
  in the tool, and "0 means equal devices" comes from its invariant. For the
  lister, `TableInv` says that `rows` are the numbers from the first run's first
  block on and that each run starts or goes on where they end, also between
  `Kill` and `Resume`; `JSONInv` that the JSON is an open list until `Done`, a
  mark and a record in turn, that lists what lies between the starting offset and
  the emitter's position. An open list does not parse, since its second piece is a
  record and a longer one has an even number of pieces (`OpenDoesNotParse`).
  What a list lists is defined with `FlattenSeq`, a recursive function. The lemmas
  about it (`FlattenExists`, `FlattenAgrees`, `FlattenAppend`, `ListedAppend`) go
  by a smallest counterexample: `Least`, from the well-foundedness of the natural
  numbers, takes the place of an induction.

*Model-checked only.* Liveness: `EnumerationEnds`, `DriverIsReleased`,
`StopReturns`, `StartupEnds`, `SignalIsHeard`, `StopTerminates`,
`EmitterReturns`, `InterruptEnds`, `RotationIsServed`. It needs fairness and
ENABLED, which are beyond this prover; for the stream, `StepsProgress` excludes
that a run goes on forever, and not that it stops too soon. So are, by their nature, the properties of
the runs that end in a violation.

## 5. What is not modelled

* The text of what is printed: a row of a table and a record of JSON are one
  write each, and a write is lost as a whole.
* The contents of a record, but for the order of its blocks in `Tools`: the
  handler passes records and `starting_offset` through, and so does the model of
  the relay (a record is a value). That the offset is honoured is up to the driver.
* Flags that no property tells apart (ports, rates, paths, timeouts), and widths
  of integers (section 6).
* Renewals that rename files: the watcher does nothing about a file that is moved
  away, and a new file that is moved over the old one is, to the watch, the
  removal of the old one, as in the way "swap" but one file at a time.
* The parsing of certificates. A key that is kept when the certificate is renewed
  would match old and new alike.
* Addresses. That `grpc.NewClient` does not take the one it is given is a failure
  that may happen to any call, not a part of the set-up that `QuietMeansExact` and
  `FirstObstacleDecides` speak of.
* The metrics registry and the HTTP endpoint, but for the name and the code
  under which a call is recorded.
* Generated messages, informers, listers and fakes (nothing in the program starts
  an informer), mocks, the test harness and `runtimeArgsToArgv`, which tests
  alone use, and the vendored libraries, of which the models hold what the code
  relies on.

## 6. Where the code and its documents disagree

| Run | Property | Where | What |
|---|---|---|---|
| `stream_idle_client` | `HandlerAborts` | `get_metadata_allocated.go:196` | `Send` is not bounded by `MaxStreamDur`: a client that stays connected and does not read keeps its handler, and a graceful stop, waiting. `server.go:54` says the handler aborts. |
| `stream_metrics` | `MetricNamesOperation` | `get_metadata_delta.go:48` | a delta is recorded as an allocated-block enumeration |
| `life_watcher` | `StopTerminates` | `server.go:179` | `GracefulStop` waits for `Watch` calls of the health service, which nothing ends |
| `lookup_new` | `UnreadyIsUnavailable` | `snapshot.go:70` | the status of a VolumeSnapshot that the controller has not seen is nil, and is dereferenced |
| `certificate` | `ChangesAreRead` | `sidecar.go:102`, `:143` | a certificate that is renewed after the first read and before the watches are set is not read until the next renewal; `certwatcher.go:31` says that a change is read |

Noticed without a run, because a single state shows them or no run could add to
reading the line:

* `iter.go:149`: one of `SAName`, `SANamespace` without the other is refused; the
  comment at line 127 says that the default is used. `CallAuth` has the refusal.
* `iter.go:213`: the comment on `run` says that an enumeration aborted by its
  emitter returns `ErrCancelled`; it returns the emitter's error, and nothing
  returns `ErrCancelled`.
* `emitters.go:46`: the errors of writes to stdout are dropped, so a lister whose
  output is lost still exits with 0. `ExitCodeIsHonest` and `ParsedIsWhole` make
  an exception of it.
* `emitters.go:53`: `listNotEmpty` is not reset by `Done`, so a `JSONEmitter` that
  is used for a second enumeration, an empty one, writes a single `]`. The lister
  makes a new emitter each time.
* `sidecar.go:323`: the product of `maxStreamingDurMin` and a minute may overflow.
* `iter.go:451`, `:477`: the iterator takes a base whose readiness is unknown, and
  the sidecar refuses such a target (`snapshot.go:70`, `:90`). The comments and tests
  of the iterator want it so, and no document promises that a base is ready; the
  model follows the code (section 2, `SnapshotLookup`).
* `-max-results` is an `int` in the tools and an `int32` in the request.

`NoSilentTruncation` is about the process that panics as well: the records of
its other calls are cut off, and none of them is reported complete.

## 7. Plan

Done, in this order, the most important behaviour first: `Enumeration` and
`MetadataStream`; `SidecarPhases` and `Lifecycle`; `SnapshotLookup`;
`VerifierEmitter`; `CallAuth`; with their runs and proofs. Then `Tools`, which
composes the verifier's emitter with the process around it and adds the two other
emitters, offsets and resumption; and `ServerSetup`, with the command line, the
pure functions of the TLS configuration and the certificate; and their proofs, with
that of `QuietMeansExact` of `SnapshotLookup`. Last,
`Request`, which composes `CallAuth` and `SnapshotLookup` with the order of the
iterator's and the handler's checks, and its proofs.

What could come next: `Request` and `MetadataStream` as one module (the relay has
the checks of a call as three steps that may fail), and pre-provisioned contents
in `SnapshotLookup`.
