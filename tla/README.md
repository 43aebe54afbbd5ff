# A verification of jbl-aura-link

The program keeps a JBL Authentics 300 and an Aura Studio 5 playing together.
Joining them takes three role writes over three transports (JBL Play Together
over HTTPS, the JBL broadcaster over GATT, the Aura receiver over a Bluetooth
ATT bearer), none of which is transactional and each of which may be applied
without an answer. The central promise of the code is therefore about
uncertainty: a role write whose outcome is not known is never forgotten, never
retried blindly, and blocks ordinary actions until one explicit, bounded
recovery has been verified, across crashes of the process and of the host.

This directory models that promise and the parts of the code it rests on,
checks it with TLC, and proves with TLAPS every safety property.

## 1. Inventory

| Part | Source | State that matters | Status |
| --- | --- | --- | --- |
| Pair controller | `rust/src/controller.rs` | managed state, latch, failure count, revision | `PairController` |
| Backend contract | `rust/src/backend.rs` | result of an action, health | `PairBackend` |
| Uncertainty journal | `rust/src/journal.rs` | two files, directory syncs | `UncertaintyJournal`, `FileJournal` |
| Native pair backend | `rust/src/backend_native.rs` | lifecycle, latch, bearer, armed observer, roles | `NativePair` |
| The service composed | `rust/src/service_runtime.rs:195` | all of the above | `PairService` |
| Aura control core, bearer, scan | `rust/src/aura_bluez.rs` | socket, latch, retries, deadline, device objects | `AuraChannel`, `AuraAcquire`, `FreshScan` |
| A2DP wake | `rust/src/aura_wake.rs` | held profile, deadline | `AuraAcquire` |
| GENA observer | `rust/src/broadcast_gena.rs` | subscription, event key | `GenaObserver` |
| Service runtime, web, local client | `rust/src/service_runtime.rs`, `main.rs`, `web*.rs`, `local_client.rs` | revision, CSRF token, requests under way, signal | `WebControl` |
| Process ownership | `rust/src/service_runtime.rs:250-430`, `bin/jbl-aura-link` | two locks, launch reservation | `Ownership` |
| Host guard of the launcher | `bin/jbl-aura-link:613-921` | PulseAudio modules, A2DP profile, their two records | `HostGuard` |
| v0.4 session | `lib/jbl_aura_session.py` | state file, roles, lock | `SessionSupervisor` |
| JBL GATT broadcaster | `rust/src/jbl_gatt.rs` | bearer, MTU, request in the air | `JblGatt` |
| HTTPS control | `rust/src/control.rs`, `client.rs`, `tls.rs` | connection, pin, forms under way | `JblHttps` |
| v0.4 adapter | `rust/src/backend_legacy.rs` | deadline, backlog, lines not taken up | `LegacyBackend` |
| What these three promise | `rust/src/control.rs:124-167`, `client.rs` | one attempt per call | `OneShot` |
| One loopback connection | `rust/src/web_server.rs`, `web.rs` | bytes arrived, read, peeked | `LoopbackRequest` |
| Status answer | `rust/src/model.rs`, `controller.rs`, `web.rs`, `local_client.rs` | none: a chain of conversions | `StatusProjection` |
| Failure answer | `backend_native.rs`, `controller.rs`, `web.rs`, `local_client.rs` | none: a chain of tables | `FailureReport` |
| Configuration, private files | `rust/src/config.rs`, `private_file.rs` | a file and its temporary, syncs | `ConfigInstall` |
| Rest of the launcher, names and messages, scripts | `bin/jbl-aura-link`, `model.rs`, `error.rs`, `scripts/` | | not modelled (section 7) |

`PROJECT.json` lists the same parts, the lines every definition stands for and
the hazards with the line where each one bites.

## 2. How the parts interact

In the Rust service one thread owns everything. A request runs to completion before the next one:
`mutate` passes its gates, asks the membership probe, marks the journal, calls
one method of the backend, reduces its result, asks the probe again, clears the
journal and records the answer. What interleaves is the environment: every
system call and every exchange with a speaker may fail, and the process or the
host may die between any two of them. The modules make each of these points a
step of its own. Around that thread several processes do interleave: commands
and browser tabs that wait for the same server (`WebControl`), the v0.4 launcher,
its systemd unit and the Rust service on their locks (`Ownership`, `HostGuard`), supervisors
that follow each other (`SessionSupervisor`), and the two speakers and BlueZ,
which act on their own time (`GenaObserver`, `AuraChannel`, `AuraAcquire`,
`FreshScan`).

    UncertaintyJournal  <---implements---  FileJournal   (with ConfigInstall: PrivateFiles)
           |
    PairController  (abstract backend)  <---implements---  PairService
           |                                                  |
       PairBackend  <------------------------------------  NativePair
                                                              :  contracts of its exchanges
                          OneShot                GenaObserver, AuraChannel
                             ^ implements           (AuraChannel extends AuraAcquire; FreshScan)
              JblHttps, JblGatt, LegacyBackend

    WebControl        clients, server process and revisions
    LoopbackRequest   one connection of that server, byte by byte
    StatusProjection, FailureReport   what the two kinds of answer say to the client
    Ownership, SessionSupervisor      who else may drive the speakers
    HostGuard  (extends Ownership)    what the launcher takes from the host meanwhile

`Transports` puts the exchanges at the edge side by side (`JblHttps`, `JblGatt`,
`LegacyBackend`, `LoopbackRequest`, `StatusProjection`, `FailureReport`,
`FreshScan`), and `PrivateFiles` the two files the service replaces. In the
program these parts share no state, so a behaviour of such a module exercises one
of them, chosen in its initial state; nothing is lost by not interleaving them.

## 3. Modules

**UncertaintyJournal** is what the controller relies on: one bit that is read
again by a later process (`reopen`) or after a host crash (one of
`survivors`). `mark_pending` answers Ok only when every later open reads
Pending; a failed `clear` leaves the record pending.

**FileJournal** is `FileUncertaintyJournal`: an authoritative marker and a
replaceable snapshot. `files` is what a process sees, `onDisk` what a host crash
may leave; a rename or an unlink is added to `onDisk` at once and becomes the
only possibility with the next directory sync. `mark_pending` is the commits
`mark` and `remark`, `clear` is the commit `clear` and the unlink, which the code
deliberately does not sync. `open_migrating` is the one-file journal of an
earlier release.

**PairBackend** holds the vocabulary of `backend.rs`. `NoHealth` is a health
call that failed.

**PairController** is `controller.rs`, one action per stretch of code between
two calls that may fail or be cut by a crash. The backend is abstract here: it
may write (`BackendWrite`) and answers anything, except that it rejects only
before its first write (`BackendReply`). `wrote` and `exposed` are history
variables: a write attempted by the running action, and one by an earlier
action, of this process or of one that crashed, that no verified action has
resolved since.

**NativePair** is `NativePairCore`, one action per outcome of each exchange.
`roles` is the truth about the speakers, which the code can not read. A write
that failed after it may have been sent is `WriteUncertain`: applied or not.
`confirmation` is the configuration, chosen in `NInit` and never changed: with
`Ack` even an acknowledged broadcaster write is uncertain, which is what
`BroadcastAcknowledgementOnly` says.

**PairService** composes the two. The controller's step `backend` runs one
method of the backend; both lose their memory together. Behind the controller
the backend's own refusal of a latched pair (`AnswerAtOnce`) never comes to bear:
the latch of the controller refuses first. `STeardown` and `SExit` are the orderly
way out of the process.

**GenaObserver** is `GenaBroadcastObserver` under `ConfirmedBroadcastCoordinator`:
SUBSCRIBE, the write, the callback loop with its limit of connections, and
UNSUBSCRIBE. The speaker has a queue of commands it has yet to carry out and an
event key for each subscription; its events under way (`air`) are lost, repeated
or overtake each other. `backlog` records that an equal command was still in the
queue when the observer armed, `orderly` that no event since then was disturbed.

**AuraAcquire** is the cold acquisition: a stable raw ATT attempt, inspection,
`ConnectProfile`, the wait for a fresh advertisement, `DisconnectProfile`, the
release poll, a second stable attempt and the attempts at random addresses, each
with its timeout, `now` being the time since the acquisition began. BlueZ
settles a profile on its own (`ProfileSettles`); `slipped` records that the
release was confirmed while BlueZ was still connecting.

**AuraChannel** extends it with `AuraControlCore`: a drained socket, one ATT write
without response, one notification that is the same for every command, the latch
and the teardown of the bearer.

**FreshScan** is `scan_once`: the snapshot, the subscriptions that may fail, the
replay of discovery, and objects that come, go and hold cached data meanwhile.
`owed` are the addresses whose fresh data the scan can still be expected to see.

**OneShot** is the promise of a command transport: one call is one attempt. The
device carries a command out at most once, possibly after the call has ended
without knowing (`Unknown`); an acceptance follows the action, `NotSent` and a
read exclude it for ever; only the configured device is trusted (`strayed`); every call
ends. Its answers are the ones `NativePair` tells apart for a role write.

**JblHttps** is `JblLanClient` over `PinnedOpenSslConnector`: a form on a
connection of its own, with the classification of every way the exchange ends,
and the three reads of the pair configuration, which may reuse a connection.
`hholder` says who holds the configured address; it changes at any time.
`hinbox` are the forms the speaker has yet to take up.

**JblGatt** is one `arm` with its `execute` or `cancel`: socket, MTU exchange, the
check that the frame fits, one write request and the wait for its response among
at most `MAX_PACKETS_PER_ACTION` packets. `gair` are the requests under way.

**LegacyBackend** is `LegacyV04PairBackend`: connect with retries of a full
backlog, the check of the peer, one line out and one line back under one
deadline, and `ClassifyReply`. The service does not construct it.

**LoopbackRequest** is one connection: `request_frame` cuts the request out of
the stream, one more byte is looked for (`qpushed`), and `parse_request` reads
the same bytes again. A message is the length of its head, the length it
declares, the bytes that follow, and the first thing wrong with it.

**StatusProjection** follows a group reply of the speaker through
`parse_group_status`, the controller, the body of `/api/status` and the checks of
the client. `GroupReplies` are the replies the speaker may give, a subset of
`AnyReply`; `Spellings` says what `trim` and `to_ascii_lowercase` make of the
channels that are not spelled plainly. `Unique`, the fold of `observed_member`, is
defined by positions. **FailureReport** follows a failed step of `NativePairCore` through
the names the backend, the controller, the web application and the client have
for it.

**ConfigInstall** is `install_private_config` by several installers and
`RuntimeConfig::load` by a service. A file is an inode; `ientry` is what
`devices.env` names, `iondisk` what it may name after a power loss, and data that
was not synced may come back short. A value keeps what parsing tells apart:
white space, quotes, a line break, and what a relative path is relative to.

**WebControl** is the way to the controller. A command probes, starts the unit at
most once and only if nobody listens, polls, fetches token and status and sends
one POST; a tab runs the script of the page. The server takes one connection at
a time (`handle_connection`, then `write_response`), and reads also those whose
client gave up. A new process counts revisions from zero and has a new token.
The controller behind it is a revision: every mutation moves it, a status read
may. `boot` numbers the processes and stands for their tokens.

**Ownership** has the two locks, the reservation directory with its claims, two
public operations, the unit with its three hooks and the Rust service; each of
them may be killed at any step.

**HostGuard** adds to it what these processes do to the host: `script` is the list
of calls a hook, a recover-stop or a shutdown has still to make, `trap` the one of
its EXIT trap, and a failed call, a signal or a kill decides what becomes of both.
The modules are unloaded and loaded one by one, `record` and `marker` are the
files that outlive a process, `unloaded` is what dies with it. Their writes and
removals may fail. In a client a failed write of the marker ends the process; in
the preflight, and for the record everywhere, the call runs under `if !`, which
suspends `errexit`, and the process goes on with what was written: no marker, or a
record of a part of the modules, or one that is refused when it is read (no
record, in the model). What the launcher reads of the host (the profile, the list
of modules) is taken as true. The hooks after the start and after the stop hold no
lock. `cut`, `unmarked` and `overlapped` note the ways in which something is
forgotten (section 6).

**SessionSupervisor** is the v0.4 `Supervisor` from the lock to the last write of
its state file, which it makes after it released the lock: `leaving` counts
processes that have this write before them. An exception `serve` does not catch
(`Raise`: gatttool cannot be started, `accept`, `recv` or a reply fails) leaves
through `cleanup` with the state as it is, and "offline" may then be written over
changed roles. `forgot` notes the five ways, named at
`ReadyReleasedUnlessForgotten`, in which the record of changed roles is lost.

Proofs are in **PairServiceProofs** (also of `PairController`),
**PrivateFilesProofs** (`FileJournal`, `ConfigInstall`), **AuraBluezProofs**
(`AuraAcquire`, `AuraChannel`, `FreshScan`), **GenaObserverProofs**,
**TransportProofs** (`OneShot` and its three implementations, `LoopbackRequest`,
`SessionSupervisor`), **ReportProofs** (`StatusProjection`, `FailureReport`),
**HostGuardProofs** (also of `Ownership`) and **WebControlProofs**.
**MCTransports** gives the lengths of the two frames and the replies of the
speaker that differ for the projection, and has TLC compare `Unique` with the fold
as the code writes it (`UniqueIsTheFold`). Operators named like a definition with a suffix or another
verb (`RejectNothing`, `MarkFailedUnlatched`, `mutate_sending_again` and so on) are
wrong variants that no specification uses; each is the mutation under which TLC
finds a property violated.

### Assumptions about the environment

* An accepted HTTPS answer, an expected Aura acknowledgement and a GENA
  notification mean that the role write was applied.
* In `NativePair` and `PairService` a write that was not confirmed is applied at
  once or never. `GenaObserver` and `AuraChannel` let the speaker carry out
  commands late, in the order it received them; `JblHttps`, `JblGatt` and
  `LegacyBackend` in any order.
* A speaker answers a form with code zero, and acknowledges a GATT write, only
  when it carries the command out; the v0.4 supervisor answers `ok` only then, and
  `status` changes nothing.
* Whoever presents the pinned certificate is the speaker.
* The first event of a GENA subscription carries no action code of an earlier
  command; an Aura acknowledgement goes to the connection its command came from.
* A `DisconnectProfile` that BlueZ carries out also ends a pending connect.
* BlueZ announces an object when it is created, and replays every object once
  when discovery starts; one created during the replay may be announced twice.
* A CSRF token is never drawn twice; the clients of the web server are the
  command line and the embedded page.
* Nobody else changes the roles of the speakers, loads or unloads the two
  PulseAudio modules, or connects or drops the A2DP profile; `pactl` is there, and
  a profile that BlueZ keeps through all polls is not dropped later.
* A successful `fsync` of a directory makes all earlier renames and unlinks in
  it durable; each file survives on its own otherwise. A successful `fsync` of a
  file makes its data durable, and a rename is atomic.

## 4. Runs

| Run | Instance | What it shows |
| --- | --- | --- |
| `controller` | `MaxFailures` 3, `MaxRevision` 4 | unresolved writes are covered, never retried blindly, and never shown as a trusted state; the latch agrees with the record; recovery releases it |
| `controller_readme` | the same | a sentence of `rust/README.md` the code does not keep (section 6) |
| `private_files` | three actions; two installers and a service | the journal files implement the one-bit journal and name the running action; a load finds one whole configuration, the new one once an installer answered Ok |
| `service` | 2, 0, both confirmations | the composition implements `PairController`; no receiver is left without a source; what it shows (Linked, Ready, Offline) is true of the speakers; a half-switched pair stays on record and is made whole |
| `gena_observer` | two subscriptions, keys up to 2, two connections | a confirmation is true of the broadcaster, undisturbed events are never refused |
| `aura` | the timings of the code in units of 5 s, three attempts, two packets, two commands | one deadline, the wake profile is released in time and before any fallback, an accepted command was carried out, every acquisition ends |
| `transports` | three calls per transport, all messages up to ten bytes, all group replies and failed steps of the model, two addresses and three events | the three command transports implement `OneShot`; the two HTTP parsers agree; status and failure answers are understood and true; a scan counts only fresh data and misses none |
| `web_control` | one command, one tab that is followed and others that renew the cookie, two processes, revisions up to 2 | what a command reports is what ran, no mutation meets a state its client had not read, a signalled service ends |
| `ownership` | two operations, two invocations | nobody enters a launch, the Rust service owns alone, claims are released |
| `host_guard` | two clients, two modules, two invocations | no module is loaded while the speakers are being connected, and what was taken from the host is on record |
| `session` | two leaving processes | what the supervisor answers is true of the speakers, changed roles are on record, restarts normalize |
| `session_readme` | one leaving process | a sentence of `README.md` the code does not keep (section 6) |

Bounds. The counters of the controller saturate in the code at `u8::MAX` and
`u64::MAX`; the instances let them saturate at small values. `MaxFailures` must
reach the threshold of two, and 3 lets the count pass it before saturating; four
revisions cover a whole mutation (two bumps), its predecessor and saturation.
`MaxRevision` 0 in `service` makes the revision constant: the properties there
are about roles and latches. Three journal actions are the record on disk, the
one being written and one more. In `GenaObserver`, `MaxSeq` 2 makes the key roll
over within one observation, two `Sids` are the current and an earlier
subscription, `MaxQueue` and `MaxAir` 2 allow one late command or event beside the
current one, and `MaxCallbacks` 2 lets the limit be reached. In `AuraChannel`,
`MaxStale` equals `MaxInbox`, so that the drain meets its limit, and `MaxReceived`
2 is a late command before the current one. In `Transports`, three calls let
an undecided one be overtaken by two more. `MCTransports` has the real lengths
of the frames (199 and 18 bytes), and `ServerMtus` one value on each side of
every comparison with them: below the minimum, the minimum, the last MTU too
small and the first large enough for the long frame, and more than was requested.
`MAX_PACKETS_PER_ACTION` 3 lets the limit be reached with and without the
response; `LegacyTicks` 2 and `MaxChunks` 2 let the deadline and the size limit
be met and missed. The replies are all pairs of members with one list of channels
out of each class `observed_member` and the client tell apart, in either order,
and the exact pair in replies with one other fault. The header and body limits 2 and 1 leave room for lengths
below, at and above each of them, and `MaxMessage` 10 for the longest message
with bytes of a next one. Two installers overlap at every step. In `FreshScan`, `MaxEvents` 3 is enough for an object to appear,
vanish and appear again before its first event is read. In `WebControl` an old
and a new process (`MaxBoots` 2), an abandoned and a live connection (`MaxQueue`
2) and two revisions are what a stale request needs; a mutation at
`MaxRevision` is not run, its connection only closed. In `HostGuard` two modules let an unload or a reload fail half-way, and two
clients follow each other while the unit runs its hooks; clients, invocations and modules are
interchangeable (`Symmetric`; the run checks invariants only). `MaxLeaving` 2 lets two supervisors still have
to write "offline" while a third starts. Every run explores its complete state
space. `CHECK_DEADLOCK FALSE` is set where the system comes to rest: an
acquisition that failed with the speaker silent, an exchange of `Transports` that
was answered or has made all its calls, an observer and a
web service at their bounds.

Fairness. Nothing is assumed for safety.

* `Recoverable` (`controller`): an operator keeps asking for recover-stop, and no
  single call fails on every attempt for ever (strong fairness on its success);
  crashes may go on for ever.
* `SRecoverable` (`service`): disturbances (crashes, exits and failing calls) stop at some
  point, and the process and the operator go on (weak fairness); the
  single-threaded loop always runs a request to its end.
* `SLive` (`session`): the unit has `Restart=on-failure` and no start limit, the
  process goes on, and disturbances end.
* `OLive` (`ownership`): systemd runs every hook it began and restarts a failed
  unit.
* `HLive` (`aura`): the acquisition goes on; each of its stages has a timeout.
* `WLive` (`web_control`): the service thread goes on; every call it makes on a
  socket or a device has a deadline. Nothing is assumed of clients.
* `TSpec` (`transports`): the client side of a command transport goes on; each of its
  waits has a timeout, which is one of its steps. Nothing is assumed of the
  speakers, the supervisor or the network.

## 5. Proofs

Every theorem holds for all values of the constants that satisfy the named
assumptions of the modules, and for any number of processes, calls and messages;
the bounds of section 4 (`MaxAir`, `MaxQueue`, `MaxEvents`, `MaxLeaving` and so on)
appear in guards only and are not used. Each proof goes by an inductive
invariant, which TLC checked first on the instance of the run. Hardly any
property is inductive as it stands, and what each invariant adds is the reason
the property holds. A proof module belongs to the module it is named after, and
to those that module is composed of.

**PairServiceProofs: the controller.** The invariants and action properties of
`controller`, for `MaxFailures >= 2` and every `MaxRevision`. `TypeOK` needs
`Running => action \in Actions` beside it, since a reply is indexed by the running
action. `SafeInv` says for every step of a mutation what the journal
holds at that step (`CallInv`: a marked call has a latched journal, a call to the
backend has a durable record, a clear has unpublished only what its reply
allows), and that the step of the controller and of its journal agree
(`JournalStep`). `LatchReleased` and `RevisionFollows` follow from it.

**PairServiceProofs: the service.** The composition implements the controller
(`ServiceImplementsController`), so that everything above holds of it
(`ServiceIsSafe`). The one step that needs an argument is the answer of the backend: a
rejection has attempted no write. `ServiceInv` therefore follows the native
backend through its method (`Placed`: which method passes through which step and
where its first write is behind it; `Coupled`: where the controller is
meanwhile). For the roles it adds how far the writes of a method have got
(`Ordered`), that an accepted answer tells the roles on its whole way to
`finish` (`Reported`), and that a pair which is neither switched nor released has
a write that is unresolved (`HalfRecorded`). `ManagedTrue` follows from the
first two, `HalfSwitchedPending` from the last one with `WriteCovered` of the
controller, and `ReceiverNested` from the order of the writes.

**PrivateFilesProofs.** The journal files implement the one-bit journal for every
set of actions. `FInv` says what each step has already made durable: from the
sync of the marker to the unlink the marker on disk is the running action;
before the unlink the clean snapshot is on disk; and a pending snapshot without
a marker, the only case in which the snapshot decides, is always on disk, so
that a migration never meets a record a crash could take back. The lemmas before
it compute what a directory may read as; `StepMaps` takes each step of the files
to a step or a stutter of the journal. `ConfigLoads` is proved for every finite
set of installers: `IInv` says what each installer has done by each step (its file
is whole and synced before the rename), that every file `devices.env` names or
may name after a power loss holds settings that come back as they were checked,
that the reader has opened such a file, and that nothing undoes a synced rename.

**AuraBluezProofs.** The three parts of `aura_bluez.rs`.

* The acquisition, for every choice of timings in which the first stable attempt
  and the four stages of the wake take less than the whole (`TimingsAssumption`;
  with the defaults of the code 110 s of 150 s). `AInv` adds how much of the deadline
  each phase may have used when it begins (`Budget`), which is what makes
  `ReleaseInTime` inductive, and how many attempts are left. The second stable
  attempt may use the remaining time up, so that the random-address attempts get
  none: the deadline holds, a bearer is not promised.
* The channel. An acknowledgement does not say which command it is for, so
  `ChannelInv` has to say which ones can still be under way: between two commands
  what an earlier one left at the speaker can no longer be acknowledged, or the
  latch is set (`Between`); from the drain on an acknowledgement can only be the
  one of the running command, which is the last the speaker received (`Pending`).
  The channel implements `AuraAcquire` (`ChannelAcquires`).
* The scan, for every finite set of addresses. `FreshOnly` rests on `CachedKnown`:
  an object with cached data is one of the snapshot, and no event can make the scan
  take it for new. `NothingMissed` speaks of a scan whose queues are empty; the
  invariant has to say for each owed address what still leads to its data
  (`Leads`: an event that carries it, the object about to be read, or an
  announcement the scan will take for new when its turn comes). That the last
  survives needs `Announced`: the queue of the adapter ends, for every object, in
  what there is.

**GenaObserverProofs.** For every set of subscriptions and every largest key.
`ConfirmedWhy`: without a backlog, the command of the transaction is the last of
its kind in the speaker's queue, so that an event of the subscription that
confirms the action is under way only once the speaker is done. `OrderlyWhy`: as
long as nothing was lost, repeated or overtaken, the events of the subscription
under way carry consecutive keys, from the one behind the last key seen to the
one the speaker used last (`Chained`), also where keys roll over from the largest
to one.

**TransportProofs.** For every number of calls, frame length, MTU, packet limit,
timeout and size limit, every step of `JblHttps`, `JblGatt` and
`LegacyBackend` is a step or a stutter of `OneShot` (`HttpsIsOneShot`,
`GattIsOneShot`, `LegacyIsOneShot`), and in `OneShot` no answer is ever contradicted
later (`AnswersStayTrue`). Together they are the safety half of `OneShotKept`. The
invariants `HInv`, `GInv` and `LInv` say the same of each transport: a command
under way belongs to a call that is running or ended without knowing and has not
been carried out, nothing was carried out before the first byte was sent, an
answer that will count as acceptance follows the action, and the peer was checked
before anything was sent. `FramingAgrees` is proved for all limits and lengths,
from what `request_frame` and `parse_request` say of each prefix of each message
(`QInv` adds what the step tells of the buffer).

The v0.4 supervisor, for every number of supervisors still leaving.
`SessionInv` says at each step of each sequence how far the roles have moved
(`RolesSoFar`), and where a changed role is on record: in the file, or as a
normalization the running process owes (`OnRecord`). The write of "offline" after
the lock was released needs `LateOffline`: it belongs to a process that left
nothing behind, or an overlap has been noted. A write that was answered late
never lets its process serve ready or linked again (`StepTells`).

**ReportProofs.** `StatusReadable` for every reply of any number of members with
any number of channels, in any spelling; nothing is assumed of a reply but its
shape (`AnyReply`). The lemmas say what the conversions
make of lists of any length: `Unique` keeps the channels and none twice
(`UniqueLists`, from the least position of each channel), so that a list of known
channels, however often it repeats them, has at most the six the client accepts. `PInv` adds
that from the probe on the two members and the verdict are true of the reply
(`Faithful`), and that a served body is one the client accepts (`Consistent`).
`FailureTrue`: `FInv` says what each table hands on is true of the cause
(`BackendTrue`, `ControllerTrue`, `WordsTrue`). This proof found guards of
`CASE` that overlapped in `FailureReport`; they are disjoint now.

**HostGuardProofs.** For every number of launcher operations. `OwnInv` ties each
step to the locks held there (`LocksHeld`), keeps the claim of a launch from
`service_preflight` until `service_post_start` clears it (`ClaimKept`), and keeps
everybody else out of the gap between them. `HostGuard` implements `Ownership`
(`HostImplementsOwnership`), so that `HostInv` may use those locks. It says what
each process has still to call, as one of finitely many rests of its script or
the way out of its trap (`Rests`, `Within`, `Placed`), so that two processes are
inside their guards at once only beside the stop hook (`Overlap`); that the
modules a guard has not unloaded yet are on its list (`GuardUp`); and how the
record and the memory of the processes share what is missing (`Recorded`,
`Marked`). As the record may be partial, or left over after a removal that failed,
`Recorded` says of a process inside its guard that every module which is on record
and missing is also in its memory (`Shares`): it then loses nothing by writing the
record anew or removing it.

**WebControlProofs.** For every number of commands, tabs, service processes,
revisions and waiting connections. `WInv` says that a client that goes by a token
of its own has read the status from the process of that token or a later one, and
so has each of its requests (`TokensBefore`); since the server compares the token
with its own, a mutation that runs was read from this process. For the answers, a
client waits for at most one connection (`OneConnection`), the POST of a command
is under way at most once, and not both under way and run (`OnePost`), and the
stage a command has reached tells what ran (`StageTells`).

**How long things take.** Liveness takes fairness, which is beyond the prover; what
it rests on is not. For each liveness property but one there is a count of the
steps that are left, and a theorem that every step of the process concerned lowers
it, that the other processes do not raise it, and that zero is the end. What TLC
adds is that the steps are taken. The one is `RecoveryConverges`, where crashes go
on for ever and no count descends through them.

| Theorem | Core of | What descends, and from where |
| --- | --- | --- |
| `MutationCountsDown` | `HalfSwitchedHeals` | a mutation of the service, at most 15 steps from the mark to the answer |
| `RecoveryCountsDown` | `HalfSwitchedHeals` | a RecoverStop on its way: every step that is not a `Disturbance` keeps it `OnCourse` or heals the pair |
| `RestartCountsDown` | `RestartNormalizes` | a restarted supervisor that is not disturbed, 8 steps and the late writes before it |
| `ClaimCountsDown`, `HostClaimCountsDown` | `ClaimReleased` | the unit while a claim is on disk, 5 steps |
| `AcquisitionCountsDown`, `CoreAcquisitionCountsDown` | `AcquisitionEnds` | an acquisition, `2 * ScanAttempts + 8` steps |
| `SignalCountsDown` | `SignalEnds` | the server from the signal on, 4 steps |
| `GattCallsCountDown`, `HttpsCallsCountDown`, `LegacyCallsCountDown` | `OneShotKept` | a call: `MAX_PACKETS_PER_ACTION + 4`, 4, and `MaxChunks + 4 + LegacyTicks` steps |

Two of them need more than a count. `RecoveryCountsDown` has to say what an
undisturbed recovery carries with it (`OnCourse`: which steps of the backend it
may be at, and that the receipt it brings back is an accepted Ready), and takes
from `ManagedTrue` that the speakers are then released; it does not matter whether
the process wrote itself or only found the journal. `RestartCountsDown` has to say
which steps lead back to the loop (`Restarting`: a normalization that has succeeded
so far, and no order to end), and takes from `SessionInv` that a supervisor which
gets there has released the speakers or lost their record.

**Only model-checked.** Liveness itself: `RecoveryConverges`, `HalfSwitchedHeals`,
`RestartNormalizes`, `ClaimReleased`, `AcquisitionEnds`, `SignalEnds`, and in
`OneShotKept` that every call ends. That `Unique` is the fold of the code is
compared on lists of up to five channels, since an induction over lists is out of
the prover's reach. Type correctness and `LiveStateTrusted` of the controller are
the other way round: proved, and no longer run.

## 6. Findings

`rust/README.md:149-152` and the header of `rust/src/journal.rs` say that the
pending record is cleared only after an accepted result and a fresh
postcondition. The code also clears it when an ordinary action was rejected before any write
(`controller.rs:622-630`), for a reason its comment gives; `WriteCovered` shows that this is safe.
The run `controller_readme` exhibits the difference.

`README.md:353-355` says of the v0.4 daemon that a replacement sends OFF/STOP/EXIT
before it publishes `ready` if the prior state could have changed speaker roles.
`connect_sessions` replaces that prior state in the file by "connecting" and then
by "ready" before it normalizes (`lib/jbl_aura_session.py:865-877`); a daemon
killed in between leaves a file from which the next one answers ready at once.
The run `session_readme` exhibits it. The other ways to the same end are those
named at `ReadyReleasedUnlessForgotten`, among them an exception that is no
`SessionError` (`lib/jbl_aura_session.py:469`, `1032`, `1037`), after which
`cleanup` writes "offline" (line 1075).

Exceptions that properties name, without a sentence they contradict: an equal
command carried out late confirms the next one (`backlog`), BlueZ completes a
profile connection after its release was confirmed (`slipped`), and a tab with a
revision of an earlier process can match the new one's when another tab has
renewed their cookie (`MutationsCurrent`). In `HostOnRecord` there are three. The
launcher unloads the PulseAudio modules first and writes their record afterwards
(`bin/jbl-aura-link:718-726`), so a process that ends in between leaves no record,
and one whose `printf` to the record failed unnoticed (line 645) an incomplete one
(`cut`): the promise of `docs/REPRODUCTION.md:68-70`, that a failed startup cannot
silently leave them unloaded, holds outside this gap. The comment at lines 841-843
promises the marker before BlueZ is changed; under the `if !` of the preflight
(line 1180) a failed write of it does not keep the profile from being released
(`unmarked`). And the stop hook restores without the operation lock, also while a
recover-stop is inside its guard (`overlapped`).

`RevisionTracksState` holds until the revision saturates; at `u64::MAX` two states
share a revision, and comparing it no longer tells them apart.

## 7. Not modelled

* Installation, release and firewall scripts (`scripts/`): one-shot sequences of external
  tools whose effects are outside the repository and which hold no state of the
  service.
* The rest of the v0.4 launcher (`bin/jbl-aura-link`): a session started without
  the installed unit (the same guard, in one process under the lock), `doctor`,
  `status`, and the copying steps of `install-service`, which are repeated by hand
  when one fails. The contents of the guard's record (arguments of the modules)
  are left out, and a record damaged by hand with them; so are a host without
  `pactl`, a lock, reservation or record that is a symbolic link (refused), and a
  failing `log`.
* The configuration is the file. Values of the process environment that override
  it, and a configuration from the environment alone (`config.rs:202`, `210`), are
  read once at start and change nothing on disk.
* Read-only commands of `main.rs` (`doctor`, `status` printing, version) and the
  text of names, versions and error messages (`error.rs`, parts of `model.rs`):
  formatting without state.
* The bytes of frames, packets, advertisements, HTTP heads, XML and JSON: a model
  keeps what the code compares them with (length, readable or not, action code,
  first fault).
* Loading of certificates (`tls.rs`), and the owner and mode checks of private
  files and sockets: one refusal before anything happens.
* `OneShot` and the contracts of `GenaObserver` and `AuraChannel` are matched with
  the exchanges of `NativePair` by reading, not by a refinement: there, one step
  is a whole exchange, and the late action of a speaker is an assumption.
