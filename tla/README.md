# Verification of the dashcam recorder

TLA+ models, TLC runs and TLAPS proofs for DashCamPiZero2W: a Raspberry Pi that records
camera clips in a loop onto an exFAT card, keeps their catalog in SQLite on ext4,
protects clips around events, deletes the oldest ones when the card fills, and answers a
web interface over a local socket; and for what makes such a card, sets it up at first
boot and installs the application on it. All paths below are relative to
`src/src/dashcam/` unless they say otherwise.

`PROJECT.json` lists the components, the runs, the mutated definitions that each
property is shown to detect, the source lines of every definition, the findings, the
hazards and the theorems.

## 1. Inventory of the system

| Component | State it keeps | Operations | Interacts with |
|---|---|---|---|
| Clip catalog (`catalog/database.py`, `filesystem.py`, `storage/intents.py`) | rows (lifecycle, path, protection and its revision, lease), intents, events; the files of each pair | register, close, protect, unprotect, delete, rename, lease, event, `reconcile_intent`, `reconcile_startup` | called by finalizer, reclaimer, coordinator and dispatcher from different threads |
| Clip finalizer (`recorder/finalizer.py`) | a hold on each clip it writes or closes | snapshot of the protection, staging of the sidecar, registration, retry, replay at startup | catalog, recorder runtime |
| Metadata name reconciliation (`metadata/*.py`, the pass in `recorder/runtime.py`) | cursor, retries, parked clips | projects the anchor, renames a pair once UTC is known | catalog, finalizer, GPS |
| Storage monitor, retention, reclaimer (`storage/space.py`, `retention.py`, `reclaimer.py`, `catalog/policy.py`) | retention mode, durable latch, observation failures, latched fault, last snapshot | observe, evaluate, note a full volume, reclaim one pair | catalog, the runtime's storage task and supervisor |
| Recorder runtime (`recorder/runtime.py`) | backend, camera ownership, open clips, reorder buffer, restart count, audio plan, its tasks | start, run, recover, stop; storage sweeps; durable workers; fragment events | GStreamer backend, everything above, daemon |
| Recorder daemon and status (`recorder/daemon.py`, `status.py`) | published state, lifecycle event queue, watchdog baseline, outcome | run, event loop, watchdog, endpoint faults, orderly end | runtime, control endpoint, systemd |
| Control dispatcher and socket (`control/*.py`) | connections, operation state, active mutations, lease lock | accept, read, dispatch, time out, drain, stop | catalog, runtime (durable lock) |
| GStreamer backend (`recorder/gstreamer.py`) | recording slots and their activations, open files, hotplug state, gate for the forced key frame | run, isolate a lost microphone, restore it, stop | runtime, streaming threads of GStreamer |
| Audio selection (`audio/*.py`) | none; the runtime keeps the plan | discover node by node, match, open | runtime, backend |
| GPS (`gps/*.py`) | navigation and time state, anchor, partial line, error budget, telemetry history | open, read, parse, consider an anchor, reconnect, window of a clip | runtime, overlay, metadata |
| Overlay (`overlay/*.py`) | text, mappings of camera buffers, isolation | set text, draw in the streaming thread, close | runtime, backend |
| Segmenter and continuous pipeline (`recorder/segmenter.py`, `pipeline.py`) | queue of finalizations, camera owner, restarts | cut, rotate, submit, drain, restart | their output and backend |
| Storage preflight (`storage/preflight.py`) | the probe file | collect facts, judge, write probe | mounts; runs before every start |
| Network fallback (`network_fallback.py`) | private credentials, profile, hand-over | select for the boot, retry the client | NetworkManager |
| Web service (`../dashcam_web/`) | sessions | log in, reauthenticate, dispatch, one call per request | control socket |
| First boot and bootstrap (`provisioning/firstboot.py`, `bootstrap.py`) | durable journals, partition table, file systems | plan, execute, reconcile after a power loss | run before the recorder exists |
| Card planner, image builders, initramfs (`provisioning/*.py`) | image files, evidence, manifests | observe, verify, plan, build, read back, publish | operator |
| Card recovery tools (`src/deploy/bootstrap/ssh-dev/`) | the boot line, its backups, the bootstrap's journal, archive and audit record | arm, take a false refusal back | bootstrap v1, operator |
| Application installer (`src/deploy/ssh-dev-app/install.py`) | approved plan, releases, managed files, journal | dry run, apply | operator, systemd, apt |
| Configuration, health, diagnostics, acceptance scripts | none that another part reads | parse, inspect, report | |

What is hard here, and where the models look:

* **No transaction spans the database and the card.** A move is a durable intent plus
  two file operations; the process can die, the card can fail and a foreign file can
  be in the way between any two of them.
* **Different threads, not all under one lock.** The dispatcher prepares protections,
  deletions and leases without the recorder's mutation lock under which clips are
  closed, renamed and reclaimed, and with clock reads taken before it waited.
* **Cancellation.** Requests, starts and cleanups are asyncio tasks that timers, a
  drain or a stop cancel at any await, while their native threads go on.
* **Hysteresis across crashes.** Reclamation starts below one threshold and ends at
  another, and must go on after a restart; deletions must be based on a look at this
  volume, newer than the last deletion.
* **Replacement of a session** while stop requests, watchdog periods, lifecycle events
  and endpoint faults arrive in any order.
* **Handoffs between native threads.** A lost microphone is cut out of a running
  recording, and put back, by one driver thread while streaming threads open, roll over
  and close files; callbacks of an older request or activation arrive late.
* **Power can fail anywhere.** Partition tables, file systems, installed files,
  credentials and probe files are changed step by step, and the next boot has to tell
  from what it observes and from a journal how far the last one came.
* **Bounded work that must still get everywhere.** Startup passes, metadata passes,
  finalization queues, telemetry histories and error budgets are all bounded.

What makes each component correct: the catalog never loses a member of a pair, an
accepted protection or a file being downloaded, and finishes what it began; storage
deletes only when and where it must and always either relieves the volume or stops; the
endpoint counts and locks exactly, answers truthfully and stops; the recorder opens one
session at a time, shows its true state and releases the camera; every fragment has one
owner and becomes one clip, in order; what GPS, audio and overlay publish is fresh and
true; a card is provisioned once, wherever power failed. `PROJECT.json` states 40 hazards at their lines and the properties aimed at each.

## 2. Modules

| Module | Models | Read from |
|---|---|---|
| `ClipStore` | what the catalog promises about a clip: its life and its guard | abstract |
| `ClipCatalog`, `ClipCatalogProofs` | catalog, pair moves, closes, leases, events, renames | `catalog/`, `recorder/finalizer.py`, `storage/intents.py`, `metadata/` |
| `StartupReconcile` | the bounded passes of `reconcile_startup` | `catalog/database.py`, `filesystem.py` |
| `RetentionPolicy` | what retention promises: hysteresis, one choice of its own at a time, room for every deletion | abstract |
| `StorageRetention`, `StorageRetentionProofs` | monitor, latch, sweeps, startup recovery, escalation | `storage/`, `catalog/policy.py`, `recorder/runtime.py` |
| `ControlEndpoint`, `ControlEndpointProofs` | listener, handlers, locks, native threads, timers, stop | `control/`, durable workers of `recorder/runtime.py` |
| `MediaSession` | start, supervision, recovery, cleanup and stop of a session | `recorder/runtime.py` |
| `RecorderDaemon`, `RecorderDaemonProofs` | the daemon around a `MediaSession`, which it extends | `recorder/daemon.py`, `status.py` |
| `RecordingSlots` | the driver's slots, both handoffs, the EOS arbiter, streaming threads | `recorder/gstreamer.py` |
| `MediaBackend`, `MediaBackendProofs` | `run()`, `stop()` and the hotplug coordinator over `RecordingSlots`, which it extends | `recorder/gstreamer.py` |
| `ForcedIdr` | the gate that holds the encoder's answer to a forced key frame | `recorder/gstreamer.py` |
| `AudioSelection` | discovery, choice and replacement of the microphone | `audio/`, `recorder/runtime.py` |
| `FragmentOrder` | sequences, registration, reordered closures, demotion, counters | `recorder/runtime.py`, `finalizer.py` |
| `MetadataPass` | passes over provisional clips and the projection of the anchor | `recorder/runtime.py`, `metadata/` |
| `GpsReceiver`, `GpsTelemetry` | receiver task, clock and anchors; the telemetry history | `gps/` |
| `Overlay` | overlay task, native renderer and its close | `recorder/runtime.py`, `overlay/` |
| `Segmentation`, `ContinuousPipeline` | the segmenter with its queue; restarts and ownership | `recorder/segmenter.py`, `pipeline.py` |
| `Preflight`, `NetworkFallback`, `WebService` | the services beside the recorder | `storage/preflight.py`, `network_fallback.py`, `../dashcam_web/` |
| `FirstBoot`, `Bootstrap` | the two provisioning transactions | `provisioning/firstboot.py`, `bootstrap.py` |
| `CardPlan`, `ImageBuild`, `Initramfs`, `AppInstall` | planner, builders, initramfs, installer | `provisioning/`, `src/deploy/ssh-dev-app/install.py` |
| `CardRecovery` | the armer of the boot line and the two helpers that correct the journal | `src/deploy/bootstrap/ssh-dev/` |
| `CaptureProofs`, `GpsProofs`, `ApplianceProofs` | proofs about the parts of the capture and appliance runs | |
| `MC...` | values of constants and symmetry for TLC | |

`MCCapture` and `MCAppliance` gather parts that do not share state: in each behaviour
the variable `part` names the one that runs, and the others keep one initial state. The
states of such a run are the sum of the parts' states, not their product; nothing is
claimed about interactions between them. The parts that do interact are composed
where they share state: `RecorderDaemon` over `MediaSession`, `MediaBackend` over
`RecordingSlots`, both abstract specifications through refinement.

### ClipCatalog

One action per catalog call, because each is one SQLite transaction. The exception is
`reconcile_intent`, which moves files inside its open transaction: it is
`BeginReconcile` (plan), one `MoveMember` per file operation, then `CommitReconcile` or
`AbortReconcile`; a crash or an error between them leaves the files moved and the row
as it was. Closing a clip is split where the finalizer releases the database:
`TakeSnapshot`, `StageSidecar`, `RegisterFinalizing` (which compares the protection
revision), `RetrySnapshot`. A path is a directory and a name stage (partial, boot, utc);
`at` says where each member really is, `content` what the sidecar records, `foreign`
which unknown files stand in the way. `Reads` are the clock values a caller may come
with, up to `MaxLag` old. `claim` is a history variable: a protection was accepted and
not given up since.

Coarser than the code, always towards more behaviour: how many times a close is retried
and which name it chooses; the boot check of name reconciliation; the text of
`last_problem`. The batch limit of `clear_expired_download_leases` is never reached with
the number of clips here. The retention scans that no production
caller uses are left out; `reconcile_startup` is `StartupReconcile`.

### StorageRetention

Space is counted in units and the volume is free space, the open clip, eligible pairs
(`pairs`), pairs that retention may not take (`held`) and pairs with a committed
deletion (`pending`, each with its size and whether retention chose it); which pair is
eligible is the subject of `ClipCatalog`. The
task that sweeps goes through `probe`/`observe` (a look at the volume: good, failing,
drifted to another volume, latch refused or not stored), `enter`, `sweep`, `scanned`,
`unlink`, in its three stages: the two startup sweeps and the loop.

`run_one` runs under the recorder's durable lock and calls the catalog more than once, so it
is more than one step: `Scan` finds no committed deletion, `Reserve` commits one, and a client's
`prepare_delete` (`AskDelete`), which does not take that lock, may fall between them. Two
deletions are outstanding then, and the newer may be finished first. No order among
committed deletions is claimed: they are listed by a clock that is read before the commit
and restarted by each boot, so `Replay` takes any. What holds is that retention never
commits a second pair of its own choice while one is outstanding (`Doom` in
`RetentionPolicy`). A client's deletion is carried out by a sweep only
(`recorder/finalizer.py:808` refuses it).

The supervisor (`sup`) notices a
full volume, notes it with the monitor, and stops. An observation is one step: it runs
under the monitor's lock and touches nothing that the writer reads. Snapshot telemetry
(percentages, trigger) is left out. A startup timeout ends the process here and is like
`Crash`; its handling is in `RecorderDaemon`.

### ControlEndpoint

Each command is a short program of its awaits (`Program`): begin a mutation, take the
lease lock, run a thread, execute an intent under the durable lock, run an operation
callback. A request may be cancelled at each of them by the handler timeout or by the
stop, and a native thread only ends by itself. Time is left out: the durable (6 s),
dispatcher (8 s), handler (10 s) and drain (5 s) timers may each fire whenever their
await is pending. The recorder is a competitor for the durable lock, and may replay a
client's intent first (`SkipIntent`). The restart and removal callbacks are not
supported by the production runtime and are modelled as the dispatcher uses them.
Framing, decoding and rendering are left out.

### MediaSession and RecorderDaemon

`at` is the await point of the coroutine `start()` then `run()`, with `_recover` and
`_start_attempt` inside it; `stopper` is the shared cleanup task `_stop_once`;
`halting` is `stop()`; `phase` is the await point of `RecorderDaemon.run`. Every await
may end well or fail, a pipeline may refuse to go to NULL (`stuck`), the demotion of the
open clip may fail, and the start may be cancelled by its deadline. Timers of the
daemon fire only when no coroutine is ready (`Quiet`): the ready queue of the loop is
FIFO and a timer needs a period of at least seconds. The watchdog's token and epoch are
abstracted to what its baseline is worth: none, stale, armed, fired. There is one open
clip, the event queue (16) never fills, and a rollback inside `backend.start()` is one
step. The roll-up of frame counters and the cancellation of `run()` itself are left out
(the signal handlers request a stop instead). A registration that is cancelled may leave a
WRITING row that no identity stands for (`FragmentOrder`); the next startup handles it as in
`ClipCatalog`.

### RecordingSlots, MediaBackend and ForcedIdr

One action per step of the driver thread's handoffs, because streaming threads run
between them: `isolate_audio_loss` and `restore_audio` prove the standby slot, cut the
old route, open the new one, wait for the file to close. Slot 1 has the microphone, 2
and 3 are video only; an activation number tells the uses of a slot apart, and a
fragment carries the slot and activation that asked for it. The many identities that
the driver proves again at each step are reduced to the verdict: the step succeeds or its
failure branch is taken. `run` is the await point of `GStreamerBackend.run`, `shut` that of
`stop()`, which takes turns with it for the driver. `ForcedIdr` takes one proof of the
handoff apart: the request for a key frame, the encoder's answer, the frames in the queue,
the two probe callbacks and the deadlines.

### The capture parts

* `AudioSelection`: a device is what its card shows; discovery lists the nodes at one
  moment and queries each later. A status may be asked for in every phase; with no backend
  the observer returns at once and the state is the one that was left. So MATCHED means a
  microphone only in a status of a recording attempt; at any other time it means that a
  card is selected, and `ReportTruthful` claims no more.
* `FragmentOrder`: the backend opens fragments in order and closes them in any order;
  the register task and the drain task take them from two queues; an attempt ends in any
  of their steps and what it left is demoted. A durable worker that is late or cancelled
  may have committed before its caller raises: a row is WRITING with no identity held, or a
  clip is final that the runtime does not know of. The demotion counts identities, so it
  may miss that row. At most one such row is left, never by a clean attempt
  (`WritingSettled`), and the recorder does not go on after an attempt that was not clean.
* `GpsReceiver`: time is kept as ages that saturate, so that there is no horizon. A
  sentence is what it claims: a position, a UTC offset, neither.
* `GpsTelemetry`: a sample holds the receive times of the observations it was made from,
  so that a window can be compared with what was really observed.
* `Overlay`: a text is what it claims; the streaming thread enters, maps, writes and
  leaves while the renderer is closed.
* `StartupReconcile`: a pair is the directories of its members; a row with a pending
  FINALIZE or PROTECT, a row without one, or no row; each pass may be cut short.
* `Segmentation`, `ContinuousPipeline`: one action per await.

### The appliance parts

* `FirstBoot`: observe, reconcile the journal with the observation, plan one phase,
  execute its actions, confirm; power may fail between any two and inside `resize2fs`
  and `mkfs`. `Bootstrap`: the same for the two services of Bootstrap v1, whose refusals are
  latched.
* `CardPlan`: the four places that compute the geometry of a card, side by side, and the
  plan that an operator carries out and may abandon.
* `ImageBuild`: the content of a file is a number that every write makes new, so that
  evidence about an older content shows.
* `Initramfs`: members with device and inode; equal ones are one file to the unpacker.
  `NewcEntry` is a member; `Names` are the names that archives may contain.
* `CardRecovery`: one action per system call of each tool, with kills and edits of the boot
  line between them; the bootstrap that goes on with the journal is the environment.
* `AppInstall`: dry run, approval and apply, with edits and kills in between. The last look
  at a managed file (`CheckManagedFile`) and its replacement (`ReplaceManagedFile`) are two
  steps; an edit between them is lost (`install.late`), and `AppliesOnlyThePlan` says that
  no other is.
* `Preflight`: one action per system call on the probe and per look at the mount; mounts and
  the name of the probe change between them. `StatProbe` and `RemoveProbe` are two calls: a
  file that takes the name between them is removed (`check.late`), and so is one there when
  the new descriptor is refused (`DiscardProbe`); `ProbeConfined` says that no other is.
* `NetworkFallback`: boot and operator are two processes over the same files.
* `MetadataPass`: clips in retention order, refusals with and without retry. The refusals
  of the coordinator (`Pending`, `ParseSidecarBytes`, `IdentityAgrees`, ...) differ only in
  whether they are retried. The clock reacquires its anchor at any moment (`AcceptAnchor`;
  when it does is the subject of `GpsReceiver`); a closing and a pass use the one that they
  read, a prepared intent keeps its name. So clips may be named by different anchors, but
  each by one, and for good (`NamesAgree`, `NamesStay`). A card in a reader may have its
  sidecars changed (`SpoilSidecar`). Nanoseconds are scaled (`Micro`, `Milli`) and keep their
  truncation.
* `WebService`: the set of sessions, each with its token and the ages that its deadlines
  look at; lost and late answers, repeated requests. A request without an event id gets a
  fresh one, so that a browser which repeats it makes another event: `EventOnce` speaks of
  the events that the client named, and says of the others that no id stands for two.

## 3. Runs

`tlc -workers 2 -config X.cfg M` in this directory. Every run takes at most about two and
a half minutes on two cores. Deadlock checking is off where the system may rightly stop:
bounds are used up, a daemon has ended, a card is provisioned. It is on in the storage
run. A property with "Inv", "Sound", "Steps" or "Serves" in its name is the conjunction of
the named properties above it in its module, each with its own comment.

| Run | Shows | Bounds, and why they are enough |
|---|---|---|
| `catalog_leases` | `CatalogSafe`: pairs stay whole, accepted protections survive every race, a download keeps its files, directories tell the protection; `CountsKept`: the cap on leases holds with old clock reads and an event's NEXT window skips no clip; `CatalogSteps`: only reserved pairs lose files, the sidecar matches the row at the close; `KeepsPromise`: the catalog implements `ClipStore` | 2 clips, 2 holders, 1 event, lag 1, 2 ticks: two holders compete for one slot, a lease expires between a clock read and its transaction, a deferred move is repaired |
| `catalog_recovery` | the inductive invariant `CatalogInv`; `RecoverySettles`: every intent completes and every accepted protection reaches `protected/`, unless a foreign file stands in the way | 1 clip, 2 faults, 1 reboot, one file operation per call, both names, colliding files: every prefix of every move, replayed twice. With one clip the run does not show that a pair which cannot be settled leaves the replay of the others alone |
| `storage` | `StorageInv`: the mode is never ahead of its latch, a sweep knows what it relies on; `StorageSteps`: deletes only when short and only on a good look, the camera opens only recovered; `KeepsPolicy`: latch and intents implement `RetentionPolicy` across crashes; `StorageProgress`: a full volume or a fault ends the recording, and with one unit written per look reclamation relieves the volume or stops | 5 units, thresholds at 2 and 3, emergency at 1, pairs of 2, 2 failed looks, 2 units written per look, a client that asks while fewer than 2 deletions are outstanding: full pairs and the shorter one that a stop leaves hit each threshold exactly and jump over it, and a client's deletion falls between the scan and the commit of a sweep |
| `control_safety` | `EndpointInv`: exclusive operations, exact mutation count, lock ownership, serialised durable threads, nothing left of a handler after `stop`; `OkMeansDone`: an ok answer is true | 2 connections with all nine commands, symmetric; every interaction in the dispatcher is between two requests, or one and the recorder |
| `control_liveness` | `RequestsEnd`: no circular wait between lease lock, durable lock and threads; a stop ends | 2 connections with RELEASE (both locks) and PROTECT (durable lock) |
| `recorder` | `DaemonInv`: truthful status, a surviving event loop, a released camera after a failure; `NoSecondSession`; `WatchdogSparesRecovery`; `DaemonProgress`: recovery and daemon end | 2 restarts: a failed replacement followed by another, and exhaustion |
| `media` | `MediaInv`: one route for the video, owned fragments, one EOS for the audio pad, a truthful topology, agreement of backend, driver and coordinator; `StopEnds` | 3 fragments, 1 loss, 2 attempts to restore, 1 message on the bus: a rollover before, during and after a handoff, a restoration that fails and one that works |
| `capture` | `GpsInv`, `AnchorSteady`: what is published is fresh, lines are whole, the anchor does not wander; `WindowsTruthful`; `ReportTruthful`: no sound is claimed that is not there; `HeldIsAnswer`; `OverlaySound`: only open mappings are written, isolation is final; `FragmentsSound`: clips in order, no frame counted twice, nothing overwritten, an attempt settles what it registered; `ConvergedIsComplete`; `SegmentInv`: no clip lost by a clean close; `SoleOwner` | per part: lines of 2 bytes and 2 errors in a row (an oversized line that is dropped, one that breaks the connection), 2 reconnect delays; history of 2; 2 cards and 2 changes of the bus; 5 frames; 2 buffers for 1 mapping; 3 fragments in 2 attempts, 1 reordered; 2 pairs with 2 moves and 3 entries per pass; queue of 2; 2 pipelines |
| `appliance` | `FirstBootInv`, `BootstrapSound`: no partition is formatted twice or over data, journals tell the truth, the completion marker is last; `CardPlanInv`: the four geometries agree and fit; `BuildInv`: what is published was verified; `AddedMembersAreNewFiles`; `InstallSound`; `ProbeSound`; `NetworkServes`: a selection is made and its access point can be joined; `MetadataServes`: clips get their names, each by one accepted anchor whoever names it, and keep them; `WebInv`: calls are authorised, a named event happens once; `RecoveryInv`: the boot line is armed once, a restored journal has its audit, nothing is formatted again | 3 retries, 1 reboot and 2 power losses; 4 boots; cards from one sector too small to roomy; 2 executors, 2 kills; 3 managed files, 2 applies; 2 changes of the mounts and 1 power cut; 1 outage; 2 clips with pages of 2 and 1 attempt per pass, anchors that differ by half a millisecond and may be reacquired; 1 session, 2 ids made up by the service; 1 kill and 1 edit of the line |
| `control_join`, `recorder_stop`, `audio_start` | the findings of section 6 | the smallest instance that shows each |

The constants that a module names "bound" exist only to make the state finite; all the
others are settings of the program.

## 4. Fairness

Liveness is claimed only under what the code's scheduling gives:

* **Catalog** (`Recovery`): the runtime's storage loop calls `expire_download_leases` and
  replays pending intents again and again, whatever clients do in between, hence strong
  fairness of beginning a replay and of clearing leases; a begun replay goes on (weak);
  the clock ticks. Nothing is assumed of clients, closes or faults; faults are finite.
* **Storage**: weak fairness of the sweeping task and of the supervisor, both coroutines
  of a running loop whose threads end. None for the camera, clients or crashes.
* **Control**: asyncio locks are FIFO, so a waiter that stays gets the lock: strong
  fairness of taking each lock; weak fairness of a running coroutine and of a thread's
  end. The command timers are given no fairness, so the results do not rest on them; a
  read that gets no request does end by its own timeout.
* **Recorder**: weak fairness per coroutine, where what it awaits answers or meets its
  own deadline. None for the camera, signals, endpoint faults or the daemon's deadlines:
  `DaemonEnds` and `RecoveryEnds` do not need them.
* **Media**: weak fairness of `run()`'s coroutine, of `stop()`'s deadline and of the driver's
  own deadlines. None for streaming threads, devices or the bus.
* **Network**: every command has a timeout and both processes go on; the client and the
  operator may do as they please. The boot is followed from the interface it found.
* **Metadata**: the loop wakes at its interval and goes through its page, leases end (they
  expire), and a clip that is attempted again and again is not refused for ever unless it
  is parked (strong fairness of its success): the refusals that are retried are those of
  passing conditions.

## 5. Proofs

`tlapm M.tla` proves each `...Proofs` module from nothing. The theorems hold for every number
of clips, clients, pipelines, cards and faults and for every capacity, threshold and deadline,
under the named assumptions in the modules (what the code's own configuration checks
establish: positive limits, a low threshold below the high one, a read timeout below its
deadline), which TLC evaluates in the runs. A bound of an instance is never assumed to be
anything but a number. Each proof has one shape: an inductive invariant whose parts are
named, one lemma per action or group of actions that says which parts it can disturb, and
theorems that follow from the invariant in a state or in a step. The properties of the runs
are seldom inductive; what each invariant adds is the argument.

**ClipCatalogProofs** (`CatalogAssumption`). `TypeOK /\ CatalogInv` is inductive
(`CatalogConsistent`); `CatalogIsSafe` and `StepsAreSafe` state the conjunctions that the run
checks and `PromiseKept` is the refinement of `ClipStore`. `CatalogInv` adds, per clip, what a
pending intent says of its row (`IntentFits`, `RowInv`), where the files may be while it is
pending (`FileInv`), what a closing recorder has staged (`HoldInv`), that an unexpired lease
keeps intents away (`LeaseInv`), and, for a replay that is under way, that a rename has
rewritten the sidecar first (`TxnInv`) and that a download is backed by a lease
(`DownloadInv`). The steps that carry the argument:

* a commit happens only with nothing left to do, hence with both members at the target;
* an UNPROTECT that was overtaken has an older revision than its row, so its completion
  turns into a protection; the branch that repairs with a new UNPROTECT is unreachable;
* a lease that is active now was active at every earlier clock read of this boot, so an
  old read cannot let a mutation through; a reboot makes every lease one of an earlier boot.

`CountsAreKept` adds `CountInd`. For the cap on leases, the clips leased now and the one that
is leased next are among those that the old read counted, plus one. For the windows of
events, a clip that holds a snapshot has already been given every open window it falls into
(`SnapshotSpendsWindows`), an event opens its window before any later clip has a row, and a
clip leaves WRITING for good only out of a snapshot or as an orphan.

**StorageRetentionProofs** (`StorageAssumption`). `TypeOK /\ ModeDurable /\ SweepInv` is
inductive (`InvHolds`). `SweepInv` says what the storage task may rely on at each of its
places: its directive is still true of the volume because only the writer moves free space
meanwhile, and downwards; no look has failed since; before the camera opens nobody else
touches the monitor. `StepsGuarded` and the refinement `PolicyKept` follow step by step. That
`free` never exceeds `Capacity` is not needed and not proved.

**ControlEndpointProofs** (`ControlAssumption`). `EndpointInd` (`EndpointStaysFit`) says of each
request, whatever the others do, where its thread, its timers and its intent may stand
(`Fits`); that the durable lock belongs to exactly the request whose durable thread runs
(`LocksHeld`); and that a restart or removal is alone and visible (`OperationsAlone`).
`EndpointKeepsItsBooks` is `EndpointInv`, `OkIsReliable` is `OkMeansDone`: a reply that says ok was
given after the last step of its program, and an intent still pending contradicts it.

**RecorderDaemonProofs** (`SessionAssumption`). `DaemonInd` (`DaemonStaysFit`) relates the
two coroutines: where the session can be in each phase of the daemon (`PhasesFit`), that a
session is opened only after nothing is left of the one before (`OpensClean`), what the stop
task owns (`SessionFits`, as long as `runtime.stop()` does not interfere: `Undisturbed`), and
which events may be queued behind which published status (`Fresh`, `Retrying`, `Down`), so that
the observer never meets a transition it refuses. `DaemonShowsItsSession` is `DaemonInv`,
`CameraOpensOnce` is `NoSecondSession`, `WatchdogWaits` is `WatchdogSparesRecovery`.

**MediaBackendProofs** (`SlotsAssumption`, `BackendAssumption`). `MediaInd` (`BackendStaysFit`) goes
with the coordinator through both handoffs, every place where one of their steps fails, and a
`stop()` that arrives anywhere:

* a file that is being written, closed or announced belongs to the one activation of a slot that
  asked for it, and nothing about it follows its closure on the bus (`FilesFit`), so that no slot
  is reused under a file that it owns;
* the selector has a route except between the cut of the old one and the new one, and a step
  that fails knows on which side it stands (`RouteFits`);
* what `isolate_audio_loss` and `restore_audio` rely on across their waits: the slot they drain
  is still the old one, the candidate is still dark (`LossFits`, `RestoreFits`), and the audio
  pad has had an EOS only if its arbiter recorded it (`ArbiterFits`);
* `run()` and `stop()` never find a half-done handoff that nobody owns (`RunFits`), which carries
  the truth of the topology and the agreement of backend, driver and coordinator
  (`TopologyFits`, `IsolationFits`).

`BackendAgrees` is `MediaInv`.

**CaptureProofs.**

* `CameraHasOneOwner` (`SoleOwner`): a camera is held by an attempt that is under way or by
  one whose cleanup failed (`HoldersKnown`), and only the owner has an attempt under way.
* `QueueLosesNothing` (`SegmentInv`): the queue and the finalizer hold exactly the clips whose
  fate is open (`QueuedIsHeld`), and a failure is counted before it is forgotten.
* `NoSoundClaimed` (`ReportTruthful`): the state MATCHED belongs to a plan, and an attempt that
  runs under it opened a device (`AttemptHasDevice`); a report of an attempt is withdrawn
  when that attempt loses its microphone or ends (`ReportIsCurrent`).
* `SuccessorBeginsWithAnswer` (`HeldIsAnswer`): frames in the queue are consecutive, so the
  frame at the announced instant is the answer of the gate in use (`AnswerIsMine`), it is
  still to come until the callback holds it (`AnswerToCome`), and it enters first.
* `ConvergedPassIsComplete` (`ConvergedIsComplete`): a row that a pass has examined, a directory
  behind it and an intent that is gone stay right while no pass reports more work.
* `OverlayTouchesItsOwn` (`OverlaySound`): a callback that has counted itself in holds off
  the closure of its mappings until it has counted itself out, so that between the
  inspection of a buffer and its last row the renderer is neither isolated nor closed and
  the caps it validated still hold.
* `FragmentsBecomeClips` (`FragmentsSound`): nothing bears a sequence that was not given out
  (`GivenOut`), the clip in hand is the next in order (`InOrder`), and the frames of an attempt are
  rolled up from the clips they were counted for (`FramesFit`, `ClipsFit`). For the rows,
  `RegisterInd`: an opened fragment is queued once and held by nobody yet (`NamesAhead`), a
  clean attempt still has the closure of every fragment to come (`Accounted`), so that it
  cannot end before each was registered and finalized, and all rows that are WRITING are held
  but one (`CutShort`).

**GpsProofs** (`GpsConstants`, `TelemetryConstants`, `MetadataConstants`). `GpsPublishesTruth`
is `GpsInv`: what is published was fresh when it was read (`FreshWhenRead`, with the read deadline and the coalescing time in the bound),
nothing is published without a UART, a connection begins with an empty line.
`ClockKeepsItsAnchor` is the action property `AnchorSteady`. `WindowsAreTruthful` is
`WindowsTruthful`: the history is in strict order (`Ordered`), its samples are later than the
mark of what was evicted (`SamplesFit`), and every instant that was emitted is retained or not
after that mark (`EmittedIsKept`). What the selection of a window returns from a history of any
length (`WithinSelects`) is shown by a least counterexample, since the induction theorems
take an operator and cannot be used. `NamesAreTheAnchors` is `MetadataInv`, the safety half of
`MetadataServes`, with the action property `NamesStay`. Its arithmetic is in two lemmas: the truncation to the microsecond is lost in
the one to the millisecond, because an anchor has whole microseconds (`MicrosecondsVanish`), and
hence the civil duration of a clip differs from its measured one by less than a millisecond
(`ProjectionIsValid`), for every clock. Every name that is given or prepared is the projection
of an anchor that was accepted (`PlansFit`), and stays it because a clip keeps its interval
(`ClipChanges`, `SameProjection`) and the accepted anchors only grow (`AnchorSteps`).

**ApplianceProofs.**

* `FirstBootMayBeInterrupted` (`FirstBootInv`): the journal, stored or reconciled, claims nothing
  that is not on the card (`Truthful`), what is on the card hangs together (`CardHangs`), and
  the actions left of a plan are a suffix of its phase whose precondition the card meets
  (`PlanHangs`), so that power may fail between any two.
* `PlansEndInTheirVerdict` (`CardPlanInv`): a plan that is not empty is some fitting card's plan
  with its first actions carried out (`PlanInd`), for every card size and alignment.
* `BuildersVouch` (`BuildInv`), `AddedMembersAreTheirOwnFiles` (`AddedMembersAreNewFiles`),
  `CardIsRecoveredSafely` (`RecoveryInv`).
* `WebLetsThroughWhatItMay` (`WebInv`): a session says of its token what is true of it
  (`SessionsKnown`), and an event that is made or may still be has the client's id or one made
  up earlier (`IdFits`), none of which stands for two (`EventsNamed`).
* `ProbeLeavesNoTrace` (`ProbeSound`): a probe is created only after the provisioned
  volume was judged, a foreign file under its name took it since the last look wherever the
  probe unlinks without another (`Unseen`), and READY is said only when the name is free.
* `StagesMayBeInterrupted` (`BootstrapSound`): what the journal says while a unit is between two of
  its durable writes (`UnitFits`), what each phase and the volume promise in whatever boot they
  are read (`PhaseFits`, `VolumeFits`); a table was written in this boot only if
  the journal names this boot as its writer, so that the kernel of a boot in
  which Stage B makes the file system knows the partition.
* `OnlyThePlanIsApplied` (`InstallSound`): a file about to be replaced was not
  edited when it was last looked at, or the edit is a late one; an apply asks for the approved version, and has a whole release before it touches files and link
  (`ApplyFits`), under the assumption that no bundle bears the name
  the model uses for a missing or for an edited file.
* `HandoffCanBeUsed` (`HandoffOpens`, the safety half of `NetworkServes`): while no operator retries
  in this boot, credentials are stored, written, loaded and up in this order, and what an
  earlier boot left half done is overwritten before it can be reported (`BootFits`).

**What the proofs changed.** `FirstBoot` had a CASE whose arms overlapped, so that TLC looked at
one outcome of two; arms are exclusive now, there and in three other modules. `CardPlan` needs
`MinimumData > 0`, which the code's constant satisfies: without it an empty partition would
count as room for recordings.

The running sum `counted.inClips` of `FragmentOrder` replaces a fold over all clips, and the
window of `GpsTelemetry` is a recursive function instead of `SelectSeq`: neither can be reasoned
about otherwise.

**Only model-checked.** Liveness: `StorageProgress`, `RequestsEnd`, `DaemonProgress`, `StopEnds`,
`RecoverySettles`, `NetworkServes`, `MetadataServes`. Fairness and ENABLED are outside the
prover's reach, as is induction over data with an operator for a parameter. Every invariant
and action property of the passing runs is stated by a theorem, and so are the invariants
within `NetworkServes` and `MetadataServes`.

## 6. Findings

Three runs end in a violation, each of a sentence of the repository:

* `control_join`, `NativeWorkJoined` (`control/dispatcher.py:571`): `_run_blocking` joins
  its thread once and unshielded. The handler timeout and then the cancellation by
  `stop()` after its drain end the join, and a catalog thread outlives the endpoint. A
  thread waiting for SQLite's busy timeout makes this possible.
* `recorder_stop`, `StopReleases` (`recorder/runtime.py:3050`): a stop requested while
  `_recover` opens the replacement is noticed by nobody; the daemon reports an orderly
  stop with a pipeline playing, the camera claimed and a clip open.
* `audio_start`, `MicrophoneNeverStops` (`recorder/runtime.py:2823`): a microphone that udev
  lists and that cannot be opened fails the start, or uses up the restarts, though the
  project document says that a microphone must not stop the recorder. Only wrong caps
  lead to the fallback.

Seen while modelling, and not turned into runs:

* DELETE is not among the kinds that the finalizer executes (`recorder/finalizer.py:808`), so
  a deletion that was prepared is answered as a fault and carried out later by the
  reclaimer; `tests/unit/test_control_dispatcher.py:777` expects otherwise of a fake.
* A startup deadline that cancels `start()` while it undoes a failed attempt makes
  `RecorderDaemon.run` raise `PipelineFault` instead of returning an outcome
  (`recorder/daemon.py:319`; `StartRaises`).
* An endpoint fault while a session is replaced publishes DEGRADED, which the watchdog
  counts as recording; `WatchdogSparesRecovery` therefore speaks of an endpoint that
  works. Also, the cleanup of a failed session precedes the RECOVERING event, so that
  the watchdog may fire during a long cleanup.
* A full volume noted between an observation and the sweep's second read of the snapshot
  can add one deletion; `ReserveOnlyShort` names this exemption.
* An event right after a rollover does not cover the clip that is still closing: it is
  no longer the current one and not yet a FINALIZED previous one.
* A client gets an error for an intent that the recorder replayed before it.
* `restore_audio` clears the quarantine of the lost source (`recorder/gstreamer.py:6432`,
  `6484`), which the comments at 6335 and 6717 say is kept; and `stop()` chooses the fragment
  to close before it owns the driver (docstring at 2535), so a handoff may change it.
* A power cut during the write probe leaves its file, and every later preflight refuses
  (`storage/preflight.py:545`, `944`): the recorder does not start again by itself.
* In Bootstrap v1, a Stage A that only reconciles a table it finds written keeps the boot
  ID of the boot that wrote it and asks for a reboot; Stage B takes the same boot for a
  later one and may run before that reboot. The kernel already booted with the table.
* The roll-up of an attempt's frame counters runs before its background tasks end
  (`recorder/runtime.py:2962`), so frames counted meanwhile are in no total and
  `runtime_snapshot` (897), which promises measured facts, can be behind; `FragmentsSound`
  claims only that no frame is counted for two clips.
* After a failed update the overlay keeps its last text, which may be an old position
  (`recorder/runtime.py:1490`).
* The cleanup of a failed backend in `ContinuousPipeline` gives the ownership guard back even
  when the stop failed; `SoleOwner` names this exemption.
* `reconcile_startup` has no caller under `src/src/` (its tests call it): `StartupReconcile` says
  what it promises to whoever does.
* `reconcile_startup` scans rows and directories from their beginning in every pass, so it
  never converges on a volume larger than its bounds; an imported protected pair in
  `clips/` is repaired by a later pass only; and, against the comment at
  `catalog/database.py:1695`, importing a pair from `pending/` creates no FINALIZE intent.
* A plan is a card index: a device that takes the index of the chosen one before it is
  opened is recorded instead (`audio/alsa.py`). The audio state stays UNAVAILABLE after a
  replacement that records sound, until a snapshot of a restoration.

## 7. Not modelled

Parsing, formatting, logging and rendering (NMEA fields, ALSA and udev text, JSON, HTTP,
pixels); the construction of the GStreamer element graph and running times of buffers;
formats of images, archives and manifests; configuration, health and diagnostics, which
keep no state that another part reads; the acceptance scripts under
`src/deploy/ssh-dev-validation/`, which drive a device over ssh and judge measurements.
In the catalog, the scans that no production caller uses and the schema migrations.

## 8. Plan

Done, in this order: `ClipCatalog` and its proofs; `ControlEndpoint`; `StorageRetention` and
its proofs; `MediaSession` and `RecorderDaemon`; `RecordingSlots` and `MediaBackend`; the
capture parts; the appliance parts; proofs of every invariant and action property of the
passing runs.

Next: the safety facts on which the liveness of `RecorderDaemon`, `StorageRetention` and
`ControlEndpoint` rests (a measure that each helpful step lowers), as theorems.
