# Aktualino in TLA+

Aktualino is an Uptane over-the-air update client for the ESP32. A board polls a
*Director* (which assigns firmware to it), checks every assignment against an
independent *Image repo*, writes the image into the inactive one of two flash
slots, restarts into it on trial, confirms it once Wi-Fi and time are up, and
reports the outcome. A board without an identity opens a SoftAP portal, fetches
credentials from the cloud and registers itself.

This directory holds its formal models, the TLC configurations that check them,
and the proofs TLAPS checks. Everything is written from the C source; comments in
the modules name the functions, and `PROJECT.json` maps each definition to its
lines.

    tlc -workers 2 -config LifecycleSafety.cfg MCUpdateLifecycle.tla
    tlapm UpdateLifecycle_proofs.tla

## Inventory

| Component | State | Operations | Interacts with |
|---|---|---|---|
| `main/aktualino_main.c` | app state, `pending_verify` (read once per start) | boot order, factory reset, `handle_post_boot`, poll loop, portal driver | everything; one thread, plus the portal's task |
| `aktualino_ota` | two slots, otadata (ESP-IDF), the session of a download | begin, write, end, abort, set_boot, mark_valid, inactive_slot_failed | the bootloader, at the next reset |
| `aktualino_store` | NVS: identity, Wi-Fi, ECU key, running and pending records, roots, role versions | one durable write per key; two-namespace reset | every component; survives resets |
| `aktualino_core` | two repository contexts (root in RAM) | trust anchor, root walk, role verification, snapshot chain, cross-check, download and install | store, net, uptane, ota |
| `aktualino_uptane` | none | role verification, ISO dates, chain links, target selection, cosignature, manifests | crypto |
| `aktualino_prov` | none of its own | credential fetch, root seeding, ECU key, registration, first manifest, all reports | store, net, Director |
| `aktualino_portal` | `s_submitted`, `s_submit`, state | form, task, restart on success | HTTP server thread, its own task, main thread |
| `aktualino_net` | the client and the buffers of one request | mutual-TLS request, streamed body, redirects | servers, ota |
| `aktualino_time` | system clock | SNTP, sanity floor | core, main |
| `aktualino_script` | script partition, live VM, fault count | install, run, quarantine, report a Berry bundle | core, prov; its own task |
| `aktualino_crypto` | none | keys, digests, signatures, hexadecimal and base64, canonical JSON | uptane, core, prov |
| `aktualino_berry` | one virtual machine | new, load, call, free | script, interpreter |
| `aktualino_berry/berry` | bytecode, stack, heap of objects, globals | compile, run, collect; lists, maps, ranges, classes, exceptions | a script bundle |

What is hard here: a restart between any two flash writes (every record is several
NVS keys, each durable on its own); a bootloader that acts only at a reset; answers
that are lost after the server acted; server files from different moments mixed in
one poll; a clock that may be wrong; a portal whose HTTP thread, task and main
thread share flags; a script task that runs while its bundle is replaced; a download
of which any call may fail while it holds a connection, buffers and a half-written
slot; a compiler that allocates registers in one pass and folds, patches and discards
what it emitted; a collector that runs at any allocation; and results that the code
ignores.

What makes each part correct: the board always boots a complete image both
repositories signed; reports to the Director are true, and every kept assignment
ends installed or reported failed; metadata never goes back and the device is never
locked out of newer metadata; a board that counts as provisioned is registered with
what it holds, and enrolment always ends or starts again; the script bundle that runs
is the one both repositories signed and flash holds whole; a download switches the
slot only to the bytes asked for and gives back all it took; a signature is accepted
only over the document it was made for; a script does what its source says, wherever
the collector runs.

## Modules

| Module | Models | State in the model and in the code |
|---|---|---|
| `UpdateLifecycle` | one board from assignment to report: `handle_post_boot`, the poll loop, `download_and_install`, the slots and the bootloader, power loss between any two flash writes | `slot`, `ota`, `boot`: flash and otadata; `pend`, `run`: NVS records, key by key; `cur`, `pv`, `pc`, `res`, `err`: RAM; `assigned`, `verdict`: the Director |
| `ABUpdate` | what A/B updating promises, in three variables: a good image, perhaps one on trial | abstract; `UpdateLifecycle!AB` gives the mapping from slots and otadata |
| `RoleVerify` | `akt_verify_role`: signatures, threshold, expiry, version | pure operators over abstract roots and envelopes |
| `Json` | what cJSON tags its items with, and how a field is looked up | tagged values; cJSON is external |
| `CanonicalJson` | `akt_canonical.c`: the bytes that are signed, beside what a document means | pure recursive functions over `Json` values; the symbols with their byte order and the deepest nesting are constants |
| `CryptoCore` | `akt_crypto.c`: keys, digests and signatures in their text forms | pure; `SignatureOf`, a constant, makes a signature of a method, a key and a text |
| `UptaneDocs` | `akt_uptane.c` and its wrappers over whole documents: envelopes, dates, links, targets, cosignature, manifests | pure operators; documents are signed over `Canonical` of `CanonicalJson` |
| `UptaneCases` | every call of them within bounds, beside what the documents were made from | `call`, `out`: one step per behaviour |
| `RepoClient` | one repository's client: trust anchor, root walk, three roles, chain, version floors; the repository publishing, expiring and serving stale files. `Chained` tells the Image repo from the Director | `nroot`, `nver`: NVS; `root`, `held`, `now`, ...: RAM of a poll; `roots`, `releases`, `time`: the world. Uses `RoleVerify` |
| `Provisioning` | boot decision, portal, credential fetch, seeding, ECU key, registration, first manifest, factory reset | `id`, `tuf`: the NVS namespaces, key by key; `pc`, `job`: main thread and enrolment; `sub`, `assoc`: what was entered, and the network the station is on; `devices`, `ecus`: cloud and Director |
| `ScriptSecondary` | the script track: `script_init`, `script_poll`, the store, validation, the swap of the live VM under `s_lock`, and `script_task` beside it | `hdr`, `body`: the `scripts` partition; `live`, `faults`, `quarantined`, `ticking`, `health`: RAM shared by two threads; `pc`, `res`, `claim`: the poll thread; `assigned`, `told`: the Director |
| `SlotInstall` | what a download promises about the other slot, in one step | abstract, at the grain `UpdateLifecycle` uses it |
| `ImageTransfer` | `download_and_install` past the cross-check, read by read: `get_stream` with its redirects, `ota_write`, the digest, staging, the flip, and every early return | `pc`, `slot`, `sha`, `total`, `err`: the line and its data; `held`: what is allocated; `status`, `location`, `hops`: one HTTP leg; `staged`, `boot`: NVS and otadata. `Abstract` maps it to `SlotInstall` |
| `BerryCode`, `BerryParser` | `be_code.c`, `be_parser.c`: tokens to bytecode, with registers, constant folding, jump lists, scopes and upvalues | pure operators on a compiler state and expression descriptors |
| `BerryTable`, `BerryMap` | `be_map.c`: the chained hash table behind maps; `be_maplib.c` over it | `map`: slots, last free; `dict`, `iter`, `seen`: what a script was promised |
| `BerryHeap` | values, objects, upvalues, classes and instances, lists, and the mark-and-sweep collector | the machine record `vm`: stack, frames, heap, handlers |
| `BerryVM` | `be_vm.c`, `be_exec.c`, the native methods and `aktualino_berry.c` above them: one step per instruction | `vm`, and `log`, what the script said |
| `BerrySource` | the reference: a program as a tree, its tokens, and what it means | pure |
| `UpdateLifecycle_proofs`, `RepoClient_proofs`, `Provisioning_proofs`, `ScriptSecondary_proofs`, `ImageTransfer_proofs`, `CanonicalJson_proofs`, `Uptane_proofs` | theorems | |
| `RecursiveFunctions` | nothing of the board: when a recursive function satisfies its own equation | theorems; the body of the function is the constant `Body` |
| `MC*` | values for the constants; `MCUptaneCases` gives the byte order of the symbols its documents use and a signature as a printed term, `MCBerryVM` also holds the 93 programs | |

Conventions. One action per durable write or per request: power may fail between
any two. A failing call is a second branch of the action, enabled by a member of
`Faults`. `PowerLoss` is every unplanned restart. A request has two outcomes of its
own, *delivered* (the server acted) and *acked* (the board knows). An image stands
for a whole target (path, digest, length); a signature is the key that made it and
whether it verifies; a hash link is the file whose bytes it was computed from.
Operators named after a definition with a suffix and headed "Mutant" are wrong
versions of it, there to show that the properties notice.

`UpdateLifecycle` abstracts both repositories' metadata to "the Director assigns
this, the Image repo signs that set" and `RepoClient` leaves out what is done with
accepted targets: the interface between the two is `aktualino_poll_result_t`, and
each module allows every outcome the other one can produce. In the same way its
`Download` is one step: `ImageTransfer` is that step read by read. What comes of it is
what `SlotInstall` allows (`Refines`), and the lifecycle allows that too, the right
bytes given up included (`EveryOutcomeIsTaken`).

`RoleVerify` and `UptaneDocs!VerifyRole` are one function at two grains: the state
machines use the first, over envelopes that are a set of signers, an expiry and a
version; the second reads the fields, the dates and the signed bytes. That they agree
is a theorem, `TwoGrains`.

The Berry modules check the interpreter against meaning. `BerrySource` writes a tree
out as tokens and also runs it directly, with one cell for every `var` executed;
`BerryParser` compiles the tokens and `BerryVM` runs the bytecode, each instruction
as the C does it on the stack and heap. Every program is run without the collector
and with a collection at every allocation. The step from the C to the model was
itself checked outside TLC: each of the 93 programs was run by the vendored
interpreter, and logs the same.

`RepoClient` keeps the two repositories apart because the code does: they share no
NVS key and no RAM. The one place they meet, the cross-check, is in
`UpdateLifecycle` (`Crosscheck`, `DigestMatches`).

`ScriptSecondary` shares the poll thread, the repositories and the manifest with the
others, and no state: a bundle is assigned for a hardware id of its own and stored in
a partition of its own. A bundle stands for its bytes, digest and target, and for the
VM they were loaded into; what its code does is in four sets (`Broken`, `Moody`,
`Runaway`, `Healthy`). The header is one write of 294 bytes (`script.c:96`) that begins
with magic, length and digest, and is modelled in two steps. Before the second these may
be on flash whole (`hdr = res`) or not (`Torn`), and power loss or a failing write may
leave it there. Bytes under a torn header are complete, are validated at the next start
and run, and the bundle is installed again. A header with its digest whole counts as the
bundle's, since `script.c:365-366` compares nothing else. If its write has reported a
failure all the same, the new VM was freed and `set_live` never ran: failure is reported,
the next poll reports success, and the old VM, or none, runs until a restart loads the
store or another bundle is installed. `unswapped` marks exactly this state; no action
reads it, and three properties except it by name (see the further configurations).

## Runs

Passing:

| Run | Question | Faults allowed, and bounds |
|---|---|---|
| LifecycleSafety | Is there always a complete, co-signed image to boot, does a trial find its record, is this an A/B updater? | all seven fault kinds; 3 images (factory, co-signed, Director-only), 2 assignments |
| LifecycleReports | Are reports true, and does an assignment end: installed, or rolled back and reported? | failing set_boot, lost reports, failing start; a sound image and one that panics. No power loss in the staging window (see FalseSuccess), no failing NVS |
| LifecycleAnswered | Is the record of the running image right, and nothing flashed twice? | three assignments: a new image, one that panics, and back to the factory image. Reports answered (see StaleRunningRecord) |
| UptaneCases | Does the Uptane library accept, select, serialise and report exactly what it should? | five families of documents: two Ed25519 keys and an RSA key, lists of up to 2, thresholds 0-2, entries that are reordered, of another document or garbled; dates around month, year and century ends; 55 broken pieces and none; every pair of a few dozen small JSON documents; up to two targets in four shapes, with well-formed and broken digests. A digest of two bytes stands for 32; no two entries for one key id |
| ImageTransfer | Can a download switch to wrong bytes, leak, or hang? | any answer of any server: redirects (2, in the code 4), refusals, a target of 2 chunks, a slot of 3, bodies that are short, long, wrong or cut off; every call that may fail failing |
| BerryProgram | Does a script log what its source means, and is nothing freed that the machine can reach? | 93 programs over expressions, control flow, closures, classes, exceptions, lists, maps, ranges and calls of the host; the collector never, or at every allocation; stack of 60 cells |
| ImageRepo | Do accepted files belong together, how old may they be, can the client lock itself out? | any file ever published at any GET; 2 roots with new role keys, 3 releases, power loss |
| RootWalk | Does the root walk end where it set out for, moving only to roots its own keys signed, and is a revoked key refused? | any root at any path, failing NVS, bad clock, 3 roots that hand the keys over, one too large to read back |
| EnrolFlaky | Is a provisioned board a registered one? | power loss anywhere but in a reset, failing NVS, failing joins and time syncs, lost answers, a form sent again after success, factory reset, a wrong password; 2 device registrations, 5 random draws |
| EnrolLive | Does enrolment end, with keys, roots and versions that belong together? | a wrong password and a wrong network, failing joins and time syncs, lost links and answers, a form sent again after success, factory resets that run to their end, power loss except while credentials and roots are stored or erased; 2 registrations, 6 draws. NVS writes succeed |
| ScriptTrack | Does what runs stay co-signed, stored whole and alive under the task, are reports true, does a kept sound bundle run? | power loss, failing flash (a header write that fails with the digest whole included), lost reports; a sound bundle, one only the Director signs, one that never validates, one that fails now and then; quarantine after 2 faults (the code's 3). Calls return (see RunawayBlocksPoll), memory suffices |

Why the bounds are enough. Three images are the least with which a slot can hold
the old, the new and a wrong one; the second assignment is what a record can be
stale against, the third brings the factory image back. Two roots give one
rotation, three a rotation cut in the middle; three releases give a mix in which
each of the three files is of another one. Two registrations and two draws per
start give an old and a new identity. No property speaks of more than two of
anything at once. `MaxReleases`, `MaxTime`, `MaxDevices` and `MaxDraws` bound the
environment, never a step of the board that a property waits for: the steps that
need a draw or a registration are guarded so that one is left for the last start.

`MaxRedirects = 2` distinguishes the first, a middle and the last leg; a target of
two chunks and a slot of three give a body that is cut in the middle, one that is too
long for the target and one that is too long for the slot. The programs are written
so that each form of the language the compiler treats in its own way occurs at least
once, alone and where registers, jumps or scopes of its surroundings matter; within
each, every choice of the machine (the collector) is explored.

Violated, a disagreement between the code and what the repository says of it:

| Run | The repository says | The model shows |
|---|---|---|
| FalseSuccess | `main.c:370`: "The pending slot is the one we're running on (already valid)" | the record is staged before the slot is flipped; power loss between makes the old image report the new one's success, and `target_is_new` then never installs it |

Further configurations. They are not part of the checked list; each but the last
makes TLC find the named property violated, and marks the edge of what a passing run
claims. Those with a note in parentheses have no file: they are a run's configuration
with the constants noted, or with the property noted in place of the run's.

| Configuration | Property | Said where | Shown |
|---|---|---|---|
| SelfCheckParks | FailedSelfCheckRollsBack | `README.md:33-34` "an image that boots but fails its self-check is rolled back by the bootloader" | a trial without Wi-Fi or SNTP parks; only a reset rolls it back |
| RefusedNamedInstalled | InstalledIsStored | `berry-secondary-spec.md:211` "Uptane requires the ECU to report the identity of its installed image" | a failure report names the refused bundle as the installed image |
| NoRetryOnPoll | KeptPendingIsReported | `main.c:351` "keeping pending, will retry next poll" | the pending record is read once per start, by no poll |
| RebootMidFlow | ResumesWithoutPortal | `aktualino_portal.c:170` "so a reboot mid-flow resumes without the portal" | Wi-Fi without credentials: no portal, no enrolment, the board idles |
| StaleRunningRecord | RunningRecordIsActive | `aktualino_store.h:135` "currently installed and confirmed on the active slot" | a lost success report, then another trial rolled back, leaves an old record |
| (LifecycleSafety: no faults, images factory, good and one that panics, both co-signed, `ImageOf <- SoundOrPanics`) | RunningRecordIsWhole | `aktualino_store.h:143` "idempotent across power loss" | power loss after the file name was erased: the next start records a running image without a name |
| (RootWalk: `Chained`, nothing `Oversized`, every life 1, `Seeded`, no faults, `FairSpec`, `MaxReleases = 2`, `MaxTime = 3`) | CatchesUp | `aktualino_core.h:128-131` | each link's expiry is checked, so an expired root on the way stops the walk for good |
| (RootWalk: keys and thresholds `TwoRootKeys`, `TwoThreshold`, `NewRoleKeys`, `Oversized = {2}`, `RootLife = 9`, `Seeded`, no faults, `MaxReleases = 2`, `MaxTime = 3`) | PersistedRootIsUsed | `aktualino_core.h:84-87` | a root above 8 KiB is stored and cannot be read back |
| TornCredentials | HaveCredsIsFull | `aktualino_store.h:56` "a full device identity is present" | two of the six keys are looked at |
| (EnrolLive: faults `power_loss`, `creds_loss`, `Spec`, `OnlyRight` submissions, one device, four draws) | RegistersSeeded | `docs/provisioning.md` "seed the Torizon Director/Image roots" | power loss between credentials and roots: the retry skips both |
| TornFactoryReset | VersionsAreOurs | `aktualino_store.h:169`, `SPEC.md:311-315` | the TUF namespace outlives the identity |
| (ScriptTrack: WhatRunsIsStored without `~unswapped`) | WhatRunsIsStored | `berry-secondary-spec.md` "what we sign is what runs" | a bundle runs, the next one's header write fails with the digest whole: between polls the header names the new one and the old one runs |
| (ScriptTrack: ReportsAreTrue without `unswapped`, either part) | ReportsAreTrue | `script.c:412-416`, `365-370` | failure is reported of the bundle the header names, and at the next poll success, while the old VM runs |
| (ScriptTrack: AssignedBundleTicks without its second disjunct) | AssignedBundleTicks | `script.c:418` "the new bundle now runs continuously" | from then on every poll reports success and the assigned sound bundle never ticks until a restart |
| RunawayBlocksPoll | PollLoopGoesOn | `berry-secondary-spec.md:250` "a runaway `loop()` only stalls the low-priority script task, not the OTA client" | a `loop()` that does not return stops the poll thread, in validation or in `set_live`, which waits for the lock without a limit |
| HostBalanced | HostBalanced | `aktualino_berry.c` keeps the stack handling in one place | a load or a call that fails leaves two values on the machine's stack, so a script whose `loop()` keeps failing fills it |
| BerryMap | KeepsItsPromise, RoomLeft, ForSeesAll (all hold) | `be_map.c` | a map keeps what was stored, has a free slot when one is needed, and a `for` over it sees each key once (4 keys that collide, 80,271 states) |

Also seen, not a run: if an NVS write *fails* (rather than power) in
`save_ecu_key`, the next attempt can leave halves of two keys; `KeyPairMatches`
is claimed for power loss only. A key id listed twice in a role counts twice
(`akt_uptane.c:86` "Count distinct authorized keyids"). A station that is on the network
asked for counts as joined whatever password was entered (`aktualino_portal.c:127-135`):
a retry with a wrong one stores it, enrols the board and restarts it, and the start then
fails to join and parks in `error`. `BoardEnrols` claims that the board leaves the portal,
not that this start gets through.

### Fairness

* Weak fairness of `Device` everywhere: the board runs while it has power.
* `UpdateLifecycle!FairSpec`: strong fairness of a successful bring-up, cross-check,
  download, set_boot and acked report: each is attempted again at every start or
  poll, and a gateway that is tried for ever answers in the end.
* `Provisioning!FairSpec`: strong fairness of the join with a right entry, of the time
  sync and of the three requests: each may fail any number of times (`JoinFails`,
  `SntpFails`, lost answers) and gives the form back; tried for ever, it succeeds in the
  end. The code assumes no less: it has no other way out of the portal, and without
  either of the first two `BoardEnrols` is violated. The operator at the portal keeps
  trying and enters the right Wi-Fi in the end; the two-second loop of `start_portal`
  runs. Of the link (`LoseLink`) nothing is assumed.
* `ImageTransfer!Spec`: weak fairness of the transferring task alone. A server owes
  nothing: a connection that hangs times out, which is one of its failures.
* `RepoClient!FairSpec`: nothing beyond `Device`. What the server must do is in the
  property (`Calm`, `Fresh`): from some time on it serves its newest files.
* `ScriptSecondary!FairSpec`: weak fairness of the poll thread and of the ticks, and
  of a call's return unless the bundle is a runaway: two tasks of a preemptive
  scheduler. Strong fairness of a poll that answers, a cross-check, a download (tried
  again at every poll), and of `set_live`: `script_task` sleeps half a second between
  two ticks with the lock free, so a waiting thread gets it.
* Power, the Director and the factory button are never fair; liveness is claimed for
  behaviours in which they come to rest (`Steady`), and says so.

`CHECK_DEADLOCK FALSE` is set where stopping is right: a board parked after a failed
start (`idle`, `error`), the one-call behaviours of `UptaneCases`, and a board that left `ImageTransfer` by
restarting into the new slot.

## Proofs

`UpdateLifecycle_proofs` (under `LifecycleAssumption`: the factory image neither
panics nor is mute, assignments name images, absent values are no images):

* `Invariance`: `Spec => []LifecycleInv`. `AlwaysBootable` is not inductive: that
  erasing the other slot is safe depends on where the thread is and what it learned
  on the way there. `LifecycleInv` adds `BootInv` (at most one slot is on trial and
  it is the selected one; `boot` and `cur` differ only before the restart), `SlotInv`
  (slots in use hold trusted images), `InstallInv` (what the installing thread has
  established at each of its lines) and `RecordInv` (how far the record under
  construction agrees with the assignment, as long as no write failed).
* `TypeCorrect`, `Bootable`, `Gate`, `TrialRecord` follow from it, under every fault.
* `Refinement`: `Spec => AB!Spec`. Initial states map to initial states; given the
  invariant, each action is one of `Offer`, `Try`, `Keep`, `GiveUp` or a stutter.
* `InstallsAsPromised`, `EveryOutcomeIsTaken`: the lifecycle and `ImageTransfer` meet in
  `SlotInstall`. Between two changes of the running slot every step of the lifecycle is
  one of `SlotInstall`'s for the image at hand, or a stutter; a reset gives the
  installation up wherever it is, and `RecordInv` is why a record counts as whole at
  `set_boot`. At the download the two allow exactly the same. `SlotInstall` takes the
  record as none until it is staged; what a failed installation leaves in NVS is for
  `LifecycleInv` and the reports' theorems.

The second half of the module is about what the device says of itself. A record is
written key by key and outlives a lost report, so these hold only for some faults, which
the theorems name; crashes elsewhere, failing `set_boot`, failing Wi-Fi and factory
resets are all allowed:

* `RollbacksAreTrue`, `SuccessesAreTrue`: without `staging_loss` and `nvs` (and, for a
  success, `mark_valid`). `PendingInv`: outside the staging window a record is whole, and
  of the image in the aborted slot if there is one, otherwise of the selected image; no
  install begins while a rollback is unreported. Lost reports are allowed.
* `RunningRecordsAreActive`, `NothingIsReflashed`: if no report is lost either. `RunInv`
  follows the record through a trial, in which it still names the image to fall back to.

`RepoClient_proofs` (under `RepoClientAssumption`: lengths and thresholds are
positive, time starts at the floor):

* `TypeCorrect`: `Spec => [](TypeOK /\ PinsInv)`.
* `ConsistentRelease`: the three files of an accepted Image repo poll are one
  release. The argument follows the pins: every release's timestamp pins its snapshot,
  which pins its targets (`PinsInv`), and what is accepted has passed the chain.
* `Staleness`: a newer timestamp that is unexpired bounds how old accepted targets
  may be; needs that later releases have later expiries.
* `NeverOlder`: if NVS writes succeed, no accepted file is older than an earlier
  accepted one. The invariant relates three places: the stored floor, the files held
  in RAM by the poll, and those of the last accepted one.
* `WalkCompletes`: `Spec => []WalkArrives`, whatever is served for a link, under every
  fault. `WalkInv` adds that a walk under way has not passed its end: the root it stops
  with is then the version it set out for, or a newer one.
* `RotationRevokes`: a file a poll has verified carries a key that the root it trusts
  names for the role. The root does not change once the first file is verified, so what
  was checked then still holds at the end.
* `TrustIsNotSeized`, where no root names a key twice: the C counts entries of the keyids
  list, and `SameCount` is the bijection between those entries and the keys that signed.
  Without the hypothesis it is false of the code: a key listed twice counts twice.
* `StoredVersionsGrow`, under every fault; `StoredRootGrows`, as long as every stored root
  can be read back (`Oversized = {}`) and no root is served under the number of another:
  with either, a start or a link stores an older one.
* `EveryPollEnds`: each step of a poll lowers `StepsLeft`, a natural number, so that no
  server can keep a poll alive: the safety half of `CatchesUp`, whose other half needs
  fairness. TLC checked it, and the two above, with the constants of RootWalk and
  ImageRepo.

`Provisioning_proofs` (under `ProvisioningAssumption`: an absent key is no value; what
operators type is not empty). Each theorem names the faults it excludes; all others may
happen anywhere, and there may be any number of devices, draws and submissions:

* `TypeCorrect`: under every fault. `BaseHolds` adds `Quiet` (only the portal's task and
  the enrolment at start have a step to do) and `Ready` (what is on flash at each of
  its last steps).
* `ProvisionedBoardsAreRegistered`, from `Enrolled`: the flag is set by the last step
  of an attempt, and what it needs was established by the steps before it, each by
  another request or NVS write. A form sent again after success starts over under a set
  flag: it finds the credentials stored and goes straight to the end (`Resuming`).
* `SerialsNeverCollide`, from `Own`: a nonce is drawn before credentials are fetched,
  so while they are fetched no server has heard of the board's serial, and afterwards
  only under the board's own identity. Erased entry by entry, a board could keep its
  nonce and lose its credentials: a factory reset must run to its end.
* `VersionsNeverOutliveTheIdentity`, from `Ours`; `KeyHalvesMatch`, from `Paired`: the
  private half is written last and never survives without the public one;
  `IdentitiesAreWhole`, from `Seeded` and `KeyHalvesMatch`.

`ScriptSecondary_proofs` (under `ScriptAssumption`: `None` and `Torn` are no bundles,
the fault limit is positive):

* `Invariance`: `Spec => []ScriptInv`. None of the properties is inductive alone:
  `script_init` runs whatever is under a header without looking at a signature, so
  that it is co-signed follows from what every line of the last install had checked
  (`Checked`, `Working`) and from the order of the flash operations (`Storing`);
  `Swapped` ties the live VM to the store, `Counting` the faults to the quarantine.
* `TypeCorrect`, `Cosignature`, `Commit`, `LockGuards`, `StoredRuns`, `TrueReports`,
  `Quarantine` follow, under every fault and for bundles that run away too. `StoredRuns`
  and `TrueReports` are of the properties with their exception: a header write that
  fails with the digest whole sets `unswapped`, and `Swapped` says what holds until the
  next start or install clears it.

`ImageTransfer_proofs` (under `TransferAssumption`: the target is a sequence of
chunks that fits the slot):

* `Invariance`: `Spec => []TransferInv`, for every target, slot size, number of
  redirects, answer and failing call. `HeldInv` says what may be allocated at each
  line, `DataInv` that as long as no error was seen the digest is of exactly the bytes
  in the slot.
* `ReleasesAll` (`GivesBack`) follows from the first half.
* `Refines`: `Spec => ImplementsInstall`. Each read stutters; the step that ends the
  stream is the abstract `Download` of whatever the slot then holds, and what is known
  at `stage` and `flip` is that it holds the target.
* `Bounds`: each step lowers `StepsLeft`, for every number of redirects and slot size: the
  safety half of `Ends`, with a bound (`Capacity + 4 * MaxRedirects + 12` steps). TLC
  checked it with the constants of ImageTransfer.

`CanonicalJson_proofs` (under `CanonicalAssumption`: the alphabet lists its symbols once
and has those the serialiser writes). `Docs` are the documents that nest at most
`Nesting` deep and in which no key comes twice in one object:

* `CanonicalDecidesMeaning`: `Canonical(v) = Canonical(w) <=> Meaning(v) = Meaning(w)`
  for all `v`, `w` of `Docs`: strings and lists of any length, any integers, any byte
  order. From right to left (`OneText`): the sorted keys of an object are a function of
  their set (`Sorted`), since `KeyBefore` orders texts (the rank of the first symbol in
  which they differ, or where one has ended). From left to right (`TextDecides`), by
  reading: `At(T, p, w)` says that `w` stands in `T` behind `p` symbols, and `ReadsOnce`
  that all documents which stand at one place and end there say the same. A string is
  read code by code up to its closing quote, which no code begins with (`StringRead`); a
  number up to a comma or a bracket, which no numeral is (`NumberRead`); a list item by
  item (`JoinedRead`); the first symbol tells the kind (`OneOpener`).
* The hypothesis on keys is needed: of items with one key the C's `qsort` may write
  either first, and a lookup finds the first in the document.
* `RecursiveFunctions` is what the induction over data rests on. TLA+ defines
  `f[x \in S] == Body(x, f)` by CHOOSE, and the library's theorems on recursive functions
  take the body as an operator, which these provers cannot instantiate. Here `Body` is a
  constant of the module: the serialiser, what a document means, the digits of a
  number, `FlattenSeq` and the nesting of documents are five instances of it, and
  `Solved` and `SolvedTogether` give each its equation. Induction is then the choice of
  a least counterexample (`LeastRank`), by depth, length or number.

`Uptane_proofs` (under `CryptoAssumption`: a digest has between 1 and 32 bytes;
`CanonicalAssumption`; `CasesAssumption`: the alphabet has the symbols the run's
documents use and `Nesting` allows the two levels they nest; `SignatureAssumption`, see below). Its first theorems are about the operators of `UptaneDocs`,
for all documents, not about a run's:

* `DaysAreCounted`: `days_from_civil` is the calendar, by month, leap year and century.
* `TimestampsCompare`: `akt_parse_iso8601_utc` reads every text laid out as
  `YYYY-MM-DDTHH:MM:SS` that shows a date of the calendar, and orders such texts as the
  dates and times they show. `FieldsFound` follows the scan through the text;
  `DatesInOrder` adds the months and years up.
* `TwoGrains`: `VerifyRole` over documents accepts exactly when the document and the root
  have their fields and `RoleVerify!VerifyRole` accepts what `RootOf` and `EnvelopeOf`
  read off them, with a clock and without. It carries `RepoClient`'s theorems over to
  documents. The two count votes differently (a key id's first entry in the document, a
  key that signs an abstract envelope), and a date is a pair of numbers on one side and
  one number on the other: `OneKeysVote` and `GatesAgree`.
* `BothRepositoriesPin`: a target that was selected and cosigned is the first one for the
  hardware, and both repositories give its path that length and digest.
* `ManifestsAreScoped`: every manifest verifies part by part, each part reports what its
  ECU has installed (read back from the hexadecimal), and whose installation report it
  carries depends on the two correlation ids alone.

Arrays and objects of the documents are lists (`IsList`) by hypothesis, as cJSON's are.
"The first entry" is `SelectInSeq`, a minimum: `LeastExists` derives the least-number
principle from well-foundedness.

Then the properties of the run itself, with any digest length, alphabet and nesting:
`PinsHold`, `ReportsHold`, `TextsDecide` and `RolesAreExact`. `CasesInv`, `TextInv` and
`RoleInv` add what a call may be; each family of calls is one lemma, which reads the
general theorem off the call. For `TextsDecide` the run's documents must be among `Docs`
and their texts fit the caller's 64 bytes: `ObjectLength` and the lemmas above it bound a
text by what it is made of.

`RolesAreExact` is `AcceptsExactly`, over any `SignatureOf` that `SignatureAssumption`
allows: over the run's keys and signed texts, two signatures are one only when the method,
the key and the text are, and none is a garbled one. That is what Ed25519 and RSA-PSS
promise; nothing is assumed about other keys or texts. The proof goes through the documents:

* a date of the run, written out and scanned back, is the instant it names
  (`DateTextShows`, `CallDateRead`), and the reference that counts days year by year
  agrees with `days_from_civil` (`DaysCounted`, by the reference's recursion equations);
* the signed text is the same in either order of the fields and another for another
  version (`SignedTexts`, from `CanonicalDecides`), so an entry verifies exactly when its own
  key signed this document (`SignatureVerifies`);
* a key id votes when its first entry does (`VoteCounts`), so counting votes is counting
  who signed, where no key id has two entries (`RoleAnswer`);
* a broken document is its fields with one piece replaced (`BrokenRootFields`,
  `BrokenEnvelopeFields`): each missing piece, malformed key or date and wrong key type
  leads to a refusal (`BrokenRefused`), and the document with nothing broken is accepted
  (`WholeAccepted`).

Only model-checked, with the reason:

* every liveness property: TLAPS has no ENABLED here. `EveryPollEnds` and `Bounds` are
  the safety half of two of them;
* the Berry interpreter (`AgreesWithSource`, `NoDangling`): its compiler and its machine
  recurse over programs by `RECURSIVE` operators, which no module with a theorem may reach.

## Plan

Done: 1. update lifecycle with its abstract specification; 2. role verification and
one repository's client; 3. enrolment; 4. proofs of 1 and 2, later of what 1 reports; 5. the script secondary
and its proofs; 6. the Uptane library over documents (`UptaneDocs`, `CryptoCore`,
`CanonicalJson`) and proofs about them; 7. the image transfer, its abstract specification and proofs; 8. the
Berry compiler, machine, collector and glue; proofs of 3.

Left:

9. Composition of enrolment and update lifecycle over one NVS: a factory reset in
   the middle of a trial.
10. The growing response buffer of `aktualino_net`, and the lexer and strings of Berry.

## Not modelled

* mbedTLS, cJSON, the ESP-IDF and the servers: external, by what the code relies on.
* A factory reset cut inside `nvs_erase_all` of the first namespace, in
  `UpdateLifecycle`: both install-state records lie in it, and `FactoryReset` erases them
  in one step. `Provisioning` erases entry by entry and namespace by namespace.
* HTML pages, Wi-Fi scan and DNS of the portal (no property depends on them); the
  test builds behind `AKTUALINO_ROLLBACK_TEST` and `AKTUALINO_PORTAL_TEST_STA`; host
  tests, tools, the web flasher and CI.
* Of documents: `snprintf` truncation of names, the fixed buffer the manifest wrapper
  prints into, numbers that are not integers, cJSON's own limits; the blanks and signs
  that `sscanf` would accept before a number of a date.
* Of the transfer: the TLS configuration and progress logging. A body is written to
  the slot before its status is looked at, as in the code, so a refusal's body costs
  an erased slot.
* Of the script secondary, the GPIO, log and report host functions, and a board
  without the partition or the mutex (the track is then off).
* Of Berry: the lexer; `import` and modules; reals; comparing and indexing strings;
  `&`, `|`, `^` on negative numbers; virtual members, destructors (`deinit`), varargs;
  classes that inherit from list or map; list elements or exceptions that are objects
  with their own `==`; setting an item at a negative index; ranges of anything but
  integers; moving the stack when it grows; and the bytes, json, math, string, time
  and file libraries, bytecode files and the solidifier.

Places where the interpreter does not do what the language says, met while modelling
it. The programs avoid them; all were seen in the vendored interpreter as well or
follow from the lines named.

* `x = a && b` overwrites the local `b`; a conditional expression whose branches are
  locals, and one that is folded, can take a register that is still in use
  (`be_code.c`, `code_move`); `!""` folds to `false`; assigning to a member of an
  upvalue can free a register too many.
* `break` and `continue` skip the `OP_CLOSE` of the blocks they leave, so that
  closures made in a loop can share a variable they should not.
* A static initialiser in a class is not checked for an undeclared variable.
* A conditional jump and `OP_CATCH` keep a pointer into the stack over a call that
  may move it; premature marking of the stack clears the exception being handled;
  `mark_instance` does not follow the derived instance while a method look-up does.
* Shrinking a list keeps its old elements alive; removing from a map while iterating
  over it, or growing a list that is iterated over, invalidates the position.
* The machine's top stays higher after an exception that left an operator's method.
