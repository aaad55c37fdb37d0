--------------------------- MODULE UpdateLifecycle ---------------------------
(***************************************************************************)
(* The primary (firmware) update of one device, from the Director's        *)
(* assignment to the report that closes it: the A/B slots and their        *)
(* otadata, the install-state records in NVS, the single application       *)
(* thread (app_main -> handle_post_boot -> run_director_poll_loop ->       *)
(* download_and_install), the bootloader, and power loss between any two   *)
(* flash writes.                                                           *)
(*                                                                         *)
(* An image is a model value and stands for the target {filepath, sha256,  *)
(* length} that names it.  A correlation id names one assignment.  What    *)
(* metadata verification accepts is the subject of other modules: here the *)
(* Director offers `assigned' and the Image repo signs Cosigned.           *)
(***************************************************************************)
EXTENDS Naturals, FiniteSets

CONSTANTS
  Images,    \* firmware images
  Factory,   \* the image a new board is flashed with
  Cosigned,  \* images whose target the Image repo signs as the Director does
  Panics,    \* images that reset before they reach handle_post_boot
  Mute,      \* images that never bring up Wi-Fi or SNTP, and do not reset
  Cids,      \* correlation ids: one per assignment the Director may make
  ImageOf,   \* the image a correlation id assigns
  Erased,    \* a slot that holds no complete image
  None,      \* an absent NVS key; no assignment; an empty poll result
  Faults     \* the faults the environment may inject

FaultKinds == {"staging_loss",   \* power loss between set_pending and set_boot
               "nvs",            \* an NVS set or erase fails
               "set_boot",       \* esp_ota_set_boot_partition fails
               "mark_valid",     \* esp_ota_mark_app_valid_cancel_rollback fails
               "report_loss",    \* a manifest or its answer is lost
               "bring_up",       \* Wi-Fi or SNTP fails on a sound image
               "factory_reset"}  \* the BOOT button is held at start

ASSUME LifecycleAssumption ==
  /\ Factory \in Images \ (Panics \cup Mute)
  /\ Cosigned \subseteq Images
  /\ Panics \subseteq Images /\ Mute \subseteq Images
  /\ ImageOf \in [Cids -> Images]
  /\ None \notin Images \cup Cids /\ Erased \notin Images
  /\ Faults \subseteq FaultKinds

Slots == {"ota_0", "ota_1"}
Other(s) == IF s = "ota_0" THEN "ota_1" ELSE "ota_0"

(***************************************************************************)
(* Where the application thread is.  "stage_*", "rec_*" and "clr_*" are    *)
(* the single-key NVS writes of set_pending_update, set_running_image and  *)
(* clear_pending_update, each durable on its own.                          *)
(***************************************************************************)
Locations ==
  {"bring_up", "parked", "post_boot", "report_ok", "report_rollback",
   "rec_fp", "rec_sha", "rec_len", "clr_fp", "clr_sha", "clr_len", "clr_cid",
   "poll", "crosscheck", "ota_begin", "download",
   "stage_fp", "stage_sha", "stage_len", "stage_cid", "set_boot",
   "restart", "report_failed"}

VARIABLES
  slot,      \* flash: the image each OTA slot holds
  ota,       \* otadata: the state of each slot
  boot,      \* otadata: the slot with the highest sequence number
  pend,      \* NVS: the pending-update record, key by key
  run,       \* NVS: the running-image record, key by key
  cur,       \* RAM: the slot the code runs from
  pv,        \* RAM: pending_verify as boot_banner read it, once per boot
  pc,        \* RAM: where the thread is
  res,       \* RAM: the assignment being installed (aktualino_poll_result_t)
  err,       \* RAM: the err |= of set_pending_update
  assigned,  \* Director: the assignment its targets.json lists
  verdict    \* Director: the installation reports received per assignment

flash == <<slot, ota, boot>>
nvs == <<pend, run>>
ram == <<cur, pv, pc, res, err>>
director == <<assigned, verdict>>
vars == <<slot, ota, boot, pend, run, cur, pv, pc, res, err, assigned, verdict>>

OtaStates == {"undefined", "new", "pending_verify", "valid", "aborted"}
OptImage == Images \cup {None}
OptCid == Cids \cup {None}

\* TYPE INVARIANT: what each variable of the device and the Director may hold.
TypeOK ==
  /\ slot \in [Slots -> Images \cup {Erased}]
  /\ ota \in [Slots -> OtaStates]
  /\ boot \in Slots /\ cur \in Slots
  /\ pend \in [fp: OptImage, sha: OptImage, len: OptImage, cid: OptCid]
  /\ run \in [fp: OptImage, sha: OptImage, len: OptImage]
  /\ pv \in BOOLEAN /\ err \in BOOLEAN
  /\ pc \in Locations
  /\ res \in OptCid /\ assigned \in OptCid
  /\ verdict \in [Cids -> SUBSET {"ok", "failed"}]

Init ==
  /\ slot = [s \in Slots |-> IF s = "ota_0" THEN Factory ELSE Erased]
  /\ ota = [s \in Slots |-> "undefined"]
  /\ boot = "ota_0" /\ cur = "ota_0"
  /\ pend = [fp |-> None, sha |-> None, len |-> None, cid |-> None]
  /\ run = [fp |-> None, sha |-> None, len |-> None]
  /\ pv = FALSE /\ err = FALSE
  /\ pc = "bring_up"
  /\ res = None /\ assigned = None
  /\ verdict = [c \in Cids |-> {}]

-----------------------------------------------------------------------------
(* Reset: the bootloader with app rollback, then app_main up to bring-up. *)

\* The bootloader tries a NEW slot once, and gives up on one that was reset
\* before it was confirmed.
Bootloader ==
  LET gaveUp == ota[boot] = "pending_verify"
  IN  /\ boot' = IF gaveUp THEN Other(boot) ELSE boot
      /\ ota' = [ota EXCEPT ![boot] = CASE @ = "new" -> "pending_verify"
                                        [] @ = "pending_verify" -> "aborted"
                                        [] OTHER -> @]

\* boot_banner reads the running slot's state once; RAM starts over.
AppStart ==
  /\ cur' = boot'
  /\ pv' = (ota'[boot'] = "pending_verify")
  /\ pc' = "bring_up" /\ res' = None /\ err' = FALSE

Reset == Bootloader /\ AppStart /\ UNCHANGED slot

\* Where the pending record describes an image the boot slot does not hold.
InStagingWindow ==
  \/ pc \in {"stage_sha", "stage_len", "stage_cid", "set_boot"}
  \/ pc \in {"clr_fp", "clr_sha"} /\ res # None

\* Power loss, a crash or a watchdog reset, between any two steps.
PowerLoss ==
  /\ InStagingWindow => "staging_loss" \in Faults
  /\ Reset /\ UNCHANGED <<nvs, director>>

\* An image that crashes before it confirms itself.
Panic ==
  /\ pc = "bring_up" /\ slot[cur] \in Panics
  /\ Reset /\ UNCHANGED <<nvs, director>>

\* maybe_factory_reset: two namespaces are erased, one commit after the other,
\* and the board restarts.  Both install-state records lie in the first; the
\* second has nothing of this module's, so a cut between the two is the reset
\* itself, followed by the start that PowerLoss is.  Provisioning tells the
\* two namespaces apart.
FactoryReset ==
  /\ "factory_reset" \in Faults
  /\ pc = "bring_up"
  /\ pend' = [fp |-> None, sha |-> None, len |-> None, cid |-> None]
  /\ run' = [fp |-> None, sha |-> None, len |-> None]
  /\ Reset /\ UNCHANGED director

\* Wi-Fi and SNTP succeed: on to TIME_SYNC, CONFIRM.
BringUp ==
  /\ pc = "bring_up" /\ slot[cur] \notin Panics \cup Mute
  /\ pc' = "post_boot"
  /\ UNCHANGED <<flash, nvs, cur, pv, res, err, director>>

\* Wi-Fi or SNTP fails: the thread parks in ERROR for good.
BringUpFails ==
  /\ pc = "bring_up" /\ slot[cur] \notin Panics
  /\ slot[cur] \in Mute \/ "bring_up" \in Faults
  /\ pc' = "parked"
  /\ UNCHANGED <<flash, nvs, cur, pv, res, err, director>>

-----------------------------------------------------------------------------
(* handle_post_boot *)

HavePending == pend.sha # None

\* aktualino_ota_mark_valid; every caller ignores its result.
MarkValid ==
  \/ ota' = [ota EXCEPT ![cur] = "valid"]
  \/ "mark_valid" \in Faults /\ UNCHANGED ota

\* Mutant: every start with a record in hand is taken for a success.
InactiveSlotIgnored == FALSE

\* aktualino_ota_inactive_slot_failed
InactiveSlotFailed == ota[Other(cur)] = "aborted"

PostBootIdle ==
  /\ pc = "post_boot" /\ ~HavePending
  /\ IF pv THEN MarkValid ELSE UNCHANGED ota
  /\ pc' = "poll"
  /\ UNCHANGED <<slot, boot, nvs, cur, pv, res, err, director>>

PostBootConfirm ==
  /\ pc = "post_boot" /\ HavePending /\ pv
  /\ MarkValid
  /\ pc' = "report_ok"
  /\ UNCHANGED <<slot, boot, nvs, cur, pv, res, err, director>>

PostBootNotPendingVerify ==
  /\ pc = "post_boot" /\ HavePending /\ ~pv
  /\ pc' = IF InactiveSlotFailed THEN "report_rollback" ELSE "report_ok"
  /\ UNCHANGED <<flash, nvs, cur, pv, res, err, director>>

\* One manifest with an installation report.  It may reach the Director and
\* its answer may still be lost: `acked' is what the device sees.
Report(cid, outcome, delivered, acked) ==
  /\ acked => delivered
  /\ ~acked => "report_loss" \in Faults
  /\ verdict' = IF delivered /\ cid # None
                THEN [verdict EXCEPT ![cid] = @ \cup {outcome}] ELSE verdict

\* report_installed: only an accepted report promotes the record.
ReportInstalled(delivered, acked) ==
  /\ pc = "report_ok"
  /\ Report(pend.cid, "ok", delivered, acked)
  /\ pc' = IF acked THEN "rec_fp" ELSE "poll"
  /\ UNCHANGED <<flash, nvs, cur, pv, res, err, assigned>>

\* Mutant: the rollback is reported and the record kept.
ReportRollbackKeeps(delivered, acked) ==
  /\ pc = "report_rollback"
  /\ Report(pend.cid, "failed", delivered, acked)
  /\ pc' = "poll"
  /\ UNCHANGED <<flash, nvs, cur, pv, res, err, assigned>>

\* report_failed after a rollback: the record is cleared whatever it returned.
ReportRollback(delivered, acked) ==
  /\ pc = "report_rollback"
  /\ Report(pend.cid, "failed", delivered, acked)
  /\ pc' = "clr_fp"
  /\ UNCHANGED <<flash, nvs, cur, pv, res, err, assigned>>

\* Write k of aktualino_store_set_running_image.  A failed write leaves its
\* key as it was and the result is ignored.
SetRunning(at, written, next) ==
  /\ pc = at
  /\ \/ run' = written
     \/ "nvs" \in Faults /\ UNCHANGED run
  /\ pc' = next
  /\ UNCHANGED <<flash, pend, cur, pv, res, err, director>>

\* Mutant: the correlation id is recorded as the file path.
RecordRunningWrongField ==
  \/ SetRunning("rec_fp", [run EXCEPT !.fp = pend.cid], "rec_sha")
  \/ SetRunning("rec_sha", [run EXCEPT !.sha = pend.sha], "rec_len")
  \/ SetRunning("rec_len", [run EXCEPT !.len = pend.len], "clr_fp")

RecordRunning ==
  \/ SetRunning("rec_fp", [run EXCEPT !.fp = pend.fp], "rec_sha")
  \/ SetRunning("rec_sha", [run EXCEPT !.sha = pend.sha], "rec_len")
  \/ SetRunning("rec_len", [run EXCEPT !.len = pend.len], "clr_fp")

\* Erase k of aktualino_store_clear_pending_update, called after a report and
\* when set_boot failed (then `res' is still the assignment being installed).
EraseKey(at, erased, next) ==
  /\ pc = at
  /\ \/ pend' = erased
     \/ "nvs" \in Faults /\ UNCHANGED pend
  /\ pc' = next
  /\ UNCHANGED <<flash, run, cur, pv, res, err, director>>

ClearPending ==
  \/ EraseKey("clr_fp", [pend EXCEPT !.fp = None], "clr_sha")
  \/ EraseKey("clr_sha", [pend EXCEPT !.sha = None], "clr_len")
  \/ EraseKey("clr_len", [pend EXCEPT !.len = None], "clr_cid")
  \/ EraseKey("clr_cid", [pend EXCEPT !.cid = None],
              IF res = None THEN "poll" ELSE "report_failed")

-----------------------------------------------------------------------------
(* run_director_poll_loop and aktualino_core_download_and_install *)

\* Mutant: no idempotence gate.
TargetAlwaysNew(cid) == TRUE

\* aktualino_core_target_is_new: against the NVS record, not the slot.
TargetIsNew(cid) == run.sha = None \/ run.sha # ImageOf[cid]

\* A verified poll that finds a new target.  Every other poll (metadata
\* refused, nothing assigned, already installed) leaves this state alone.
Poll ==
  /\ pc = "poll" /\ assigned # None /\ TargetIsNew(assigned)
  /\ res' = assigned /\ pc' = "crosscheck"
  /\ UNCHANGED <<flash, nvs, cur, pv, err, director>>

\* Mutant: the Image repo is read and its answer ignored.
CrosscheckTrusts ==
  /\ pc = "crosscheck"
  /\ pc' = "ota_begin"
  /\ UNCHANGED <<flash, nvs, cur, pv, res, err, director>>

Crosscheck ==
  /\ pc = "crosscheck" /\ ImageOf[res] \in Cosigned
  /\ pc' = "ota_begin"
  /\ UNCHANGED <<flash, nvs, cur, pv, res, err, director>>

\* The Image repo does not sign the target, or cannot be read now.
CrosscheckRefuses ==
  /\ pc = "crosscheck"
  /\ pc' = "report_failed"
  /\ UNCHANGED <<flash, nvs, cur, pv, res, err, director>>

\* Mutant: the other slot is erased under an unconfirmed image.
OtaBeginOnTrial ==
  /\ pc = "ota_begin"
  /\ pc' = "download" /\ slot' = [slot EXCEPT ![Other(cur)] = Erased]
  /\ UNCHANGED <<ota, boot, nvs, cur, pv, res, err, director>>

\* esp_ota_begin refuses while the running image is unconfirmed; otherwise it
\* erases the other slot.
OtaBegin ==
  /\ pc = "ota_begin"
  /\ IF ota[cur] = "pending_verify"
     THEN pc' = "report_failed" /\ UNCHANGED slot
     ELSE pc' = "download" /\ slot' = [slot EXCEPT ![Other(cur)] = Erased]
  /\ UNCHANGED <<ota, boot, nvs, cur, pv, res, err, director>>

\* Mutant: what was written is not compared with the target.
DigestIgnored(bytes, cid) == TRUE

\* Length and SHA-256 of the bytes written against the Director's target.
DigestMatches(bytes, cid) == bytes = ImageOf[cid]

\* The stream ends with some bytes in the slot. They are staged only if length
\* and hash match; a stream that ends in an error, a status other than 200 or a
\* failing ota_end gives even the right bytes up.
Download(bytes) ==
  /\ pc = "download"
  /\ slot' = [slot EXCEPT ![Other(cur)] = bytes]
  /\ pc' = "report_failed" \/ (DigestMatches(bytes, res) /\ pc' = "stage_fp")
  /\ UNCHANGED <<ota, boot, nvs, cur, pv, res, err, director>>

\* Mutant: the last error wins (err = for err |=).
StageKeyLastError(at, written, next) ==
  /\ pc = at
  /\ \/ pend' = written /\ err' = FALSE
     \/ "nvs" \in Faults /\ err' = TRUE /\ UNCHANGED pend
  /\ pc' = next
  /\ UNCHANGED <<flash, run, cur, pv, res, director>>

\* Write k of aktualino_store_set_pending_update: every write is attempted,
\* the errors are or-ed.
StageKey(at, written, next) ==
  /\ pc = at
  /\ \/ pend' = written /\ UNCHANGED err
     \/ "nvs" \in Faults /\ err' = TRUE /\ UNCHANGED pend
  /\ pc' = next
  /\ UNCHANGED <<flash, run, cur, pv, res, director>>

StagePending ==
  /\ res # None
  /\ \/ StageKey("stage_fp", [pend EXCEPT !.fp = ImageOf[res]], "stage_sha")
     \/ StageKey("stage_sha", [pend EXCEPT !.sha = ImageOf[res]], "stage_len")
     \/ StageKey("stage_len", [pend EXCEPT !.len = ImageOf[res]], "stage_cid")
     \/ StageKey("stage_cid", [pend EXCEPT !.cid = res], "set_boot")

\* set_pending_update failed: return at once; what it wrote stays written.
StageFailed ==
  /\ pc = "set_boot" /\ err
  /\ pc' = "report_failed" /\ err' = FALSE
  /\ UNCHANGED <<flash, nvs, cur, pv, res, director>>

\* Mutant: the slot is flipped although the record could not be staged.
SetBootUnstaged ==
  /\ pc = "set_boot"
  /\ boot' = Other(cur) /\ ota' = [ota EXCEPT ![Other(cur)] = "new"]
  /\ pc' = "restart"
  /\ UNCHANGED <<slot, nvs, cur, pv, res, err, director>>

SetBoot ==
  /\ pc = "set_boot" /\ ~err
  /\ boot' = Other(cur) /\ ota' = [ota EXCEPT ![Other(cur)] = "new"]
  /\ pc' = "restart"
  /\ UNCHANGED <<slot, nvs, cur, pv, res, err, director>>

\* set_boot failed: the record just staged is cleared.
SetBootFails ==
  /\ "set_boot" \in Faults
  /\ pc = "set_boot" /\ ~err
  /\ pc' = "clr_fp"
  /\ UNCHANGED <<flash, nvs, cur, pv, res, err, director>>

\* esp_restart, one second after the install succeeded.
Restart ==
  /\ pc = "restart"
  /\ Reset /\ UNCHANGED <<nvs, director>>

\* The poll loop's report_failed; its result is ignored.
ReportFailed(delivered, acked) ==
  /\ pc = "report_failed"
  /\ Report(res, "failed", delivered, acked)
  /\ pc' = "poll" /\ res' = None
  /\ UNCHANGED <<flash, nvs, cur, pv, err, assigned>>

\* The Director publishes, replaces or withdraws an assignment at any time.
Assign ==
  /\ assigned' \in OptCid \ {assigned}
  /\ UNCHANGED <<flash, nvs, ram, verdict>>

-----------------------------------------------------------------------------
Reports ==
  \E delivered, acked \in BOOLEAN :
    \/ ReportInstalled(delivered, acked)
    \/ ReportRollback(delivered, acked)
    \/ ReportFailed(delivered, acked)

\* The application thread.
Device ==
  \/ Panic \/ BringUp \/ BringUpFails
  \/ PostBootIdle \/ PostBootConfirm \/ PostBootNotPendingVerify
  \/ Reports \/ RecordRunning \/ ClearPending
  \/ Poll \/ Crosscheck \/ CrosscheckRefuses \/ OtaBegin
  \/ \E bytes \in Images \cup {Erased} : Download(bytes)
  \/ StagePending \/ StageFailed \/ SetBoot \/ SetBootFails \/ Restart

Next == Device \/ PowerLoss \/ FactoryReset \/ Assign

Spec == Init /\ [][Next]_vars

(***************************************************************************)
(* Fairness.  The thread runs while the board is powered.  A gateway that  *)
(* is retried again and again answers in the end: the cross-check, the     *)
(* download and the report do not fail every time they are attempted, and  *)
(* neither does set_boot.  Nothing is assumed of power, of the Director or *)
(* of the operator.                                                        *)
(***************************************************************************)
FairSpec ==
  /\ Spec
  /\ WF_vars(Device)
  /\ SF_vars(BringUp)
  /\ SF_vars(Crosscheck)
  /\ SF_vars(pc = "download" /\ Download(ImageOf[res]) /\ pc' = "stage_fp")
  /\ SF_vars(SetBoot)
  /\ SF_vars(ReportInstalled(TRUE, TRUE))

-----------------------------------------------------------------------------
(* Properties *)

Trusted == Cosigned \cup {Factory}
OnTrial == ota[boot] \in {"new", "pending_verify"}

\* SAFETY.  The board always has something to boot: the slot otadata selects
\* holds a complete image, and while that image is unconfirmed the other slot
\* holds the complete image it replaced, in a state the bootloader accepts -
\* whatever is being erased, written, staged or reset.
AlwaysBootable ==
  /\ slot[boot] # Erased
  /\ OnTrial => /\ slot[Other(boot)] # Erased
                /\ ota[Other(boot)] \in {"undefined", "valid"}

\* SAFETY.  The two-repo gate, at the slots: no image that only the Director
\* signed is ever selected for boot or kept as the image to fall back to.
OnlyCosignedBoots ==
  /\ slot[boot] \in Trusted
  /\ OnTrial => slot[Other(boot)] \in Trusted

\* SAFETY.  core.c stages the record before it flips the slot, "so the freshly
\* booted image knows what it installed and which assignment to report": up to
\* handle_post_boot, an image on trial finds a complete record of itself, across
\* every crash and failing write.
BeforeReport == {"restart", "bring_up", "parked", "post_boot"}

TrialHasRecord ==
  OnTrial /\ pc \in BeforeReport =>
    /\ pend.fp = slot[boot] /\ pend.sha = slot[boot] /\ pend.len = slot[boot]
    /\ pend.cid \in Cids /\ ImageOf[pend.cid] = slot[boot]

\* SAFETY.  A success report names, as image and as assignment, the image that
\* is running and confirmed.
SuccessIsTrue ==
  pc = "report_ok" =>
    /\ ota[cur] \in {"valid", "undefined"}
    /\ pend.sha = slot[cur] /\ pend.len = slot[cur]
    /\ pend.cid \in Cids /\ ImageOf[pend.cid] = slot[cur]

\* SAFETY.  A rollback report is for the assignment whose image the bootloader
\* gave up on: the image in the aborted slot, not one an older abort left.
RollbackIsTrue ==
  pc = "report_rollback" =>
    /\ ota[Other(cur)] = "aborted" /\ slot[Other(cur)] = pend.sha
    /\ pend.cid \in Cids /\ ImageOf[pend.cid] = pend.sha

\* SAFETY.  aktualino_store.h: the running-image record "is the Director target
\* currently installed and confirmed on the active slot", whenever the poll
\* loop compares an assignment with it.
RunningRecordIsActive ==
  pc = "poll" /\ run.sha # None => run.sha = slot[cur]

\* SAFETY.  The record the heartbeats are built from is of one target:
\* aktualino_store.h promises "idempotent across power loss".
RunningRecordIsWhole ==
  pc = "poll" /\ run.sha # None => run.fp = run.sha /\ run.len = run.sha

\* ACTION.  engineering-notes.md: "a re-listed old assignment logs 'already
\* installed - up to date' instead of reflashing": once a target is recorded,
\* no boot slot is flipped to a second copy of the running image.
NoReflash ==
  [][boot' # boot /\ pc = "set_boot" /\ run.sha # None
       => slot[Other(cur)] # slot[cur]]_vars

\* INDUCTIVE INVARIANT, in four parts.  (1) boot and cur agree except between
\* set_boot and the restart, and at most one slot is on trial, the one selected.
\* (2) What the two-repo gate let through is what the slots hold.  (3) What the
\* installing thread has established at each line it has reached.  (4) The
\* record under construction, and the record a trial starts with.
BootInv ==
  /\ IF pc = "restart" THEN boot = Other(cur) /\ ota[boot] = "new"
                        ELSE boot = cur /\ ota[boot] # "new"
  /\ ota[boot] # "aborted"
  /\ ota[Other(boot)] \notin {"new", "pending_verify"}
  /\ OnTrial => ota[Other(boot)] # "aborted"

SlotInv ==
  /\ slot[boot] \in Trusted
  /\ OnTrial => slot[Other(boot)] \in Trusted

Staging == {"stage_fp", "stage_sha", "stage_len", "stage_cid", "set_boot"}

InstallInv ==
  /\ pc \in Staging \cup {"crosscheck", "ota_begin", "download"} => res \in Cids
  /\ pc \in Staging \cup {"ota_begin", "download"} => ImageOf[res] \in Cosigned
  /\ pc \in Staging \cup {"download"} => ota[cur] # "pending_verify"
  /\ pc \in Staging => slot[Other(cur)] = ImageOf[res]

RecordInv ==
  /\ TrialHasRecord
  /\ pc \in {"stage_sha", "stage_len", "stage_cid", "set_boot"} /\ ~err =>
       pend.fp = ImageOf[res]
  /\ pc \in {"stage_len", "stage_cid", "set_boot"} /\ ~err => pend.sha = ImageOf[res]
  /\ pc \in {"stage_cid", "set_boot"} /\ ~err => pend.len = ImageOf[res]
  /\ pc = "set_boot" /\ ~err => pend.cid = res

LifecycleInv == TypeOK /\ BootInv /\ SlotInv /\ InstallInv /\ RecordInv

\* The abstract updater this implements: the image on trial is the one in the
\* boot slot while otadata calls it NEW or PENDING_VERIFY.
AB == INSTANCE ABUpdate WITH
  Approved <- Trusted,
  Initial <- Factory,
  NoTrial <- None,
  good <- IF OnTrial THEN slot[Other(boot)] ELSE slot[boot],
  trial <- IF OnTrial THEN slot[boot] ELSE None,
  phase <- CASE ota[boot] = "new" -> "staged"
             [] ota[boot] = "pending_verify" -> "trial"
             [] OTHER -> "idle"

\* REFINEMENT.  Flash, otadata, resets and the application thread together
\* implement the abstract A/B updater.
ImplementsAB == AB!Spec

\* From some time on the board is reset by its own steps only, nobody holds the
\* button, and no start parks: one that did has been power-cycled before.
ResetsItself == pc = "restart" \/ (pc = "bring_up" /\ slot[cur] \in Panics)
Steady ==
  /\ <>[][PowerLoss => ResetsItself]_vars
  /\ <>[][FactoryReset => UNCHANGED nvs]_vars
  /\ <>[](pc # "parked")
Installable == {c \in Cids : ImageOf[c] \in Cosigned \ (Panics \cup Mute)}
Panicking == {c \in Cids : ImageOf[c] \in Panics}
Settled(c) == slot[cur] = ImageOf[c] /\ ~OnTrial /\ run.sha = ImageOf[c]

\* LIVENESS.  If the Director keeps a sound assignment and power is eventually
\* steady, the device comes to run the image, confirmed, knows that it does, and
\* stays there: it does not install the same assignment for ever.
AssignmentConverges ==
  \A c \in Installable :
    Steady /\ <>[](assigned = c) => <>[]Settled(c)

\* LIVENESS.  A trial of an image that panics ends on the image it replaced,
\* and the failed report for that very assignment is sent.
RollbackIsReported ==
  \A c \in Panicking :
    Steady =>
      ((ota[boot] = "pending_verify" /\ slot[boot] \in Panics /\ pend.cid = c)
         ~> (slot[boot] \notin Panics /\ pc = "report_rollback" /\ pend.cid = c))

\* LIVENESS.  README: "an image that boots but fails its self-check is rolled
\* back by the bootloader".
FailedSelfCheckRollsBack ==
  (ota[boot] = "pending_verify" /\ pc = "parked") ~> ota[boot] # "pending_verify"

\* LIVENESS.  main.c, when the success report fails: "keeping pending, will
\* retry next poll".
KeptPendingIsReported ==
  \A c \in Cids :
    Steady /\ <>[][UNCHANGED assigned]_vars =>
      ((pc = "poll" /\ pend.sha = slot[cur] /\ pend.cid = c) ~> "ok" \in verdict[c])

=============================================================================
