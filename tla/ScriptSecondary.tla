--------------------------- MODULE ScriptSecondary ---------------------------
(***************************************************************************)
(* The script secondary (aktualino_script.c): bundles assigned by the      *)
(* Director, checked against the Image repo, validated in a VM of their    *)
(* own, stored in the `scripts' partition and swapped in as the live VM    *)
(* that a second task ticks.  Two threads: the poll loop, and script_task. *)
(*                                                                         *)
(* A bundle is a model value and stands for its bytes, its digest, the     *)
(* target that names it, and the VM it was loaded into.                    *)
(***************************************************************************)
EXTENDS Naturals

CONSTANTS
  Bundles,   \* script bundles
  Cosigned,  \* those the Image repo signs as the Director does
  Broken,    \* those that never pass validation
  Moody,     \* those whose setup() or loop() may fail, now and then
  Runaway,   \* those whose loop() may, at some call, not return
  Healthy,   \* those that call health_ok()
  MaxFaults, \* SCRIPT_MAX_FAULTS
  Torn,      \* bytes that are no bundle, or a header cut short
  None,      \* no bundle
  Faults     \* the faults the environment may inject

FaultKinds == {"power_loss",    \* power loss between any two steps
               "flash",         \* an erase or a write of the partition fails
               "heap",          \* no memory for a VM
               "report_loss"}   \* a manifest or its answer is lost

ASSUME ScriptAssumption ==
  /\ Cosigned \subseteq Bundles
  /\ Broken \subseteq Bundles /\ Moody \subseteq Bundles /\ Runaway \subseteq Bundles
  /\ Healthy \subseteq Bundles
  /\ MaxFaults \in Nat \ {0}
  /\ None \notin Bundles /\ Torn \notin Bundles /\ None # Torn
  /\ Faults \subseteq FaultKinds

Sound == Bundles \ (Broken \cup Moody \cup Runaway)

VARIABLES
  hdr,         \* flash: the bundle whose length and digest the header has, its path
               \*   whole or cut; None without its magic; Torn with less than these
  body,        \* flash: the bytes after the header
  unswapped,   \* history, no action reads it: the header names a bundle since a write
               \*   that reported a failure; its VM was freed before it went live
  live,        \* RAM: s_rt, the live VM
  faults,      \* RAM: s_faults
  quarantined, \* RAM: s_quarantined
  ticking,     \* RAM: the VM script_task is calling, under s_lock
  health,      \* RAM: s_health_ok
  claim,       \* RAM: the health result of the last validation
  pc,          \* RAM: where the poll thread is
  res,         \* RAM: the bundle being installed or reported
  assigned,    \* Director: the assignment
  told         \* Director: the secondary's installed image, as last reported

flash == <<hdr, body, unswapped>>
vm == <<live, faults, quarantined>>
healthVars == <<health, claim>>
vars == <<hdr, body, unswapped, live, faults, quarantined, ticking, health, claim, pc, res,
          assigned, told>>

OptBundle == Bundles \cup {None}

StorePlaces == {"erase_hdr", "erase_body", "write_body", "write_hdr", "end_hdr"}

Places == StorePlaces \cup {"init", "validate_stored", "poll", "crosscheck", "download",
           "validate", "validating", "set_live", "report_ok", "report_failed",
           "heartbeat"}

\* TYPE INVARIANT: what flash, the two threads and the Director may hold.
TypeOK ==
  /\ hdr \in OptBundle \cup {Torn} /\ body \in Bundles \cup {Torn}
  /\ unswapped \in BOOLEAN
  /\ live \in OptBundle /\ faults \in 0 .. MaxFaults /\ quarantined \in BOOLEAN
  /\ ticking \in OptBundle
  /\ health \in BOOLEAN /\ claim \in BOOLEAN
  /\ pc \in Places
  /\ res \in OptBundle /\ assigned \in OptBundle
  /\ told \in Bundles \cup {"unknown"}

Init ==
  /\ hdr = None /\ body = Torn /\ unswapped = FALSE
  /\ live = None /\ faults = 0 /\ quarantined = FALSE /\ ticking = None
  /\ health = FALSE /\ claim = FALSE
  /\ pc = "init" /\ res = None
  /\ assigned = None /\ told = "unknown"

-----------------------------------------------------------------------------
(* Start. *)

PowerLoss ==
  /\ "power_loss" \in Faults
  /\ live' = None /\ faults' = 0 /\ quarantined' = FALSE /\ ticking' = None
  /\ health' = FALSE /\ claim' = FALSE
  /\ pc' = "init" /\ res' = None /\ unswapped' = FALSE
  /\ UNCHANGED <<hdr, body, assigned, told>>

\* Whether validate_bundle may pass these bytes, and whether a call of a bundle's
\* setup() or loop() may fail.
MayPass(bytes) == bytes \in Bundles \ Broken
MayFail(bytes) == bytes \notin Sound \cup Runaway

\* A new live VM: the old one is freed.
Promote(b) == live' = b /\ faults' = 0 /\ quarantined' = FALSE

\* aktualino_script_init: a stored bundle is validated, and goes live if it
\* passes.  Its digest is not looked at again.
LoadStored ==
  /\ pc = "init"
  /\ IF hdr = None THEN pc' = "poll" ELSE pc' = "validate_stored"
  /\ health' = FALSE
  /\ UNCHANGED <<flash, vm, ticking, claim, res, assigned, told>>

StoredPasses ==
  /\ pc = "validate_stored" /\ MayPass(body)
  /\ Promote(body) /\ pc' = "poll"
  /\ health' = (health \/ body \in Healthy)
  /\ UNCHANGED <<flash, ticking, claim, res, assigned, told>>

\* Under a torn header the length is not sure either.
StoredFails ==
  /\ pc = "validate_stored" /\ (MayFail(body) \/ hdr = Torn \/ "heap" \in Faults)
  /\ pc' = "poll"
  /\ UNCHANGED <<flash, vm, ticking, healthVars, res, assigned, told>>

-----------------------------------------------------------------------------
(* aktualino_script_poll *)

\* The poll failed, or nothing is assigned: on to the heartbeat.
PollNothing ==
  /\ pc = "poll" /\ pc' = "heartbeat"
  /\ UNCHANGED <<flash, vm, ticking, healthVars, res, assigned, told>>

\* By magic and digest alone: a header whose write was cut behind them, or reported
\* a failure, counts.
AlreadyInstalled(b) == hdr = b

\* The bundle is installed already: its success is reported again.
PollSame ==
  /\ pc = "poll" /\ assigned # None /\ AlreadyInstalled(assigned)
  /\ res' = assigned /\ pc' = "report_ok"
  /\ UNCHANGED <<flash, vm, ticking, healthVars, assigned, told>>

PollNew ==
  /\ pc = "poll" /\ assigned # None /\ ~AlreadyInstalled(assigned)
  /\ res' = assigned /\ pc' = "crosscheck"
  /\ UNCHANGED <<flash, vm, ticking, healthVars, assigned, told>>

\* Mutant: the result of the cross-check is logged only.
CrosscheckLogs ==
  /\ pc = "crosscheck" /\ pc' = "download"
  /\ UNCHANGED <<flash, vm, ticking, healthVars, res, assigned, told>>

Crosscheck ==
  /\ pc = "crosscheck" /\ res \in Cosigned
  /\ pc' = "download"
  /\ UNCHANGED <<flash, vm, ticking, healthVars, res, assigned, told>>

\* The bytes have the length and the digest of the target.
Download ==
  /\ pc = "download" /\ pc' = "validate"
  /\ UNCHANGED <<flash, vm, ticking, healthVars, res, assigned, told>>

\* Cross-check, download or digest refused.
Refuse ==
  /\ pc \in {"crosscheck", "download"} /\ pc' = "report_failed"
  /\ UNCHANGED <<flash, vm, ticking, healthVars, res, assigned, told>>

\* validate_bundle, outside the lock: it clears the flag that health_ok() sets,
\* runs the new VM, and reads the flag.
ValidateBegins ==
  /\ pc = "validate"
  /\ health' = FALSE /\ pc' = "validating"
  /\ UNCHANGED <<flash, vm, ticking, claim, res, assigned, told>>

ValidatePasses ==
  /\ pc = "validating" /\ MayPass(res)
  /\ health' = (health \/ res \in Healthy) /\ claim' = health'
  /\ pc' = "erase_hdr"
  /\ UNCHANGED <<flash, vm, ticking, res, assigned, told>>

ValidateFails ==
  /\ pc = "validating" /\ (MayFail(res) \/ "heap" \in Faults)
  /\ health' \in {health, health \/ res \in Healthy}
  /\ pc' = "report_failed"
  /\ UNCHANGED <<flash, vm, ticking, claim, res, assigned, told>>

\* Mutant: the header is left until the new one is written over it.
EraseHeaderLater ==
  /\ pc = "erase_hdr" /\ pc' = "erase_body"
  /\ UNCHANGED <<flash, vm, ticking, healthVars, res, assigned, told>>

\* store_write: erased from the header's sector on, then the bytes, and the
\* header last.
EraseHeader ==
  /\ pc = "erase_hdr"
  /\ hdr' = None /\ unswapped' = FALSE /\ pc' = "erase_body"
  /\ UNCHANGED <<body, vm, ticking, healthVars, res, assigned, told>>

EraseBody ==
  /\ pc = "erase_body"
  /\ body' = Torn /\ pc' = "write_body"
  /\ UNCHANGED <<hdr, unswapped, vm, ticking, healthVars, res, assigned, told>>

WriteBody ==
  /\ pc = "write_body"
  /\ body' = res /\ pc' = "write_hdr"
  /\ UNCHANGED <<hdr, unswapped, vm, ticking, healthVars, res, assigned, told>>

\* The header is one write of 294 bytes that begins with magic, length and digest:
\* one that goes no further has these whole, or not.
WriteHeader ==
  /\ pc = "write_hdr"
  /\ hdr' \in {Torn, res} /\ pc' = "end_hdr"
  /\ UNCHANGED <<body, unswapped, vm, ticking, healthVars, res, assigned, told>>

WriteHeaderEnds ==
  /\ pc = "end_hdr"
  /\ hdr' = res /\ pc' = "set_live"
  /\ UNCHANGED <<body, unswapped, vm, ticking, healthVars, res, assigned, told>>

\* Mutant: store_write's result is not looked at.
StoreFailsUnnoticed ==
  /\ "flash" \in Faults
  /\ pc \in StorePlaces
  /\ pc' = "set_live"
  /\ UNCHANGED <<flash, vm, ticking, healthVars, res, assigned, told>>

\* The new VM is freed, the old one stays live; what was written stays, and a
\* header with its digest whole names the new bundle already.
StoreFails ==
  /\ "flash" \in Faults
  /\ pc \in StorePlaces
  /\ pc' = "report_failed"
  /\ unswapped' = (unswapped \/ hdr = res)
  /\ UNCHANGED <<hdr, body, vm, ticking, healthVars, res, assigned, told>>

\* Mutant: the swap does not take s_lock.
SetLiveUnlocked ==
  /\ pc = "set_live"
  /\ Promote(res) /\ pc' = "report_ok"
  /\ UNCHANGED <<flash, ticking, healthVars, res, assigned, told>>

\* Mutant: a VM that runs is left running, the new one waits for a restart.
SetLiveOnlyFirst ==
  /\ pc = "set_live" /\ ticking = None
  /\ Promote(IF live = None THEN res ELSE live) /\ pc' = "report_ok"
  /\ UNCHANGED <<flash, ticking, healthVars, res, assigned, told>>

\* Mutant: the quarantine of the old bundle outlives it.
SetLiveKeepsQuarantine ==
  /\ pc = "set_live" /\ ticking = None
  /\ live' = res /\ faults' = 0 /\ pc' = "report_ok"
  /\ UNCHANGED <<flash, quarantined, ticking, healthVars, res, assigned, told>>

\* set_live, under s_lock: not while script_task is in a loop() call.
SetLive ==
  /\ pc = "set_live" /\ ticking = None
  /\ Promote(res) /\ pc' = "report_ok"
  /\ UNCHANGED <<flash, ticking, healthVars, res, assigned, told>>

\* aktualino_prov_report_secondary: the bundle is named as the installed image
\* whatever the outcome; the report's own result is only returned.
ReportSecondary(delivered) ==
  /\ delivered \/ "report_loss" \in Faults
  /\ told' = IF delivered THEN res ELSE told
  /\ pc' = "heartbeat" /\ res' = None
  /\ UNCHANGED <<flash, vm, ticking, healthVars, assigned>>

ReportOk == pc = "report_ok" /\ \E delivered \in BOOLEAN : ReportSecondary(delivered)

ReportFailed == pc = "report_failed" /\ \E delivered \in BOOLEAN : ReportSecondary(delivered)

\* run_director_poll_loop: the heartbeat of the first and of every n-th poll; it
\* says nothing of the bundle.
Heartbeat ==
  /\ pc = "heartbeat" /\ pc' = "poll"
  /\ told' \in {told, "unknown"}
  /\ UNCHANGED <<flash, vm, ticking, healthVars, res, assigned>>

-----------------------------------------------------------------------------
(* script_task, started at the end of script_init. *)

Started == pc \notin {"init", "validate_stored"}

\* A tick: the lock is taken, and the live VM's loop() called.
TickBegins ==
  /\ Started /\ ticking = None /\ live # None /\ ~quarantined
  /\ ticking' = live
  /\ UNCHANGED <<flash, vm, healthVars, pc, res, assigned, told>>

\* The bundle's call of health_ok(), at some time in its loop().
TickHealthOk ==
  /\ ticking \in Healthy /\ ~health
  /\ health' = TRUE
  /\ UNCHANGED <<flash, vm, ticking, claim, pc, res, assigned, told>>

TickReturns ==
  /\ ticking # None
  /\ ticking' = None /\ faults' = 0
  /\ UNCHANGED <<flash, live, quarantined, healthVars, pc, res, assigned, told>>

\* Mutant: one fault more before the quarantine.
TickFailsLate ==
  /\ ticking # None /\ MayFail(ticking)
  /\ ticking' = None /\ faults' = faults + 1
  /\ quarantined' = (faults + 1 > MaxFaults)
  /\ UNCHANGED <<flash, live, healthVars, pc, res, assigned, told>>

TickFails ==
  /\ ticking # None /\ MayFail(ticking)
  /\ ticking' = None /\ faults' = faults + 1
  /\ quarantined' = (faults + 1 >= MaxFaults)
  /\ UNCHANGED <<flash, live, healthVars, pc, res, assigned, told>>

\* The Director publishes, replaces or withdraws an assignment at any time.
Assign ==
  /\ assigned' \in OptBundle \ {assigned}
  /\ UNCHANGED <<flash, vm, ticking, healthVars, pc, res, told>>

-----------------------------------------------------------------------------
PollThread ==
  \/ LoadStored \/ StoredPasses \/ StoredFails
  \/ PollNothing \/ PollSame \/ PollNew \/ Crosscheck \/ Download \/ Refuse
  \/ ValidateBegins \/ ValidatePasses \/ ValidateFails
  \/ EraseHeader \/ EraseBody \/ WriteBody
  \/ WriteHeader \/ WriteHeaderEnds \/ StoreFails
  \/ SetLive \/ ReportOk \/ ReportFailed \/ Heartbeat

ScriptTask == TickBegins \/ TickHealthOk \/ TickReturns \/ TickFails

Next == PollThread \/ ScriptTask \/ PowerLoss \/ Assign

Spec == Init /\ [][Next]_vars

(***************************************************************************)
(* Fairness.  Both threads run while the board is powered, and a call of   *)
(* loop() returns unless the bundle is a runaway, whichever thread calls.  *)
(* The task sleeps between two ticks with the lock free: a thread that     *)
(* waits for it gets it.  What is tried at every poll succeeds in the end. *)
(***************************************************************************)
RunsAway == pc = "validating" /\ res \in Runaway

FairSpec ==
  /\ Spec
  /\ WF_vars(~RunsAway /\ PollThread)
  /\ WF_vars(TickBegins) /\ WF_vars(ticking \notin Runaway /\ (TickReturns \/ TickFails))
  /\ SF_vars(PollNew) /\ SF_vars(Crosscheck) /\ SF_vars(Download) /\ SF_vars(SetLive)

-----------------------------------------------------------------------------
(* Properties *)

\* SAFETY.  berry-secondary-spec.md: two-repo verified "by the existing path -
\* no new trust code": nothing runs, is validated or is stored that only the
\* Director signed, at the first install or after any restart.
OnlyCosignedRuns ==
  /\ {live, ticking} \subseteq Cosigned \cup {None}
  /\ hdr # None => body \in Cosigned
  /\ pc \in {"validating", "set_live"} \cup StorePlaces => res \in Cosigned

\* SAFETY.  "sha256(scripts/current) == assigned target sha256 always holds":
\* a header that names a bundle is only there with the bundle's complete bytes,
\* and no header, however torn, over bytes that are not a bundle, wherever power
\* was lost or a flash operation failed.
HeaderCommits ==
  /\ hdr \in Bundles => body = hdr
  /\ hdr # None => body \in Bundles

\* SAFETY.  The lock's purpose, "guards s_rt / faults across tasks": the VM that
\* script_task is calling is never the one set_live freed.
NoUseAfterFree == ticking # None => ticking = live

\* SAFETY.  "What we sign is what runs": between polls a stored bundle is the
\* one that runs, if any does; one that was stored and validated is never shadowed
\* by the VM it replaced - unless its header's write reported a failure with the
\* digest whole, and then until the next start or the next install only.
WhatRunsIsStored ==
  pc = "poll" /\ hdr \in Bundles /\ ~unswapped => live \in {hdr, None}

\* SAFETY.  Reports say what happened: success of a bundle that is stored whole,
\* with no other one running; failure of one that is not the stored one.  Both but
\* for a header whose write reported a failure with the digest whole.
ReportsAreTrue ==
  /\ pc = "report_ok" => hdr = res /\ body = res /\ (live \in {res, None} \/ unswapped)
  /\ pc = "report_failed" => hdr # res \/ unswapped

\* SAFETY.  A quarantine stops the bundle that earned it: it holds for a live VM
\* with MaxFaults faults in a row, and not for the one that replaces it.
QuarantineIsEarned == quarantined <=> faults = MaxFaults

\* From some time on power is steady and the partition works.
Steady == <>[][~PowerLoss /\ ~StoreFails]_vars

\* LIVENESS.  A sound bundle that both repositories sign and the Director keeps
\* assigned comes to run, tick after tick, whatever torn stores, faulting or
\* quarantined bundles came before; only one whose own header's write reported a
\* failure with the digest whole is taken for installed, and waits for a restart.
AssignedBundleTicks ==
  \A b \in Sound \cap Cosigned :
    Steady /\ <>[](assigned = b) => []<>(ticking = b) \/ <>[](unswapped /\ hdr = b)

\* LIVENESS.  berry-secondary-spec.md: "a runaway loop() only stalls the
\* low-priority script task, not the OTA client": the poll loop goes on.
PollLoopGoesOn == []<>(pc = "poll")

\* SAFETY.  berry-secondary-spec.md: "Uptane requires the ECU to report the
\* identity of its installed image": a bundle the Director is newly told of is
\* stored, also when its installation failed or was refused.
InstalledIsStored == [][told' \in Bundles \ {told} => hdr = told']_vars

=============================================================================
