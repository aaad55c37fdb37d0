------------------------ MODULE UpdateLifecycle_proofs ------------------------
(***************************************************************************)
(* Theorems about UpdateLifecycle for every set of images, assignments and *)
(* faults: the trial boots, then what the device reports and records, for  *)
(* the faults that each theorem's assumptions leave.                       *)
(***************************************************************************)
EXTENDS UpdateLifecycle, TLAPS

LEMMA OtherSlot ==
  \A s \in Slots : Other(s) \in Slots /\ Other(s) # s /\ Other(Other(s)) = s
  BY DEF Slots, Other

\* Every step keeps the variables in their types.
LEMMA TypeStep == TypeOK /\ [Next]_vars => TypeOK'
<1> SUFFICES ASSUME TypeOK, [Next]_vars PROVE TypeOK'
  OBVIOUS
<1> USE LifecycleAssumption, OtherSlot DEF TypeOK, OptImage, OptCid, OtaStates, flash, nvs, director
<1>reset. ASSUME Reset PROVE /\ slot' \in [Slots -> Images \cup {Erased}]
                             /\ ota' \in [Slots -> OtaStates]
                             /\ boot' \in Slots /\ cur' \in Slots
                             /\ pv' \in BOOLEAN /\ err' \in BOOLEAN
                             /\ pc' \in Locations /\ res' \in OptCid
  BY <1>reset DEF Reset, Bootloader, AppStart, Locations
<1>1. CASE PowerLoss
  BY <1>1, <1>reset DEF PowerLoss
<1>2. CASE Panic
  BY <1>2, <1>reset DEF Panic
<1>3. CASE FactoryReset
  BY <1>3, <1>reset DEF FactoryReset
<1>4. CASE Restart
  BY <1>4, <1>reset DEF Restart
<1>5. CASE BringUp \/ BringUpFails
  BY <1>5 DEF BringUp, BringUpFails, Locations
<1>6. CASE PostBootIdle \/ PostBootConfirm \/ PostBootNotPendingVerify
  BY <1>6 DEF PostBootIdle, PostBootConfirm, PostBootNotPendingVerify, MarkValid, Locations
<1>7. CASE Reports
  <2>1. ASSUME NEW c \in OptCid, NEW o \in {"ok", "failed"},
               NEW d \in BOOLEAN, NEW a \in BOOLEAN, Report(c, o, d, a)
        PROVE verdict' \in [Cids -> SUBSET {"ok", "failed"}]
    BY <2>1 DEF Report
  <2>2. QED
    BY <1>7, <2>1 DEF Reports, ReportInstalled, ReportRollback, ReportFailed, Locations
<1>8. CASE RecordRunning
  BY <1>8 DEF RecordRunning, SetRunning, Locations
<1>9. CASE ClearPending
  BY <1>9 DEF ClearPending, EraseKey, Locations
<1>10. CASE Poll \/ Crosscheck \/ CrosscheckRefuses \/ OtaBegin
  BY <1>10 DEF Poll, Crosscheck, CrosscheckRefuses, OtaBegin, Locations
<1>11. ASSUME NEW bytes \in Images \cup {Erased}, Download(bytes) PROVE TypeOK'
  BY <1>11 DEF Download, Locations
<1>12. CASE StagePending
  <2>1. res \in Cids /\ ImageOf[res] \in OptImage
    BY <1>12 DEF StagePending
  <2>2. ASSUME NEW at, NEW next \in Locations,
               NEW written \in [fp: OptImage, sha: OptImage, len: OptImage, cid: OptCid],
               StageKey(at, written, next)
        PROVE TypeOK'
    BY <2>2 DEF StageKey
  <2>3. {"stage_sha", "stage_len", "stage_cid", "set_boot"} \subseteq Locations
    BY DEF Locations
  <2>4. CASE StageKey("stage_fp", [pend EXCEPT !.fp = ImageOf[res]], "stage_sha")
    <3>1. [pend EXCEPT !.fp = ImageOf[res]]
            \in [fp: OptImage, sha: OptImage, len: OptImage, cid: OptCid]
      BY <2>1
    <3>2. QED
      BY <2>2, <2>3, <2>4, <3>1
  <2>5. CASE StageKey("stage_sha", [pend EXCEPT !.sha = ImageOf[res]], "stage_len")
    <3>1. [pend EXCEPT !.sha = ImageOf[res]]
            \in [fp: OptImage, sha: OptImage, len: OptImage, cid: OptCid]
      BY <2>1
    <3>2. QED
      BY <2>2, <2>3, <2>5, <3>1
  <2>6. CASE StageKey("stage_len", [pend EXCEPT !.len = ImageOf[res]], "stage_cid")
    <3>1. [pend EXCEPT !.len = ImageOf[res]]
            \in [fp: OptImage, sha: OptImage, len: OptImage, cid: OptCid]
      BY <2>1
    <3>2. QED
      BY <2>2, <2>3, <2>6, <3>1
  <2>7. CASE StageKey("stage_cid", [pend EXCEPT !.cid = res], "set_boot")
    <3>1. [pend EXCEPT !.cid = res]
            \in [fp: OptImage, sha: OptImage, len: OptImage, cid: OptCid]
      BY <2>1
    <3>2. QED
      BY <2>2, <2>3, <2>7, <3>1
  <2>8. QED
    BY <1>12, <2>4, <2>5, <2>6, <2>7 DEF StagePending
<1>13. CASE StageFailed
  BY <1>13 DEF StageFailed, Locations
<1>13b. CASE SetBoot
  <2>1. "restart" \in Locations /\ "new" \in OtaStates
    BY DEF Locations
  <2>2. Other(cur) \in Slots
    OBVIOUS
  <2>3. ota' \in [Slots -> OtaStates]
    BY <1>13b, <2>1, <2>2 DEF SetBoot
  <2>4. QED
    BY <1>13b, <2>1, <2>2, <2>3 DEF SetBoot
<1>13c. CASE SetBootFails
  BY <1>13c DEF SetBootFails, Locations
<1>14. CASE Assign
  BY <1>14 DEF Assign, ram
<1>15. CASE UNCHANGED vars
  BY <1>15 DEF vars
<1>16. QED
  BY <1>1, <1>2, <1>3, <1>4, <1>5, <1>6, <1>7, <1>8, <1>9, <1>10, <1>11,
     <1>12, <1>13, <1>14, <1>15, <1>13b, <1>13c DEF Next, Device

LEMMA TypeInit == Init => TypeOK
<1> SUFFICES ASSUME Init PROVE TypeOK
  OBVIOUS
<1>1. slot \in [Slots -> Images \cup {Erased}] /\ ota \in [Slots -> OtaStates]
  BY LifecycleAssumption DEF Init, OtaStates
<1>2. boot \in Slots /\ cur \in Slots
  BY DEF Init, Slots
<1>3. /\ pend \in [fp: OptImage, sha: OptImage, len: OptImage, cid: OptCid]
      /\ run \in [fp: OptImage, sha: OptImage, len: OptImage]
  BY DEF Init, OptImage, OptCid
<1>4. /\ pv \in BOOLEAN /\ err \in BOOLEAN
      /\ res \in OptCid /\ assigned \in OptCid /\ pc \in Locations
  BY DEF Init, OptCid, Locations
<1>5. verdict \in [Cids -> SUBSET {"ok", "failed"}]
  BY DEF Init
<1>6. QED
  BY <1>1, <1>2, <1>3, <1>4, <1>5 DEF TypeOK

\* Type correctness of the lifecycle.
THEOREM TypeCorrect == Spec => []TypeOK
  BY TypeInit, TypeStep, PTL DEF Spec

-----------------------------------------------------------------------------
(* The inductive invariant: one lemma per part.  The steps that leave flash,  *)
(* cur and pv alone are one case; what a reset does is one lemma.             *)

LEMMA TrustedComplete == Trusted \subseteq Images /\ Erased \notin Trusted
  BY LifecycleAssumption DEF Trusted

\* After any reset the boot slot runs, and is on trial only if it was NEW.
LEMMA ResetBoot ==
  ASSUME TypeOK, BootInv, Reset
  PROVE  /\ BootInv' /\ slot' = slot /\ pc' = "bring_up"
         /\ OnTrial' => ota[boot] = "new" /\ boot' = boot /\ pv'
         /\ ~OnTrial' /\ OnTrial => boot' = Other(boot)
         /\ ~OnTrial => boot' = boot
  BY OtherSlot DEF TypeOK, BootInv, Reset, Bootloader, AppStart, OnTrial, OtaStates

LEMMA BootStep == TypeOK /\ BootInv /\ InstallInv /\ [Next]_vars => BootInv'
<1> SUFFICES ASSUME TypeOK, BootInv, InstallInv, [Next]_vars PROVE BootInv'
  OBVIOUS
<1> USE OtherSlot
<1>1. CASE PowerLoss \/ Panic \/ FactoryReset \/ Restart
  BY <1>1, ResetBoot DEF PowerLoss, Panic, FactoryReset, Restart
<1>2. CASE PostBootIdle \/ PostBootConfirm
  BY <1>2 DEF PostBootIdle, PostBootConfirm, MarkValid, TypeOK, BootInv, OnTrial
<1>3. CASE SetBoot
  BY <1>3 DEF SetBoot, TypeOK, BootInv, InstallInv, Staging, OnTrial
<1>4. CASE OtaBegin
  BY <1>4 DEF OtaBegin, BootInv, OnTrial
<1>5. ASSUME NEW bytes \in Images \cup {Erased}, Download(bytes) PROVE BootInv'
  BY <1>5 DEF Download, BootInv, OnTrial
<1>6. ASSUME UNCHANGED <<ota, boot, cur>>, pc' # "restart", pc # "restart" PROVE BootInv'
  BY <1>6 DEF BootInv, OnTrial
<1>7. CASE BringUp \/ BringUpFails \/ PostBootNotPendingVerify \/ Reports
           \/ RecordRunning \/ ClearPending
  BY <1>6, <1>7 DEF BringUp, BringUpFails, PostBootNotPendingVerify, Reports,
     ReportInstalled, ReportRollback, ReportFailed, RecordRunning, SetRunning,
     ClearPending, EraseKey, flash
<1>8. CASE Poll \/ Crosscheck \/ CrosscheckRefuses \/ StagePending \/ StageFailed \/ SetBootFails
  BY <1>6, <1>8 DEF Poll, Crosscheck, CrosscheckRefuses, StagePending, StageKey,
     StageFailed, SetBootFails, flash
<1>9. CASE Assign \/ UNCHANGED vars
  BY <1>9 DEF Assign, flash, ram, vars, BootInv, OnTrial
<1>10. QED
  BY <1>1, <1>2, <1>3, <1>4, <1>5, <1>7, <1>8, <1>9 DEF Next, Device

LEMMA SlotStep == TypeOK /\ BootInv /\ SlotInv /\ InstallInv /\ [Next]_vars => SlotInv'
<1> SUFFICES ASSUME TypeOK, BootInv, SlotInv, InstallInv, [Next]_vars PROVE SlotInv'
  OBVIOUS
<1> USE OtherSlot
<1>1. CASE PowerLoss \/ Panic \/ FactoryReset \/ Restart
  <2>1. Reset
    BY <1>1 DEF PowerLoss, Panic, FactoryReset, Restart
  <2>2. /\ slot' = slot
        /\ OnTrial' => OnTrial /\ boot' = boot
        /\ boot' # boot => OnTrial /\ boot' = Other(boot)
    BY <2>1, ResetBoot DEF OnTrial
  <2>3. CASE boot' = boot
    BY <2>2, <2>3 DEF SlotInv
  <2>4. CASE boot' # boot
    BY <2>2, <2>4 DEF SlotInv
  <2>5. QED
    BY <2>3, <2>4
<1>2. CASE PostBootIdle \/ PostBootConfirm
  BY <1>2 DEF PostBootIdle, PostBootConfirm, MarkValid, TypeOK, BootInv, SlotInv, OnTrial
<1>3. CASE SetBoot
  BY <1>3 DEF SetBoot, TypeOK, BootInv, SlotInv, InstallInv, Staging, OnTrial, Trusted
<1>4. CASE OtaBegin
  BY <1>4 DEF OtaBegin, TypeOK, BootInv, SlotInv, OnTrial
<1>5. ASSUME NEW bytes \in Images \cup {Erased}, Download(bytes) PROVE SlotInv'
  BY <1>5 DEF Download, TypeOK, BootInv, SlotInv, InstallInv, Staging, OnTrial
<1>6. ASSUME UNCHANGED flash PROVE SlotInv'
  BY <1>6 DEF SlotInv, OnTrial, flash
<1>7. CASE BringUp \/ BringUpFails \/ PostBootNotPendingVerify \/ Reports
           \/ RecordRunning \/ ClearPending
  BY <1>6, <1>7 DEF BringUp, BringUpFails, PostBootNotPendingVerify, Reports,
     ReportInstalled, ReportRollback, ReportFailed, RecordRunning, SetRunning,
     ClearPending, EraseKey
<1>8. CASE Poll \/ Crosscheck \/ CrosscheckRefuses \/ StagePending \/ StageFailed \/ SetBootFails
  BY <1>6, <1>8 DEF Poll, Crosscheck, CrosscheckRefuses, StagePending, StageKey,
     StageFailed, SetBootFails
<1>9. CASE Assign \/ UNCHANGED vars
  BY <1>6, <1>9 DEF Assign, vars, flash
<1>10. QED
  BY <1>1, <1>2, <1>3, <1>4, <1>5, <1>7, <1>8, <1>9 DEF Next, Device

LEMMA InstallStep == TypeOK /\ BootInv /\ InstallInv /\ [Next]_vars => InstallInv'
<1> SUFFICES ASSUME TypeOK, BootInv, InstallInv, [Next]_vars PROVE InstallInv'
  OBVIOUS
<1> DEFINE Past == Staging \cup {"crosscheck", "ota_begin", "download"}
<1> USE OtherSlot
<1>1. ASSUME pc' \notin Past PROVE InstallInv'
  BY <1>1 DEF InstallInv
<1>2. CASE PowerLoss \/ Panic \/ FactoryReset \/ Restart
  BY <1>1, <1>2 DEF PowerLoss, Panic, FactoryReset, Restart, Reset, AppStart, Staging
<1>3. CASE BringUp \/ BringUpFails \/ PostBootIdle \/ PostBootConfirm
           \/ PostBootNotPendingVerify \/ Reports \/ RecordRunning \/ ClearPending
  BY <1>1, <1>3 DEF BringUp, BringUpFails, PostBootIdle, PostBootConfirm,
     PostBootNotPendingVerify, Reports, ReportInstalled, ReportRollback, ReportFailed,
     RecordRunning, SetRunning, ClearPending, EraseKey, Staging
<1>4. CASE CrosscheckRefuses \/ StageFailed \/ SetBoot \/ SetBootFails
  BY <1>1, <1>4 DEF CrosscheckRefuses, StageFailed, SetBoot, SetBootFails, Staging
<1>5. CASE Poll
  BY <1>5 DEF Poll, InstallInv, Staging, TypeOK, OptCid
<1>6. CASE Crosscheck
  BY <1>6 DEF Crosscheck, InstallInv, Staging
<1>7. CASE OtaBegin
  BY <1>7 DEF OtaBegin, InstallInv, Staging
<1>8. ASSUME NEW bytes \in Images \cup {Erased}, Download(bytes) PROVE InstallInv'
  BY <1>8 DEF Download, DigestMatches, InstallInv, Staging, TypeOK
<1>9. CASE StagePending
  BY <1>9 DEF StagePending, StageKey, InstallInv, Staging, flash
<1>10. CASE Assign \/ UNCHANGED vars
  BY <1>10 DEF Assign, flash, ram, vars, InstallInv
<1>11. QED
  BY <1>2, <1>3, <1>4, <1>5, <1>6, <1>7, <1>8, <1>9, <1>10 DEF Next, Device

LEMMA RecordStep == LifecycleInv /\ [Next]_vars => RecordInv'
<1> SUFFICES ASSUME LifecycleInv, [Next]_vars PROVE RecordInv'
  OBVIOUS
<1> USE OtherSlot DEF LifecycleInv, TrialHasRecord, BeforeReport
<1> DEFINE Late == {"stage_sha", "stage_len", "stage_cid", "set_boot"}
<1>1. ASSUME ~OnTrial' \/ pc' \notin BeforeReport, pc' \notin Late PROVE RecordInv'
  BY <1>1 DEF RecordInv
<1>2. CASE PowerLoss \/ Panic \/ Restart
  <2>1. Reset /\ UNCHANGED pend
    BY <1>2 DEF PowerLoss, Panic, Restart, nvs
  <2>2. CASE OnTrial'
    <3>1. OnTrial /\ pc = "restart" /\ boot' = boot /\ slot' = slot /\ pc' = "bring_up"
      BY <2>1, <2>2, ResetBoot DEF OnTrial, BootInv
    <3>2. QED
      BY <2>1, <3>1 DEF RecordInv
  <2>3. QED
    BY <1>1, <2>1, <2>2, ResetBoot
<1>3. CASE FactoryReset
  BY <1>1, <1>3, ResetBoot DEF FactoryReset, BootInv
<1>4. CASE PostBootIdle \/ PostBootConfirm \/ PostBootNotPendingVerify
  BY <1>1, <1>4 DEF PostBootIdle, PostBootConfirm, PostBootNotPendingVerify
<1>5. CASE BringUp \/ BringUpFails
  BY <1>5 DEF BringUp, BringUpFails, RecordInv, OnTrial, flash, nvs
<1>6. CASE Reports \/ RecordRunning \/ ClearPending
  BY <1>1, <1>6 DEF Reports, ReportInstalled, ReportRollback, ReportFailed,
     RecordRunning, SetRunning, ClearPending, EraseKey, RecordInv, OnTrial, flash
<1>7. CASE Poll \/ Crosscheck \/ CrosscheckRefuses \/ OtaBegin \/ StageFailed \/ SetBootFails
  BY <1>1, <1>7 DEF Poll, Crosscheck, CrosscheckRefuses, OtaBegin, StageFailed,
     SetBootFails, RecordInv, OnTrial, flash
<1>8. ASSUME NEW bytes \in Images \cup {Erased}, Download(bytes) PROVE RecordInv'
  BY <1>1, <1>8 DEF Download, RecordInv, OnTrial
<1>9. CASE StagePending
  BY <1>9 DEF StagePending, StageKey, RecordInv, InstallInv, Staging, OnTrial, TypeOK, flash
<1>10. CASE SetBoot
  BY <1>10 DEF SetBoot, RecordInv, BootInv, InstallInv, Staging, OnTrial, TypeOK, nvs
<1>11. CASE Assign \/ UNCHANGED vars
  BY <1>11 DEF Assign, flash, nvs, ram, vars, RecordInv, OnTrial
<1>12. QED
  BY <1>2, <1>3, <1>4, <1>5, <1>6, <1>7, <1>8, <1>9, <1>10, <1>11 DEF Next, Device

\* The inductive invariant holds in every reachable state.
THEOREM Invariance == Spec => []LifecycleInv
<1>1. Init => LifecycleInv
  <2> SUFFICES ASSUME Init PROVE LifecycleInv
    OBVIOUS
  <2>1. BootInv /\ ~OnTrial /\ pc = "bring_up"
    BY DEF Init, BootInv, OnTrial, Slots, Other
  <2>2. SlotInv
    BY <2>1 DEF Init, SlotInv, Slots, Trusted
  <2>3. InstallInv /\ RecordInv
    BY <2>1 DEF InstallInv, RecordInv, TrialHasRecord, Staging
  <2>4. QED
    BY <2>1, <2>2, <2>3, TypeInit DEF LifecycleInv
<1>2. LifecycleInv /\ [Next]_vars => LifecycleInv'
  BY TypeStep, BootStep, SlotStep, InstallStep, RecordStep DEF LifecycleInv
<1>3. QED
  BY <1>1, <1>2, PTL DEF Spec

-----------------------------------------------------------------------------
\* The board always has a complete image to boot and to fall back to.
THEOREM Bootable == Spec => []AlwaysBootable
<1>1. LifecycleInv => AlwaysBootable
  BY TrustedComplete, OtherSlot
     DEF LifecycleInv, TypeOK, BootInv, SlotInv, AlwaysBootable, OnTrial, OtaStates
<1>2. QED
  BY <1>1, Invariance, PTL

\* The two-repo gate, at the slots.
THEOREM Gate == Spec => []OnlyCosignedBoots
<1>1. LifecycleInv => OnlyCosignedBoots
  BY DEF LifecycleInv, SlotInv, OnlyCosignedBoots
<1>2. QED
  BY <1>1, Invariance, PTL

\* Up to handle_post_boot an image on trial finds the complete record of itself.
THEOREM TrialRecord == Spec => []TrialHasRecord
<1>1. LifecycleInv => TrialHasRecord
  BY DEF LifecycleInv, RecordInv
<1>2. QED
  BY <1>1, Invariance, PTL

-----------------------------------------------------------------------------
(* The refinement: each step of the device is a step of the abstract updater  *)
(* or leaves good, trial and phase alone.                                     *)

\* The state functions the abstract variables stand for.
Good == IF OnTrial THEN slot[Other(boot)] ELSE slot[boot]
Trial == IF OnTrial THEN slot[boot] ELSE None
Phase == CASE ota[boot] = "new" -> "staged"
           [] ota[boot] = "pending_verify" -> "trial"
           [] OTHER -> "idle"

LEMMA Simulation == LifecycleInv /\ [Next]_vars => [AB!Next]_<<Good, Trial, Phase>>
<1> SUFFICES ASSUME LifecycleInv, [Next]_vars PROVE [AB!Next]_<<Good, Trial, Phase>>
  OBVIOUS
<1> USE OtherSlot DEF LifecycleInv
<1> DEFINE Stutter == UNCHANGED <<Good, Trial, Phase>>
<1>1. ASSUME Reset PROVE AB!Next \/ Stutter
  <2>1. CASE ota[boot] = "new"
    <3>1. boot' = boot /\ slot' = slot /\ ota'[boot] = "pending_verify"
      BY <1>1, <2>1 DEF Reset, Bootloader, TypeOK
    <3>2. AB!Try
      BY <2>1, <3>1 DEF AB!Try, Good, Trial, Phase, OnTrial
    <3>3. QED
      BY <3>2 DEF AB!Next
  <2>2. CASE ota[boot] = "pending_verify"
    <3>1. /\ boot' = Other(boot) /\ slot' = slot
          /\ ota'[boot'] \notin {"new", "pending_verify"}
      BY <1>1, <2>2 DEF Reset, Bootloader, TypeOK, BootInv
    <3>2. AB!GiveUp
      BY <2>2, <3>1 DEF AB!GiveUp, Good, Trial, Phase, OnTrial
    <3>3. QED
      BY <3>2 DEF AB!Next
  <2>3. CASE ~OnTrial
    <3>1. boot' = boot /\ slot' = slot /\ ota'[boot] = ota[boot]
      BY <1>1, <2>3 DEF Reset, Bootloader, OnTrial, TypeOK
    <3>2. QED
      BY <3>1 DEF Good, Trial, Phase, OnTrial
  <2>4. QED
    BY <2>1, <2>2, <2>3 DEF OnTrial
<1>2. CASE PowerLoss \/ Panic \/ FactoryReset \/ Restart
  BY <1>1, <1>2 DEF PowerLoss, Panic, FactoryReset, Restart
<1>3. ASSUME MarkValid, UNCHANGED <<slot, boot>>, cur = boot, ota[boot] # "new"
      PROVE AB!Next \/ Stutter
  <2>1. CASE UNCHANGED ota
    BY <1>3, <2>1 DEF Good, Trial, Phase, OnTrial
  <2>2. CASE ota' = [ota EXCEPT ![cur] = "valid"]
    <3>1. ota'[boot'] = "valid" /\ slot' = slot /\ boot' = boot
      BY <1>3, <2>2 DEF TypeOK
    <3>2. CASE ota[boot] = "pending_verify"
      <4>1. AB!Keep
        BY <3>1, <3>2 DEF AB!Keep, Good, Trial, Phase, OnTrial
      <4>2. QED
        BY <4>1 DEF AB!Next
    <3>3. CASE ota[boot] # "pending_verify"
      BY <1>3, <3>1, <3>3 DEF Good, Trial, Phase, OnTrial
    <3>4. QED
      BY <3>2, <3>3
  <2>3. QED
    BY <1>3, <2>1, <2>2 DEF MarkValid
<1>4. CASE PostBootIdle \/ PostBootConfirm
  <2>1. UNCHANGED <<slot, boot>> /\ cur = boot /\ ota[boot] # "new"
    BY <1>4 DEF PostBootIdle, PostBootConfirm, BootInv
  <2>2. MarkValid \/ UNCHANGED ota
    BY <1>4 DEF PostBootIdle, PostBootConfirm
  <2>3. CASE MarkValid
    BY <1>3, <2>1, <2>3
  <2>4. CASE UNCHANGED ota
    BY <2>1, <2>4 DEF Good, Trial, Phase, OnTrial
  <2>5. QED
    BY <2>2, <2>3, <2>4
<1>5. CASE SetBoot
  <2>1. /\ slot' = slot /\ boot' = Other(boot) /\ ota'[boot'] = "new"
        /\ ~OnTrial /\ slot[Other(boot)] \in Trusted
    BY <1>5 DEF SetBoot, TypeOK, BootInv, InstallInv, Staging, OnTrial, Trusted
  <2>2. AB!Offer(slot[Other(boot)])
    BY <2>1 DEF AB!Offer, Good, Trial, Phase, OnTrial, TypeOK
  <2>3. QED
    BY <2>1, <2>2 DEF AB!Next
<1>6. ASSUME UNCHANGED <<ota, boot>>, slot'[boot] = slot[boot], OnTrial => slot' = slot
      PROVE Stutter
  BY <1>6 DEF Good, Trial, Phase, OnTrial
<1>7. CASE OtaBegin
  BY <1>6, <1>7 DEF OtaBegin, BootInv, OnTrial, TypeOK
<1>8. ASSUME NEW bytes \in Images \cup {Erased}, Download(bytes) PROVE Stutter
  BY <1>6, <1>8 DEF Download, BootInv, InstallInv, Staging, OnTrial, TypeOK
<1>9. CASE BringUp \/ BringUpFails \/ PostBootNotPendingVerify \/ Reports
           \/ RecordRunning \/ ClearPending
  BY <1>6, <1>9 DEF BringUp, BringUpFails, PostBootNotPendingVerify, Reports,
     ReportInstalled, ReportRollback, ReportFailed, RecordRunning, SetRunning,
     ClearPending, EraseKey, flash
<1>10. CASE Poll \/ Crosscheck \/ CrosscheckRefuses \/ StagePending \/ StageFailed \/ SetBootFails
  BY <1>6, <1>10 DEF Poll, Crosscheck, CrosscheckRefuses, StagePending, StageKey,
     StageFailed, SetBootFails, flash
<1>11. CASE Assign \/ UNCHANGED vars
  BY <1>6, <1>11 DEF Assign, vars, flash
<1>12. QED
  BY <1>2, <1>4, <1>5, <1>7, <1>8, <1>9, <1>10, <1>11 DEF Next, Device

\* The device implements the abstract A/B updater.
THEOREM Refinement == Spec => ImplementsAB
<1>1. Init => AB!Init
  BY DEF Init, AB!Init, OnTrial, Slots
<1>2. LifecycleInv /\ [Next]_vars => [AB!Next]_(AB!abVars)
  BY Simulation DEF AB!abVars, Good, Trial, Phase
<1>3. QED
  BY <1>1, <1>2, Invariance, PTL DEF Spec, ImplementsAB, AB!Spec

-----------------------------------------------------------------------------
(* The installation. SlotInstall is what ImageTransfer is proved to do to the  *)
(* other slot; the lifecycle takes each of its steps, and no other.            *)

\* The pending record of an assignment, all four keys written.
RecordOf(c) == [fp |-> ImageOf[c], sha |-> ImageOf[c], len |-> ImageOf[c], cid |-> c]

\* The state of an installation in the lifecycle. What a failed one leaves of
\* the record belongs to RecordInv.
Ready == pc = "set_boot" /\ ~err
InstallPhase == CASE pc = "download" -> "erased"
           [] Ready -> "staged"
           [] pc \in Staging /\ ~Ready -> "checked"
           [] OTHER -> "idle"
Recorded == IF Ready \/ pc = "restart"
            THEN IF pend = RecordOf(res) THEN "yes" ELSE "torn"
            ELSE "no"
Selected == IF pc = "restart" THEN "slot" ELSE "running"

Install(image) == INSTANCE SlotInstall WITH
  Contents <- Images \cup {Erased}, Target <- image,
  phase <- InstallPhase, slot <- slot[Other(cur)], staged <- Recorded, boot <- Selected

\* The installation, from the erased slot to the flipped one, moves as
\* SlotInstall does, and a record counts as whole only when set_boot finds it so.
LEMMA InstallSimulation ==
  ASSUME LifecycleInv, LifecycleInv', [Next]_vars, pc # "restart", cur' = cur,
         NEW c \in Cids, pc = "download" => res = c
  PROVE  [Install(ImageOf[c])!Next]_<<InstallPhase, slot[Other(cur)], Recorded, Selected>>
<1> USE OtherSlot DEF LifecycleInv
<1> DEFINE Same == UNCHANGED <<InstallPhase, slot[Other(cur)], Recorded, Selected>>
           Step == Install(ImageOf[c])!Next \/ Same
<1>0. /\ ImageOf[c] \in Images \cup {Erased} /\ slot[Other(cur)] \in Images \cup {Erased}
      /\ Selected = "running"
  <2>1. ImageOf[c] \in Images
    BY LifecycleAssumption
  <2>2. slot[Other(cur)] \in Images \cup {Erased}
    BY DEF TypeOK
  <2> QED BY <2>1, <2>2 DEF Selected
<1>1. ASSUME InstallPhase = "idle", UNCHANGED slot, InstallPhase' = "idle", pc' # "restart" PROVE Step
  BY <1>1 DEF InstallPhase, Recorded, Selected, Ready
\* A reset ends an installation wherever it has got to.
<1>2. ASSUME UNCHANGED slot, pc' \in {"bring_up", "report_failed", "clr_fp", "poll"} PROVE Step
  <2>1. InstallPhase' = "idle" /\ Recorded' = "no" /\ Selected' = "running"
    BY <1>2 DEF InstallPhase, Recorded, Selected, Ready, Staging
  <2>2. CASE InstallPhase = "idle"
    BY <1>1, <1>2, <2>1, <2>2
  <2>3. CASE InstallPhase = "erased"
    <3>1. Install(ImageOf[c])!Download(slot[Other(cur)])
      BY <1>0, <1>2, <2>1, <2>3 DEF Install!Download, Recorded, InstallPhase, Ready
    <3> QED BY <1>0, <3>1 DEF Install!Next
  <2>4. CASE InstallPhase = "checked"
    BY <1>0, <1>2, <2>1, <2>4 DEF Install!Next, Install!Stage
  <2>5. CASE InstallPhase = "staged"
    BY <1>0, <1>2, <2>1, <2>5 DEF Install!Next, Install!Activate
  <2> QED BY <2>2, <2>3, <2>4, <2>5 DEF InstallPhase
<1>3. CASE PowerLoss \/ Panic \/ FactoryReset
  BY <1>2, <1>3 DEF PowerLoss, Panic, FactoryReset, Reset, AppStart
<1>4. CASE OtaBegin
  <2>1. CASE ota[cur] = "pending_verify"
    BY <1>2, <1>4, <2>1 DEF OtaBegin
  <2>2. CASE ota[cur] # "pending_verify"
    <3>1. Install(ImageOf[c])!Begin
      BY <1>0, <1>4, <2>2 DEF OtaBegin, Install!Begin, InstallPhase, Recorded, Selected, Ready, Staging, TypeOK
    <3> QED BY <3>1 DEF Install!Next
  <2> QED BY <2>1, <2>2
<1>5. ASSUME NEW bytes \in Images \cup {Erased}, Download(bytes) PROVE Step
  <2>1. Install(ImageOf[c])!Download(bytes)
    BY <1>5 DEF Download, DigestMatches, Install!Download, InstallPhase, Recorded, Selected, Ready, Staging, TypeOK
  <2> QED BY <1>5, <2>1 DEF Install!Next
<1>6. CASE StagePending
  <2>1. /\ UNCHANGED slot /\ pc \in Staging /\ ~Ready /\ Selected' = "running" /\ InstallPhase = "checked" /\ Recorded = "no"
    BY <1>6 DEF StagePending, StageKey, Ready, Staging, Selected, InstallPhase, Recorded, flash
  <2>2. CASE ~Ready'
    BY <1>6, <2>1, <2>2 DEF StagePending, StageKey, Ready, Staging, Selected, InstallPhase, Recorded, flash
  <2>3. CASE Ready'
    <3>1. pend' = RecordOf(res')
      BY <2>3 DEF RecordInv, RecordOf, Ready, TypeOK
    <3>2. Install(ImageOf[c])!Stage
      BY <2>1, <2>3, <3>1 DEF Install!Stage, InstallPhase, Recorded, Ready, Selected
    <3> QED BY <3>2 DEF Install!Next
  <2> QED BY <2>2, <2>3
<1>7. CASE StageFailed \/ SetBootFails
  BY <1>2, <1>7 DEF StageFailed, SetBootFails, flash
<1>8. CASE SetBoot
  <2>1. Install(ImageOf[c])!Activate
    <3>1. /\ InstallPhase = "staged" /\ InstallPhase' = "idle" /\ Selected = "running" /\ Selected' = "slot"
          /\ UNCHANGED <<slot, cur, pend, res>>
      BY <1>8 DEF SetBoot, InstallPhase, Selected, Ready, Staging, nvs
    <3>2. UNCHANGED Recorded
      BY <1>8, <3>1 DEF SetBoot, Recorded, RecordOf, Ready
    <3> QED BY <3>1, <3>2 DEF Install!Activate
  <2> QED BY <2>1 DEF Install!Next
<1>9. CASE BringUp \/ BringUpFails \/ PostBootIdle \/ PostBootConfirm \/ PostBootNotPendingVerify
           \/ Reports \/ RecordRunning \/ ClearPending \/ Poll \/ Crosscheck \/ CrosscheckRefuses
  <2>1. UNCHANGED slot /\ InstallPhase = "idle" /\ InstallPhase' = "idle" /\ pc' # "restart"
    BY <1>9 DEF BringUp, BringUpFails, PostBootIdle, PostBootConfirm, PostBootNotPendingVerify,
       Reports, ReportInstalled, ReportRollback, ReportFailed, RecordRunning, SetRunning,
       ClearPending, EraseKey, Poll, Crosscheck, CrosscheckRefuses, InstallPhase, Ready, Staging, flash
  <2> QED BY <1>1, <2>1
<1>10. CASE Assign \/ UNCHANGED vars
  BY <1>10 DEF Assign, vars, flash, nvs, ram, InstallPhase, Recorded, Selected, Ready
<1> QED
  BY <1>3, <1>4, <1>5, <1>6, <1>7, <1>8, <1>9, <1>10 DEF Next, Device, Restart

\* ACTION. As long as the board runs from one slot, whatever the lifecycle does is
\* a step of SlotInstall for the image being installed, or leaves the other slot,
\* the record and the boot choice alone: aktualino_core_download_and_install flips
\* the slot only with the target's bytes in it and their whole record written,
\* under every fault and every loss of power.
THEOREM InstallsAsPromised ==
  Spec => [][\A c \in Cids :
               pc # "restart" /\ cur' = cur /\ (pc = "download" => res = c)
                 => [Install(ImageOf[c])!Next]_<<InstallPhase, slot[Other(cur)], Recorded, Selected>>]_vars
<1> DEFINE Promised ==
      \A c \in Cids :
        pc # "restart" /\ cur' = cur /\ (pc = "download" => res = c)
          => [Install(ImageOf[c])!Next]_<<InstallPhase, slot[Other(cur)], Recorded, Selected>>
<1>1. LifecycleInv /\ LifecycleInv' /\ [Next]_vars => [Promised]_vars
  BY InstallSimulation
<1>2. QED
  BY <1>1, Invariance, PTL DEF Spec

\* SAFETY. Whatever bytes a transfer leaves and whether or not it gives them up,
\* the lifecycle's download allows exactly what SlotInstall's does: with
\* ImageTransfer!Refines, no outcome of aktualino_net_get_stream and
\* aktualino_ota_end is missing from the theorems about the lifecycle.
THEOREM EveryOutcomeIsTaken ==
  ASSUME LifecycleInv, pc = "download", NEW c \in Cids, res = c, NEW bytes \in Images \cup {Erased},
         pc' \in {"stage_fp", "report_failed"},
         slot' = [slot EXCEPT ![Other(cur)] = slot'[Other(cur)]],
         UNCHANGED <<ota, boot, nvs, cur, pv, res, err, director>>
  PROVE  Download(bytes) <=> Install(ImageOf[c])!Download(bytes)
<1>1. /\ InstallPhase = "erased" /\ Recorded = "no" /\ Selected = "running"
      /\ Recorded' = "no" /\ Selected' = "running"
      /\ InstallPhase' = IF pc' = "stage_fp" THEN "checked" ELSE "idle"
  BY DEF InstallPhase, Recorded, Selected, Ready, Staging
<1>2. slot \in [Slots -> Images \cup {Erased}] /\ Other(cur) \in Slots /\ cur' = cur
  BY OtherSlot DEF LifecycleInv, TypeOK
<1>3. slot' = [slot EXCEPT ![Other(cur)] = bytes] <=> slot'[Other(cur)] = bytes
  BY <1>2
<1>4. Install(ImageOf[c])!Download(bytes)
        <=> slot'[Other(cur)] = bytes /\ (pc' = "report_failed" \/ (bytes = ImageOf[c] /\ pc' = "stage_fp"))
  BY <1>1, <1>2 DEF Install!Download
<1> QED
  BY <1>3, <1>4 DEF Download, DigestMatches

-----------------------------------------------------------------------------
(* What the device reports and records. *)

\* Where the thread has just started, where it reports a start, and where it is
\* about to poll or install: no rollback is left to report there.
Starting == {"bring_up", "parked", "post_boot"}
Reporting == {"report_ok", "report_rollback", "rec_fp", "rec_sha", "rec_len"}
Forward == {"report_ok", "rec_fp", "rec_sha", "rec_len", "poll", "crosscheck", "ota_begin",
            "download", "stage_fp", "report_failed"}

\* The thread knows whether its image is on trial, has no assignment at hand
\* before it polls, and finds its record empty once the key that counts is erased.
ThreadInv ==
  /\ ~err
  /\ pc \in Starting => (pv <=> ota[cur] = "pending_verify")
  /\ pc \in Starting \cup Reporting \cup {"poll"} => res = None
  /\ pc \in {"clr_len", "clr_cid"} => pend.sha = None
  /\ pc \in {"report_ok", "report_rollback"} => pend.sha # None

\* Outside the staging window a record is whole, and of the image that the
\* bootloader gave up on, or else of the one that is selected.
PendingInv ==
  /\ ~InStagingWindow /\ pend.sha # None =>
       /\ pend.len = pend.sha /\ pend.cid \in Cids /\ ImageOf[pend.cid] = pend.sha
       /\ pend.sha = slot[IF ota[Other(boot)] = "aborted" THEN Other(boot) ELSE boot]
  /\ pc \in Forward /\ pend.sha # None => ota[Other(boot)] # "aborted"
  /\ pc = "report_rollback" => ota[Other(boot)] = "aborted"

\* Nothing but a start runs on trial, if every success is confirmed.
ConfirmInv ==
  OnTrial => pc \in Starting \cup {"restart"}

\* The running record is of the selected image, but while that is on trial or
\* its success is being recorded.
RunInv ==
  /\ OnTrial /\ run.sha # None => run.sha = slot[Other(boot)]
  /\ ~OnTrial /\ run.sha # None =>
       \/ run.sha = slot[boot]
       \/ /\ pc \in Starting \cup {"report_ok", "rec_fp", "rec_sha"}
          /\ pend.sha = slot[boot] /\ ota[Other(boot)] # "aborted"
  /\ pc \in Staging \cup {"crosscheck", "ota_begin", "download"} /\ run.sha # None =>
       run.sha # ImageOf[res]

-----------------------------------------------------------------------------
\* A step keeps what the thread knows.
LEMMA ThreadStep ==
  ASSUME "staging_loss" \notin Faults, "nvs" \notin Faults,
         LifecycleInv, ThreadInv, [Next]_vars
  PROVE  ThreadInv'
<1> USE LifecycleAssumption, OtherSlot DEF LifecycleInv, TypeOK, BootInv, OptImage,
      OptCid, OtaStates, flash, nvs, director, ram,
      ThreadInv, Starting, Reporting
<1>1. CASE PowerLoss \/ Panic \/ FactoryReset \/ Restart
  BY <1>1 DEF PowerLoss, Panic, FactoryReset, Restart, Reset, Bootloader, AppStart
<1>2. CASE BringUp \/ BringUpFails
  BY <1>2 DEF BringUp, BringUpFails
<1>3. CASE PostBootIdle
  BY <1>3 DEF PostBootIdle, MarkValid, HavePending
<1>4. CASE PostBootConfirm
  BY <1>4 DEF PostBootConfirm, MarkValid, HavePending
<1>5. CASE PostBootNotPendingVerify
  BY <1>5 DEF PostBootNotPendingVerify, HavePending, InactiveSlotFailed
<1>6. CASE Reports
  BY <1>6 DEF Reports, Report, ReportInstalled, ReportRollback, ReportFailed
<1>7. CASE RecordRunning
  BY <1>7 DEF RecordRunning, SetRunning
<1>8. CASE ClearPending
  BY <1>8 DEF ClearPending, EraseKey
<1>9. CASE Poll \/ Crosscheck \/ CrosscheckRefuses
  BY <1>9 DEF Poll, Crosscheck, CrosscheckRefuses, TargetIsNew
<1>10. CASE OtaBegin
  BY <1>10 DEF OtaBegin
<1>11. ASSUME NEW bytes \in Images \cup {Erased}, Download(bytes) PROVE ThreadInv'
  BY <1>11 DEF Download, DigestMatches
<1>12. CASE StagePending
  BY <1>12 DEF StagePending, StageKey
<1>13. CASE StageFailed \/ SetBootFails
  BY <1>13 DEF StageFailed, SetBootFails
<1>14. CASE SetBoot
  BY <1>14 DEF SetBoot
<1>15. CASE Assign \/ UNCHANGED vars
  BY <1>15 DEF Assign, vars
<1>16. QED
  BY <1>1, <1>2, <1>3, <1>4, <1>5, <1>6, <1>7, <1>8, <1>9, <1>10, <1>11, <1>12, <1>13,
      <1>14, <1>15 DEF Next, Device

\* A step keeps the pending record true.
LEMMA PendingStep ==
  ASSUME "staging_loss" \notin Faults, "nvs" \notin Faults,
         LifecycleInv, ThreadInv, PendingInv, [Next]_vars
  PROVE  PendingInv'
<1> USE LifecycleAssumption, OtherSlot DEF LifecycleInv, TypeOK, BootInv, OptImage,
      OptCid, OtaStates, flash, nvs, director, ram,
      InstallInv, RecordInv, Staging, OnTrial, ThreadInv, PendingInv, InStagingWindow,
      Starting, Reporting, Forward
<1>1. CASE PowerLoss \/ Panic \/ FactoryReset \/ Restart
  BY <1>1 DEF PowerLoss, Panic, FactoryReset, Restart, Reset, Bootloader, AppStart
<1>2. CASE BringUp \/ BringUpFails
  BY <1>2 DEF BringUp, BringUpFails
<1>3. CASE PostBootIdle
  BY <1>3 DEF PostBootIdle, MarkValid, HavePending
<1>4. CASE PostBootConfirm
  BY <1>4 DEF PostBootConfirm, MarkValid, HavePending
<1>5. CASE PostBootNotPendingVerify
  BY <1>5 DEF PostBootNotPendingVerify, HavePending, InactiveSlotFailed
<1>6. CASE Reports
  BY <1>6 DEF Reports, Report, ReportInstalled, ReportRollback, ReportFailed
<1>7. CASE RecordRunning
  BY <1>7 DEF RecordRunning, SetRunning
<1>8. CASE ClearPending
  BY <1>8 DEF ClearPending, EraseKey
<1>9. CASE Poll \/ Crosscheck \/ CrosscheckRefuses
  BY <1>9 DEF Poll, Crosscheck, CrosscheckRefuses, TargetIsNew
<1>10. CASE OtaBegin
  BY <1>10 DEF OtaBegin
<1>11. ASSUME NEW bytes \in Images \cup {Erased}, Download(bytes) PROVE PendingInv'
  BY <1>11 DEF Download, DigestMatches
<1>12. CASE StagePending
  BY <1>12 DEF StagePending, StageKey
<1>13. CASE StageFailed \/ SetBootFails
  BY <1>13 DEF StageFailed, SetBootFails
<1>14. CASE SetBoot
  BY <1>14 DEF SetBoot
<1>15. CASE Assign \/ UNCHANGED vars
  BY <1>15 DEF Assign, vars
<1>16. QED
  BY <1>1, <1>2, <1>3, <1>4, <1>5, <1>6, <1>7, <1>8, <1>9, <1>10, <1>11, <1>12, <1>13,
      <1>14, <1>15 DEF Next, Device

\* A start that finds no record confirms its image and stays on it.
LEMMA IdleConfirms ==
  ASSUME "mark_valid" \notin Faults, LifecycleInv, ThreadInv, PostBootIdle
  PROVE  /\ boot' = boot /\ boot \in Slots /\ UNCHANGED <<slot, pend, run>>
         /\ pc' = "poll" /\ pend.sha = None /\ ~OnTrial'
<1> USE DEF LifecycleInv, TypeOK, BootInv, ThreadInv, Starting, OnTrial
<1>1. /\ boot = cur /\ boot' = boot /\ cur \in Slots /\ pc' = "poll"
      /\ UNCHANGED <<slot, pend, run>> /\ pend.sha = None
  BY DEF PostBootIdle, HavePending, nvs
<1>2. CASE pv
  <2>1. ota' = [ota EXCEPT ![cur] = "valid"]
    BY <1>2 DEF PostBootIdle, MarkValid
  <2> QED
    BY <1>1, <2>1
<1>3. CASE ~pv
  <2>1. ota' = ota /\ ota[cur] # "pending_verify" /\ ota[cur] # "new"
    BY <1>3 DEF PostBootIdle
  <2> QED
    BY <1>1, <2>1
<1> QED
  BY <1>2, <1>3

\* A step confirms an image before anything else happens.
LEMMA ConfirmStep ==
  ASSUME "staging_loss" \notin Faults, "nvs" \notin Faults, "mark_valid" \notin Faults,
         LifecycleInv, ThreadInv, ConfirmInv, [Next]_vars
  PROVE  ConfirmInv'
<1> USE LifecycleAssumption, OtherSlot DEF LifecycleInv, TypeOK, BootInv, OptImage,
      OptCid, OtaStates, flash, nvs, director, ram,
      OnTrial, ThreadInv, ConfirmInv, InstallInv, Staging, Starting, Reporting
<1>1. CASE PowerLoss \/ Panic \/ FactoryReset \/ Restart
  BY <1>1 DEF PowerLoss, Panic, FactoryReset, Restart, Reset, Bootloader, AppStart
<1>2. CASE BringUp \/ BringUpFails
  BY <1>2 DEF BringUp, BringUpFails
<1>3. CASE PostBootIdle
  BY <1>3, IdleConfirms
<1>4. CASE PostBootConfirm
  BY <1>4 DEF PostBootConfirm, MarkValid, HavePending
<1>5. CASE PostBootNotPendingVerify
  BY <1>5 DEF PostBootNotPendingVerify, HavePending, InactiveSlotFailed
<1>6. CASE Reports
  BY <1>6 DEF Reports, Report, ReportInstalled, ReportRollback, ReportFailed
<1>7. CASE RecordRunning
  BY <1>7 DEF RecordRunning, SetRunning
<1>8. CASE ClearPending
  BY <1>8 DEF ClearPending, EraseKey
<1>9. CASE Poll \/ Crosscheck \/ CrosscheckRefuses
  BY <1>9 DEF Poll, Crosscheck, CrosscheckRefuses, TargetIsNew
<1>10. CASE OtaBegin
  BY <1>10 DEF OtaBegin
<1>11. ASSUME NEW bytes \in Images \cup {Erased}, Download(bytes) PROVE ConfirmInv'
  BY <1>11 DEF Download, DigestMatches
<1>12. CASE StagePending
  BY <1>12 DEF StagePending, StageKey
<1>13. CASE StageFailed \/ SetBootFails
  BY <1>13 DEF StageFailed, SetBootFails
<1>14. CASE SetBoot
  BY <1>14 DEF SetBoot
<1>15. CASE Assign \/ UNCHANGED vars
  BY <1>15 DEF Assign, vars
<1>16. QED
  BY <1>1, <1>2, <1>3, <1>4, <1>5, <1>6, <1>7, <1>8, <1>9, <1>10, <1>11, <1>12, <1>13,
      <1>14, <1>15 DEF Next, Device

\* A step keeps the running record true.
LEMMA RunStep ==
  ASSUME "staging_loss" \notin Faults, "nvs" \notin Faults, "mark_valid" \notin Faults,
         "report_loss" \notin Faults, LifecycleInv,
         ThreadInv, PendingInv, ConfirmInv, RunInv, [Next]_vars
  PROVE  RunInv'
<1> USE LifecycleAssumption, OtherSlot DEF LifecycleInv, TypeOK, BootInv, OptImage,
      OptCid, OtaStates, flash, nvs, director, ram,
      InstallInv, RecordInv, TrialHasRecord, BeforeReport, Staging, OnTrial, ThreadInv,
      PendingInv, ConfirmInv, RunInv,
      InStagingWindow, Starting, Reporting, Forward
<1>1. CASE PowerLoss \/ Panic \/ FactoryReset \/ Restart
  <2>1. Reset
    BY <1>1 DEF PowerLoss, Panic, FactoryReset, Restart
  <2>2. run'.sha = None \/ UNCHANGED <<run, pend>>
    BY <1>1 DEF PowerLoss, Panic, FactoryReset, Restart
  <2>3. /\ slot' = slot /\ pc' = "bring_up" /\ boot \in Slots
        /\ OnTrial' => ota[boot] = "new" /\ boot' = boot
        /\ ~OnTrial' /\ OnTrial => boot' = Other(boot)
        /\ ~OnTrial => boot' = boot
    BY <2>1, ResetBoot
  <2>4. CASE run'.sha = None
    BY <2>3, <2>4
  <2>5. CASE UNCHANGED <<run, pend>> /\ OnTrial
    <3>1. CASE OnTrial'
      BY <2>3, <2>5, <3>1
    <3>2. CASE ~OnTrial'
      BY <2>3, <2>5, <3>2
    <3> QED
      BY <3>1, <3>2
  <2>6. CASE UNCHANGED <<run, pend>> /\ ~OnTrial
    <3>1. boot' = boot /\ ~OnTrial' /\ ota'[Other(boot)] = ota[Other(boot)]
      BY <2>1, <2>3, <2>6 DEF Reset, Bootloader
    <3> QED
      BY <2>3, <2>6, <3>1
  <2> QED
    BY <2>2, <2>4, <2>5, <2>6
<1>2. CASE BringUp \/ BringUpFails
  BY <1>2 DEF BringUp, BringUpFails
<1>3. CASE PostBootIdle
  <2>1. /\ boot' = boot /\ boot \in Slots /\ UNCHANGED <<slot, pend, run>>
        /\ pc' = "poll" /\ pend.sha = None /\ ~OnTrial'
    BY <1>3, IdleConfirms
  <2>2. ~OnTrial
    BY <1>3 DEF PostBootIdle, HavePending
  <2>3. slot[boot] # None
    BY TrustedComplete DEF SlotInv
  <2> QED
    BY <2>1, <2>2, <2>3
<1>4. CASE PostBootConfirm
  BY <1>4 DEF PostBootConfirm, MarkValid, HavePending
<1>5. CASE PostBootNotPendingVerify
  BY <1>5 DEF PostBootNotPendingVerify, HavePending, InactiveSlotFailed
<1>6. CASE Reports
  BY <1>6 DEF Reports, Report, ReportInstalled, ReportRollback, ReportFailed
<1>7. CASE RecordRunning
  <2>1. CASE run' = [run EXCEPT !.sha = pend.sha] /\ pc = "rec_sha" /\ pc' = "rec_len"
    BY <1>7, <2>1 DEF RecordRunning, SetRunning
  <2>2. CASE run'.sha = run.sha /\ pc \in {"rec_fp", "rec_len"} /\ pc' \in {"rec_sha", "clr_fp"}
    BY <1>7, <2>2 DEF RecordRunning, SetRunning
  <2> QED
    BY <1>7, <2>1, <2>2 DEF RecordRunning, SetRunning
<1>8. CASE ClearPending
  BY <1>8 DEF ClearPending, EraseKey
<1>9. CASE Poll \/ Crosscheck \/ CrosscheckRefuses
  BY <1>9 DEF Poll, Crosscheck, CrosscheckRefuses, TargetIsNew
<1>10. CASE OtaBegin
  BY <1>10 DEF OtaBegin
<1>11. ASSUME NEW bytes \in Images \cup {Erased}, Download(bytes) PROVE RunInv'
  BY <1>11 DEF Download, DigestMatches
<1>12. CASE StagePending
  BY <1>12 DEF StagePending, StageKey
<1>13. CASE StageFailed \/ SetBootFails
  BY <1>13 DEF StageFailed, SetBootFails
<1>14. CASE SetBoot
  BY <1>14 DEF SetBoot
<1>15. CASE Assign \/ UNCHANGED vars
  BY <1>15 DEF Assign, vars
<1>16. QED
  BY <1>1, <1>2, <1>3, <1>4, <1>5, <1>6, <1>7, <1>8, <1>9, <1>10, <1>11, <1>12, <1>13,
      <1>14, <1>15 DEF Next, Device

-----------------------------------------------------------------------------
\* The thread and the pending record, for every fault but power loss while the
\* record is staged and failing NVS writes.
LEMMA PendingHolds ==
  ASSUME "staging_loss" \notin Faults, "nvs" \notin Faults
  PROVE  Spec => [](ThreadInv /\ PendingInv)
<1>1. Init => ThreadInv /\ PendingInv
  <2> SUFFICES ASSUME Init PROVE ThreadInv /\ PendingInv
    OBVIOUS
  <2>1. pend.sha = None /\ ~err /\ res = None /\ pc = "bring_up" /\ ~pv /\ ota[cur] = "undefined"
    BY DEF Init, Slots
  <2> QED
    BY <2>1 DEF ThreadInv, PendingInv, Reporting
<1>2. LifecycleInv /\ ThreadInv /\ PendingInv /\ [Next]_vars => (ThreadInv /\ PendingInv)'
  BY ThreadStep, PendingStep
<1> QED
  BY <1>1, <1>2, Invariance, PTL DEF Spec

\* Images are confirmed before they do anything, if that does not fail either.
LEMMA ConfirmHolds ==
  ASSUME "staging_loss" \notin Faults, "nvs" \notin Faults, "mark_valid" \notin Faults
  PROVE  Spec => []ConfirmInv
<1>1. Init => ConfirmInv
  BY DEF Init, ConfirmInv, OnTrial, Slots
<1>2. LifecycleInv /\ ThreadInv /\ ConfirmInv /\ [Next]_vars => ConfirmInv'
  BY ConfirmStep
<1> QED
  BY <1>1, <1>2, Invariance, PendingHolds, PTL DEF Spec

\* A rollback is reported for the assignment whose image the bootloader gave up on,
\* whatever reports are lost, confirmations fail and buttons are held.
THEOREM RollbacksAreTrue ==
  ASSUME "staging_loss" \notin Faults, "nvs" \notin Faults
  PROVE  Spec => []RollbackIsTrue
<1>1. LifecycleInv /\ ThreadInv /\ PendingInv => RollbackIsTrue
  BY DEF LifecycleInv, BootInv, ThreadInv, PendingInv, InStagingWindow, RollbackIsTrue
<1> QED
  BY <1>1, Invariance, PendingHolds, PTL

\* A success is reported of the image that runs, confirmed, and for its assignment,
\* whatever reports were lost before.
THEOREM SuccessesAreTrue ==
  ASSUME "staging_loss" \notin Faults, "nvs" \notin Faults, "mark_valid" \notin Faults
  PROVE  Spec => []SuccessIsTrue
<1>1. LifecycleInv /\ ThreadInv /\ PendingInv /\ ConfirmInv => SuccessIsTrue
  <2> SUFFICES ASSUME LifecycleInv, ThreadInv, PendingInv, ConfirmInv, pc = "report_ok"
               PROVE  /\ ota[cur] \in {"valid", "undefined"}
                      /\ pend.sha = slot[cur] /\ pend.len = slot[cur]
                      /\ pend.cid \in Cids /\ ImageOf[pend.cid] = slot[cur]
    BY DEF SuccessIsTrue
  <2>1. boot = cur /\ ota[cur] \in {"valid", "undefined"}
    BY DEF LifecycleInv, TypeOK, OtaStates, BootInv, ConfirmInv, OnTrial, Starting
  <2>2. /\ pend.sha = slot[boot] /\ pend.len = pend.sha
        /\ pend.cid \in Cids /\ ImageOf[pend.cid] = pend.sha
    BY DEF ThreadInv, PendingInv, InStagingWindow, Forward
  <2> QED
    BY <2>1, <2>2
<1> QED
  BY <1>1, Invariance, PendingHolds, ConfirmHolds, PTL

\* Where every report is answered, the running record is of the selected image but
\* in a trial and while its success is recorded.
LEMMA RunHolds ==
  ASSUME "staging_loss" \notin Faults, "nvs" \notin Faults, "mark_valid" \notin Faults,
         "report_loss" \notin Faults
  PROVE  Spec => []RunInv
<1>1. Init => RunInv
  BY DEF Init, RunInv, Staging
<1>2. LifecycleInv /\ ThreadInv /\ PendingInv /\ ConfirmInv /\ RunInv /\ [Next]_vars => RunInv'
  BY RunStep
<1> QED
  BY <1>1, <1>2, Invariance, PendingHolds, ConfirmHolds, PTL DEF Spec

\* If no report is lost either, the poll loop compares assignments with the image
\* that runs.
THEOREM RunningRecordsAreActive ==
  ASSUME "staging_loss" \notin Faults, "nvs" \notin Faults, "mark_valid" \notin Faults,
         "report_loss" \notin Faults
  PROVE  Spec => []RunningRecordIsActive
<1>1. LifecycleInv /\ ConfirmInv /\ RunInv => RunningRecordIsActive
  BY DEF LifecycleInv, BootInv, ConfirmInv, RunInv, Starting, RunningRecordIsActive
<1> QED
  BY <1>1, Invariance, ConfirmHolds, RunHolds, PTL

\* Nor is a slot flipped to a second copy of the image that runs.
THEOREM NothingIsReflashed ==
  ASSUME "staging_loss" \notin Faults, "nvs" \notin Faults, "mark_valid" \notin Faults,
         "report_loss" \notin Faults
  PROVE  Spec => NoReflash
<1> DEFINE Flips == boot' # boot /\ pc = "set_boot" /\ run.sha # None
<1>1. LifecycleInv /\ ConfirmInv /\ RunInv /\ [Next]_vars =>
        [Flips => slot[Other(cur)] # slot[cur]]_vars
  BY DEF LifecycleInv, BootInv, InstallInv, Staging, ConfirmInv, RunInv, Starting
<1> QED
  BY <1>1, Invariance, ConfirmHolds, RunHolds, PTL DEF Spec, NoReflash

=============================================================================
