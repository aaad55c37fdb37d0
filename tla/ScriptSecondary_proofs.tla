----------------------- MODULE ScriptSecondary_proofs -----------------------
(***************************************************************************)
(* Theorems about ScriptSecondary for every set of bundles and faults.     *)
(***************************************************************************)
EXTENDS ScriptSecondary, TLAPS

\* A bundle is at hand wherever the poll thread installs or reports one.
Working == pc \notin {"init", "validate_stored", "poll", "heartbeat"} => res \in Bundles

\* Past the cross-check the bundle is co-signed; until its own header is written
\* the stored one is another, and so it is when a failure is reported, but for a
\* header with its digest whole.
Checked ==
  /\ pc \in {"download", "validate"} => res \in Cosigned
  /\ pc \in {"crosscheck", "download", "validate", "validating", "erase_hdr"} => hdr # res
  /\ pc = "report_failed" => hdr # res \/ unswapped

\* Stored bytes are loaded under a header; store_write: no header until the bytes
\* are complete.
Storing ==
  /\ pc = "validate_stored" => hdr # None
  /\ pc \in {"erase_body", "write_body", "write_hdr"} => hdr = None
  /\ pc \in {"write_hdr", "end_hdr"} => body = res
  /\ pc = "end_hdr" => hdr \in {Torn, res}
  /\ pc \in {"set_live", "report_ok"} => hdr = res

\* Only between the header and the swap does the stored bundle differ from the
\* one that runs, or after a header's write that left it whole and failed.
Swapped ==
  /\ pc \in {"init", "validate_stored"} => live = None /\ ticking = None
  /\ hdr \in Bundles /\ pc \notin {"end_hdr", "set_live"} /\ ~unswapped => live \in {hdr, None}

\* A quarantined bundle is not called, so no fault is counted past the last.
Counting == QuarantineIsEarned /\ (quarantined => ticking = None)

\* The inductive invariant.
ScriptInv ==
  /\ TypeOK /\ Working /\ Checked /\ Storing /\ Swapped /\ Counting
  /\ OnlyCosignedRuns /\ HeaderCommits /\ NoUseAfterFree

-----------------------------------------------------------------------------
(* Type correctness. *)

\* Types, and the counters' range, are kept by every step.
LEMMA ScriptTypeStep == TypeOK /\ Working /\ Counting /\ [Next]_vars => TypeOK'
<1> SUFFICES ASSUME TypeOK, Working, Counting, [Next]_vars PROVE TypeOK'
  OBVIOUS
<1> USE ScriptAssumption DEF TypeOK, OptBundle, Places, StorePlaces, Working, flash, vm,
     healthVars
<1>1. CASE PowerLoss
  <2>1. faults' \in 0 .. MaxFaults
    BY <1>1 DEF PowerLoss
  <2>2. quarantined' \in BOOLEAN /\ health' \in BOOLEAN /\ claim' \in BOOLEAN
    BY <1>1, Zenon DEF PowerLoss
  <2>3. QED
    BY <1>1, <2>1, <2>2 DEF PowerLoss
<1>2. CASE LoadStored
  BY <1>2 DEF LoadStored
<1>3. CASE StoredPasses
  <2>1. faults' \in 0 .. MaxFaults
    BY <1>3 DEF StoredPasses, MayPass, Promote
  <2>2. quarantined' \in BOOLEAN /\ health' \in BOOLEAN /\ claim' \in BOOLEAN
    BY <1>3, Zenon DEF StoredPasses, MayPass, Promote
  <2>3. QED
    BY <1>3, <2>1, <2>2 DEF StoredPasses, MayPass, Promote
<1>4. CASE StoredFails
  BY <1>4 DEF StoredFails
<1>5. CASE PollNothing
  BY <1>5 DEF PollNothing
<1>6. CASE PollSame
  BY <1>6 DEF PollSame
<1>7. CASE PollNew
  BY <1>7 DEF PollNew
<1>8. CASE Crosscheck
  BY <1>8 DEF Crosscheck
<1>9. CASE Download
  BY <1>9 DEF Download
<1>10. CASE Refuse
  BY <1>10 DEF Refuse
<1>11. CASE ValidateBegins
  BY <1>11 DEF ValidateBegins
<1>12. CASE ValidatePasses
  BY <1>12 DEF ValidatePasses
<1>13. CASE ValidateFails
  BY <1>13 DEF ValidateFails
<1>14. CASE EraseHeader
  BY <1>14 DEF EraseHeader
<1>15. CASE EraseBody
  BY <1>15 DEF EraseBody
<1>16. CASE WriteBody
  BY <1>16 DEF WriteBody
<1>17. CASE WriteHeader
  BY <1>17 DEF WriteHeader
<1>18. CASE WriteHeaderEnds
  BY <1>18 DEF WriteHeaderEnds
<1>19. CASE StoreFails
  BY <1>19 DEF StoreFails
<1>20. CASE SetLive
  <2>1. faults' \in 0 .. MaxFaults
    BY <1>20 DEF SetLive, Promote
  <2>2. quarantined' \in BOOLEAN /\ health' \in BOOLEAN /\ claim' \in BOOLEAN
    BY <1>20, Zenon DEF SetLive, Promote
  <2>3. QED
    BY <1>20, <2>1, <2>2 DEF SetLive, Promote
<1>21. CASE ReportOk
  BY <1>21 DEF ReportOk, ReportSecondary
<1>22. CASE ReportFailed
  BY <1>22 DEF ReportFailed, ReportSecondary
<1>23. CASE Heartbeat
  BY <1>23 DEF Heartbeat
<1>24. CASE TickBegins
  BY <1>24 DEF TickBegins
<1>25. CASE TickHealthOk
  BY <1>25 DEF TickHealthOk
<1>26. CASE TickReturns
  BY <1>26 DEF TickReturns
<1>27. CASE TickFails
  <2>1. faults # MaxFaults
    BY <1>27 DEF TickFails, Counting, QuarantineIsEarned
  <2>2. faults' \in 0 .. MaxFaults
    BY <1>27, <2>1 DEF TickFails
  <2>3. quarantined' \in BOOLEAN
    BY <1>27 DEF TickFails
  <2>4. QED
    BY <1>27, <2>2, <2>3 DEF TickFails
<1>28. CASE Assign
  BY <1>28 DEF Assign
<1>29. CASE UNCHANGED vars
  BY <1>29 DEF vars
<1>30. QED
  BY <1>1, <1>2, <1>3, <1>4, <1>5, <1>6, <1>7, <1>8, <1>9, <1>10, <1>11, <1>12, <1>13,
     <1>14, <1>15, <1>16, <1>17, <1>18, <1>19, <1>20, <1>21, <1>22, <1>23, <1>24, <1>25,
     <1>26, <1>27, <1>28, <1>29
  DEF Next, PollThread, ScriptTask

-----------------------------------------------------------------------------
(* The poll thread. *)

\* The places of the poll thread say what is stored and what is at hand.
LEMMA PollStep ==
  ASSUME TypeOK, Working, Checked, Storing, HeaderCommits, [Next]_vars
  PROVE  Working' /\ Checked' /\ Storing' /\ HeaderCommits'
<1> USE ScriptAssumption DEF TypeOK, OptBundle, Places, StorePlaces, Working, Checked,
     Storing, HeaderCommits, flash, vm, healthVars
<1>1. CASE PowerLoss
  BY <1>1 DEF PowerLoss
<1>2. CASE LoadStored \/ StoredPasses \/ StoredFails
  BY <1>2 DEF LoadStored, StoredPasses, MayPass, Promote, StoredFails
<1>3. CASE PollNothing \/ PollSame \/ PollNew
  BY <1>3 DEF PollNothing, PollSame, AlreadyInstalled, PollNew
<1>4. CASE Crosscheck \/ Download \/ Refuse
  BY <1>4 DEF Crosscheck, Download, Refuse
<1>5. CASE ValidateBegins \/ ValidatePasses \/ ValidateFails
  BY <1>5 DEF ValidateBegins, ValidatePasses, ValidateFails
<1>6. CASE EraseHeader \/ EraseBody \/ WriteBody
  BY <1>6 DEF EraseHeader, EraseBody, WriteBody
<1>7. CASE WriteHeader \/ WriteHeaderEnds \/ StoreFails
  BY <1>7 DEF WriteHeader, WriteHeaderEnds, StoreFails
<1>8. CASE SetLive
  BY <1>8 DEF SetLive, Promote
<1>9. CASE ReportOk \/ ReportFailed \/ Heartbeat
  BY <1>9 DEF ReportOk, ReportSecondary, ReportFailed, Heartbeat
<1>10. CASE TickBegins \/ TickHealthOk \/ TickReturns
  BY <1>10 DEF TickBegins, TickHealthOk, TickReturns
<1>11. CASE TickFails
  BY <1>11 DEF TickFails
<1>12. CASE Assign
  BY <1>12 DEF Assign
<1>13. CASE UNCHANGED vars
  BY <1>13 DEF vars
<1>14. QED
  BY <1>1, <1>2, <1>3, <1>4, <1>5, <1>6, <1>7, <1>8, <1>9, <1>10, <1>11, <1>12, <1>13
  DEF Next, PollThread, ScriptTask

-----------------------------------------------------------------------------
(* What runs. *)

\* What runs is co-signed, live, and the stored bundle's.
LEMMA RunStep ==
  ASSUME TypeOK, Working, Checked, Storing, HeaderCommits, Swapped,
         OnlyCosignedRuns, NoUseAfterFree, [Next]_vars
  PROVE  Swapped' /\ OnlyCosignedRuns' /\ NoUseAfterFree'
<1> USE ScriptAssumption DEF TypeOK, OptBundle, Places, StorePlaces, Working, Checked,
     Storing, HeaderCommits, Swapped,
           OnlyCosignedRuns, NoUseAfterFree, flash, vm, healthVars
<1>1. CASE PowerLoss
  BY <1>1 DEF PowerLoss
<1>2. CASE LoadStored \/ StoredPasses \/ StoredFails
  BY <1>2 DEF LoadStored, StoredPasses, MayPass, Promote, StoredFails
<1>3. CASE PollNothing \/ PollSame \/ PollNew
  BY <1>3 DEF PollNothing, PollSame, PollNew
<1>4. CASE Crosscheck \/ Download \/ Refuse
  BY <1>4 DEF Crosscheck, Download, Refuse
<1>5. CASE ValidateBegins \/ ValidatePasses \/ ValidateFails
  BY <1>5 DEF ValidateBegins, ValidatePasses, ValidateFails
<1>6. CASE EraseHeader \/ EraseBody \/ WriteBody
  BY <1>6 DEF EraseHeader, EraseBody, WriteBody
<1>7. CASE WriteHeader \/ WriteHeaderEnds \/ StoreFails
  BY <1>7 DEF WriteHeader, WriteHeaderEnds, StoreFails
<1>8. CASE SetLive
  BY <1>8 DEF SetLive, Promote
<1>9. CASE ReportOk \/ ReportFailed \/ Heartbeat
  BY <1>9 DEF ReportOk, ReportSecondary, ReportFailed, Heartbeat
<1>10. CASE TickBegins \/ TickHealthOk \/ TickReturns
  BY <1>10 DEF TickBegins, Started, TickHealthOk, TickReturns
<1>11. CASE TickFails
  BY <1>11 DEF TickFails
<1>12. CASE Assign
  BY <1>12 DEF Assign
<1>13. CASE UNCHANGED vars
  BY <1>13 DEF vars
<1>14. QED
  BY <1>1, <1>2, <1>3, <1>4, <1>5, <1>6, <1>7, <1>8, <1>9, <1>10, <1>11, <1>12, <1>13
  DEF Next, PollThread, ScriptTask

-----------------------------------------------------------------------------
(* Faults. *)

\* Quarantine and fault count agree.
LEMMA CountStep ==
  ASSUME TypeOK, Counting, Swapped, [Next]_vars
  PROVE  Counting'
<1> USE ScriptAssumption DEF TypeOK, OptBundle, Places, StorePlaces, Counting,
     QuarantineIsEarned, Swapped, flash, vm, healthVars
<1>1. CASE PowerLoss
  BY <1>1 DEF PowerLoss
<1>2. CASE LoadStored \/ StoredPasses \/ StoredFails
  BY <1>2 DEF LoadStored, StoredPasses, MayPass, Promote, StoredFails
<1>3. CASE PollNothing \/ PollSame \/ PollNew
  BY <1>3 DEF PollNothing, PollSame, PollNew
<1>4. CASE Crosscheck \/ Download \/ Refuse
  BY <1>4 DEF Crosscheck, Download, Refuse
<1>5. CASE ValidateBegins \/ ValidatePasses \/ ValidateFails
  BY <1>5 DEF ValidateBegins, ValidatePasses, ValidateFails
<1>6. CASE EraseHeader \/ EraseBody \/ WriteBody
  BY <1>6 DEF EraseHeader, EraseBody, WriteBody
<1>7. CASE WriteHeader \/ WriteHeaderEnds \/ StoreFails
  BY <1>7 DEF WriteHeader, WriteHeaderEnds, StoreFails
<1>8. CASE SetLive
  BY <1>8 DEF SetLive, Promote
<1>9. CASE ReportOk \/ ReportFailed \/ Heartbeat
  BY <1>9 DEF ReportOk, ReportSecondary, ReportFailed, Heartbeat
<1>10. CASE TickBegins \/ TickHealthOk \/ TickReturns
  BY <1>10 DEF TickBegins, TickHealthOk, TickReturns
<1>11. CASE TickFails
  <2>1. faults \in Nat /\ faults < MaxFaults /\ MaxFaults \in Nat
    BY <1>11 DEF TickFails
  <2>2. CASE faults + 1 >= MaxFaults
    <3>1. quarantined'
      BY <1>11, <2>2, Zenon DEF TickFails
    <3>2. faults' = MaxFaults /\ ticking' = None
      BY <1>11, <2>1, <2>2 DEF TickFails
    <3>3. QED
      BY <3>1, <3>2
  <2>3. CASE ~(faults + 1 >= MaxFaults)
    <3>1. ~quarantined' /\ faults' # MaxFaults
      BY <1>11, <2>1, <2>3 DEF TickFails
    <3>2. QED
      BY <3>1
  <2>4. QED
    BY <2>2, <2>3
<1>12. CASE Assign
  BY <1>12 DEF Assign
<1>13. CASE UNCHANGED vars
  BY <1>13 DEF vars
<1>14. QED
  BY <1>1, <1>2, <1>3, <1>4, <1>5, <1>6, <1>7, <1>8, <1>9, <1>10, <1>11, <1>12, <1>13
  DEF Next, PollThread, ScriptTask

-----------------------------------------------------------------------------
(* The inductive invariant, and what follows from it. *)

\* The invariant holds at the first start.
LEMMA ScriptInit == Init => ScriptInv
<1> SUFFICES ASSUME Init PROVE ScriptInv
  OBVIOUS
<1> USE ScriptAssumption DEF Init, OptBundle, Places, StorePlaces
<1>1. TypeOK
  <2>1. faults \in 0 .. MaxFaults
    OBVIOUS
  <2>2. quarantined \in BOOLEAN /\ health \in BOOLEAN /\ claim \in BOOLEAN
    BY Zenon
  <2>3. QED
    BY <2>1, <2>2 DEF TypeOK
<1>2. Working /\ Checked /\ Storing /\ Swapped
  BY DEF Working, Checked, Storing, Swapped
<1>3. Counting
  BY DEF Counting, QuarantineIsEarned
<1>4. OnlyCosignedRuns /\ HeaderCommits /\ NoUseAfterFree
  BY DEF OnlyCosignedRuns, HeaderCommits, NoUseAfterFree
<1>5. QED
  BY <1>1, <1>2, <1>3, <1>4 DEF ScriptInv

\* Every step keeps the invariant.
LEMMA ScriptStep == ScriptInv /\ [Next]_vars => ScriptInv'
  BY ScriptTypeStep, PollStep, RunStep, CountStep DEF ScriptInv

\* The inductive invariant of the script secondary holds in every behaviour.
THEOREM Invariance == Spec => []ScriptInv
  BY ScriptInit, ScriptStep, PTL DEF Spec

\* Type correctness, whatever the bundles do and whatever fails.
THEOREM TypeCorrect == Spec => []TypeOK
<1>1. ScriptInv => TypeOK
  BY DEF ScriptInv
<1>2. QED
  BY <1>1, Invariance, PTL

\* Nothing runs, is validated or is stored that the Image repo did not sign too
\* (aktualino_script_poll's gate and aktualino_script_init's unchecked load).
THEOREM Cosignature == Spec => []OnlyCosignedRuns
<1>1. ScriptInv => OnlyCosignedRuns
  BY DEF ScriptInv
<1>2. QED
  BY <1>1, Invariance, PTL

\* The header is a commit record: store_write's order of erasures and writes.
THEOREM Commit == Spec => []HeaderCommits
<1>1. ScriptInv => HeaderCommits
  BY DEF ScriptInv
<1>2. QED
  BY <1>1, Invariance, PTL

\* script_task never calls a VM that set_live freed.
THEOREM LockGuards == Spec => []NoUseAfterFree
<1>1. ScriptInv => NoUseAfterFree
  BY DEF ScriptInv
<1>2. QED
  BY <1>1, Invariance, PTL

\* Between polls the stored bundle is never shadowed by the one it replaced, but
\* for a header whose write reported a failure with the digest whole.
THEOREM StoredRuns == Spec => []WhatRunsIsStored
<1>1. ScriptInv => WhatRunsIsStored
  BY DEF ScriptInv, Swapped, WhatRunsIsStored
<1>2. QED
  BY <1>1, Invariance, PTL

\* Success is reported of a bundle stored whole with no other running, failure of
\* one that is not stored, with the same exception.
THEOREM TrueReports == Spec => []ReportsAreTrue
<1>1. ScriptInv => ReportsAreTrue
  BY ScriptAssumption DEF ScriptInv, Working, Checked, Storing, Swapped, HeaderCommits, ReportsAreTrue
<1>2. QED
  BY <1>1, Invariance, PTL

\* A quarantine is earned by the live VM, MaxFaults faults in a row.
THEOREM Quarantine == Spec => []QuarantineIsEarned
<1>1. ScriptInv => QuarantineIsEarned
  BY DEF ScriptInv, Counting
<1>2. QED
  BY <1>1, Invariance, PTL

=============================================================================
