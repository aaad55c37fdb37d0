------------------------------- MODULE ABUpdate -------------------------------
(***************************************************************************)
(* What an A/B updater promises, with no flash, no otadata and no crash in *)
(* it: the device runs an image it can always fall back to, tries another  *)
(* approved one at most once at a time, and then either keeps it or is     *)
(* back on the image it came from.                                         *)
(***************************************************************************)
CONSTANTS Approved,  \* images the device may try
          Initial,   \* the image it starts with
          NoTrial    \* no image is on trial

VARIABLES good,      \* the image the device is sure of
          trial,     \* the image on trial, or NoTrial
          phase      \* "idle"; "staged": the trial starts at the next reset; "trial"

abVars == <<good, trial, phase>>

\* The image that executes.
Running == IF phase = "trial" THEN trial ELSE good

Init == good = Initial /\ trial = NoTrial /\ phase = "idle"

Offer(i) ==
  /\ phase = "idle"
  /\ trial' = i /\ phase' = "staged" /\ UNCHANGED good

Try ==
  /\ phase = "staged"
  /\ phase' = "trial" /\ UNCHANGED <<good, trial>>

Keep ==
  /\ phase = "trial"
  /\ good' = trial /\ trial' = NoTrial /\ phase' = "idle"

GiveUp ==
  /\ phase = "trial"
  /\ trial' = NoTrial /\ phase' = "idle" /\ UNCHANGED good

Next == (\E i \in Approved : Offer(i)) \/ Try \/ Keep \/ GiveUp

Spec == Init /\ [][Next]_abVars

=============================================================================
