---------------------------- MODULE SlotInstall ----------------------------
(***************************************************************************)
(* What aktualino_core_download_and_install promises about the other slot, *)
(* at the grain UpdateLifecycle uses it: the slot is erased, a download    *)
(* leaves some bytes in it in one step, and only the target's bytes are    *)
(* recorded and booted.                                                    *)
(***************************************************************************)
CONSTANTS Contents,  \* what a slot may hold
          Erased,    \* an element of Contents
          Target     \* what both repositories sign

VARIABLES phase,     \* "idle", "erased", "checked", "staged"
          slot,      \* the slot that does not run
          staged,    \* the pending record: "no", "torn" or "yes"
          boot       \* "running" or "slot"
vars == <<phase, slot, staged, boot>>

Init == /\ phase = "idle" /\ slot \in Contents
        /\ staged = "no" /\ boot = "running"

Begin == /\ phase = "idle" /\ boot = "running" /\ phase' = "erased"
         /\ slot' = Erased /\ UNCHANGED <<staged, boot>>

\* Whatever bytes arrived; the target's own may still be given up.
Download(bytes) ==
  /\ phase = "erased" /\ slot' = bytes
  /\ phase' = "idle" \/ (bytes = Target /\ phase' = "checked")
  /\ UNCHANGED <<staged, boot>>

Stage == /\ phase = "checked"
         /\ \/ phase' = "staged" /\ staged' = "yes"
            \/ phase' = "idle" /\ staged' \in {"no", "torn"}
         /\ UNCHANGED <<slot, boot>>

Activate == /\ phase = "staged" /\ phase' = "idle"
            /\ \/ boot' = "slot" /\ UNCHANGED staged
               \/ UNCHANGED boot /\ staged' \in {"no", "torn", "yes"}
            /\ UNCHANGED slot

\* A record left over is resolved by the next start (UpdateLifecycle).
Resolve == /\ phase = "idle" /\ boot = "running" /\ staged' = "no"
           /\ UNCHANGED <<phase, slot, boot>>

Next == Begin \/ (\E bytes \in Contents : Download(bytes)) \/ Stage \/ Activate \/ Resolve
Spec == Init /\ [][Next]_vars
=============================================================================
