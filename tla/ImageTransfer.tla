--------------------------- MODULE ImageTransfer ---------------------------
(***************************************************************************)
(* One firmware target on its way into the other slot, read by read:       *)
(* aktualino_core_download_and_install past the cross-repo gate, the HTTP  *)
(* client that follows the gateway's redirects (aktualino_net_get_stream)  *)
(* and the OTA session its chunks are written to (aktualino_ota.c).        *)
(*                                                                         *)
(* Bytes are chunks, one per read; a digest is the sequence of the chunks  *)
(* hashed.  `held' is what the task has allocated and must give back.  The *)
(* servers answer anything; a connection that hangs times out and fails.   *)
(***************************************************************************)
EXTENDS Integers, Sequences, SequencesExt, FiniteSets

CONSTANTS
  Chunks,        \* what a read may return
  Target,        \* the target both repositories sign, a sequence of chunks
  Capacity,      \* chunks a slot holds: a write past it fails
  MaxRedirects   \* AKT_NET_MAX_REDIRECTS

ASSUME TransferAssumption ==
  /\ Target \in Seq(Chunks) /\ Capacity \in Nat /\ MaxRedirects \in Nat
  /\ Len(Target) <= Capacity

VARIABLES
  pc,
  slot,          \* flash: the other slot
  boot,          \* otadata: "running" or "slot"
  staged,        \* NVS: the pending record, "no", "torn" or "yes"
  held,          \* allocations
  sha, got,      \* RAM: the digest so far, the bytes counted by the client
  status, hops,  \* RAM: the last HTTP status, the redirects followed
  err            \* RAM: the result so far, "OK" or "FAIL"
vars == <<pc, slot, boot, staged, held, sha, got, status, hops, err>>
flash == <<slot, boot, staged>>
ram == <<sha, got, status, hops, err>>

Erased == <<>>
Statuses == {0, 200, 302, 404}   \* 0: no answer; 302: any that status_is_redirect takes

Init ==
  /\ pc = "begin" /\ slot \in BoundedSeq(Chunks, Capacity)
  /\ boot = "running" /\ staged = "no" /\ held = {"creds"}
  /\ sha = <<>> /\ got = 0 /\ status = 0 /\ hops = 0 /\ err = "OK"

\* Every exit of aktualino_core_download_and_install frees the credentials.
GiveUp == pc' = "done" /\ err' = "FAIL"

-----------------------------------------------------------------------------
\* aktualino_ota_begin: the driver erases the slot, or refuses.
OtaBegin ==
  /\ pc = "begin"
  /\ \/ pc' = "init" /\ slot' = Erased /\ held' = held \cup {"session"} /\ UNCHANGED err
     \/ GiveUp /\ held' = held \ {"creds"} /\ UNCHANGED slot
  /\ UNCHANGED <<boot, staged, sha, got, status, hops>>

\* The stream ends in failure: what is released before it returns.
StreamFails(released) == pc' = "streamed" /\ err' = "FAIL" /\ held' = held \ released

ClientInit ==
  /\ pc = "init"
  /\ \/ pc' = "open" /\ held' = held \cup {"client"} /\ UNCHANGED err
     \/ StreamFails({})
  /\ UNCHANGED <<flash, sha, got, status, hops>>

\* A leg starts: the Location of the last one is freed, the connection opened.
Open ==
  /\ pc = "open"
  /\ \/ pc' = "headers" /\ held' = held \ {"location"} /\ UNCHANGED err
     \/ StreamFails({"client", "url", "location"})
  /\ UNCHANGED <<flash, sha, got, status, hops>>

\* The headers stream past: akt_redirect_evt keeps a Location, if there is one
\* and memory for it.
Headers ==
  /\ pc = "headers"
  /\ status' \in Statuses
  /\ held' \in {held, held \cup {"location"}}
  /\ pc' = IF status' = 302 THEN "redirect" ELSE "buffer"
  /\ UNCHANGED <<flash, sha, got, hops, err>>

\* Mutant: the redirects are not counted.
FollowUncounted ==
  /\ pc = "redirect"
  /\ \/ /\ "location" \in held
        /\ pc' = "reopen" /\ held' = (held \ {"client"}) \cup {"url"} /\ UNCHANGED err
     \/ StreamFails({"client", "url", "location"})
  /\ UNCHANGED <<flash, sha, got, status, hops>>

\* The redirect is followed with a client of its own: at most MaxRedirects
\* times, to a Location that was sent, if there is memory for a copy.
Follow ==
  /\ pc = "redirect"
  /\ hops' = hops + 1
  /\ \/ /\ hops < MaxRedirects /\ "location" \in held
        /\ pc' = "reopen" /\ held' = (held \ {"client"}) \cup {"url"} /\ UNCHANGED err
     \/ StreamFails({"client", "url", "location"})
  /\ UNCHANGED <<flash, sha, got, status>>

\* Mutant: the copy of the URL is forgotten when the client cannot be made.
ReopenLeaks ==
  /\ pc = "reopen"
  /\ \/ pc' = "open" /\ held' = held \cup {"client"} /\ UNCHANGED err
     \/ StreamFails({"location"})
  /\ UNCHANGED <<flash, sha, got, status, hops>>

Reopen ==
  /\ pc = "reopen"
  /\ \/ pc' = "open" /\ held' = held \cup {"client"} /\ UNCHANGED err
     \/ StreamFails({"url", "location"})
  /\ UNCHANGED <<flash, sha, got, status, hops>>

-----------------------------------------------------------------------------
\* stream_body: a body is read whatever the status is.
Buffer ==
  /\ pc = "buffer"
  /\ \/ pc' = "read" /\ held' = held \cup {"buffer"} /\ UNCHANGED err
     \/ pc' = "close" /\ err' = "FAIL" /\ UNCHANGED held
  /\ UNCHANGED <<flash, sha, got, status, hops>>

\* A chunk goes through ota_sink_cb and aktualino_ota_write: flash, then digest.
ReadChunk(c) ==
  /\ pc = "read" /\ Len(slot) < Capacity
  /\ slot' = Append(slot, c) /\ sha' = Append(sha, c) /\ got' = got + 1
  /\ UNCHANGED <<pc, boot, staged, held, status, hops, err>>

\* esp_ota_write or the digest fails: the chunk is in the slot or not, and the
\* transfer is aborted.
SinkFails(c) ==
  /\ pc = "read" /\ pc' = "close" /\ err' = "FAIL"
  /\ slot' \in IF Len(slot) < Capacity THEN {slot, Append(slot, c)} ELSE {slot}
  /\ held' = held \ {"buffer"}
  /\ UNCHANGED <<boot, staged, sha, got, status, hops>>

\* The body is complete, or the socket was closed: no error either way.
BodyEnds ==
  /\ pc = "read" /\ pc' = "close" /\ held' = held \ {"buffer"}
  /\ UNCHANGED <<flash, ram>>

ReadFails ==
  /\ pc = "read" /\ pc' = "close" /\ err' = "FAIL" /\ held' = held \ {"buffer"}
  /\ UNCHANGED <<flash, sha, got, status, hops>>

CloseStream ==
  /\ pc = "close" /\ pc' = "streamed"
  /\ held' = held \ {"client", "url", "location"}
  /\ UNCHANGED <<flash, ram>>

-----------------------------------------------------------------------------
\* The download failed, or was not answered with 200: aktualino_ota_abort.
Abort ==
  /\ pc = "streamed" /\ (err # "OK" \/ status # 200)
  /\ GiveUp /\ held' = held \ {"session", "creds"}
  /\ UNCHANGED <<flash, sha, got, status, hops>>

\* aktualino_ota_end: the session is over, whether or not the image validates.
OtaEnd ==
  /\ pc = "streamed" /\ err = "OK" /\ status = 200
  /\ \/ pc' = "verify" /\ held' = held \ {"session"} /\ UNCHANGED err
     \/ GiveUp /\ held' = held \ {"session", "creds"}
  /\ UNCHANGED <<flash, sha, got, status, hops>>

LengthMatches == got = Len(Target)

\* Mutant: only the length is compared.
VerifyLength ==
  /\ pc = "verify"
  /\ IF LengthMatches THEN pc' = "stage" /\ UNCHANGED <<held, err>>
     ELSE GiveUp /\ held' = held \ {"creds"}
  /\ UNCHANGED <<flash, sha, got, status, hops>>

\* Length and SHA-256 of what was written, against the Director's target.
Verify ==
  /\ pc = "verify"
  /\ IF LengthMatches /\ sha = Target THEN pc' = "stage" /\ UNCHANGED <<held, err>>
     ELSE GiveUp /\ held' = held \ {"creds"}
  /\ UNCHANGED <<flash, sha, got, status, hops>>

\* aktualino_store_set_pending_update: before the slot is flipped.
Stage ==
  /\ pc = "stage"
  /\ \/ pc' = "flip" /\ staged' = "yes" /\ UNCHANGED <<held, err>>
     \/ GiveUp /\ held' = held \ {"creds"} /\ staged' \in {"no", "torn"}
  /\ UNCHANGED <<slot, boot, sha, got, status, hops>>

\* aktualino_ota_set_boot; on failure the record is cleared, the result of
\* which is not looked at.
SetBoot ==
  /\ pc = "flip" /\ held' = held \ {"creds"}
  /\ \/ pc' = "done" /\ boot' = "slot" /\ UNCHANGED <<staged, err>>
     \/ GiveUp /\ staged' \in {"no", "torn", "yes"} /\ UNCHANGED boot
  /\ UNCHANGED <<slot, sha, got, status, hops>>

-----------------------------------------------------------------------------
\* Power is lost: the RAM is gone, the flash stays.
PowerLoss ==
  /\ pc # "done" /\ pc' = "done" /\ held' = {} /\ err' = "FAIL"
  /\ UNCHANGED <<flash, sha, got, status, hops>>

\* A later poll tries again, with a context of its own; the record was resolved
\* by the start in between (UpdateLifecycle).
Again ==
  /\ pc = "done" /\ boot = "running"
  /\ pc' = "begin" /\ staged' = "no" /\ held' = {"creds"}
  /\ sha' = <<>> /\ got' = 0 /\ status' = 0 /\ hops' = 0 /\ err' = "OK"
  /\ UNCHANGED <<slot, boot>>

Transfer ==
  \/ OtaBegin \/ ClientInit \/ Open \/ Headers \/ Follow \/ Reopen \/ Buffer
  \/ (\E c \in Chunks : ReadChunk(c) \/ SinkFails(c)) \/ BodyEnds \/ ReadFails
  \/ CloseStream \/ Abort \/ OtaEnd \/ Verify \/ Stage \/ SetBoot

Next == Transfer \/ PowerLoss \/ Again

Spec == Init /\ [][Next]_vars /\ WF_vars(Transfer)

-----------------------------------------------------------------------------
TypeOK ==
  /\ slot \in Seq(Chunks) /\ sha \in Seq(Chunks) /\ Len(slot) <= Capacity
  /\ boot \in {"running", "slot"} /\ staged \in {"no", "torn", "yes"}
  /\ got \in Nat /\ hops \in Nat /\ status \in Statuses /\ err \in {"OK", "FAIL"}
  /\ pc \in {"begin", "init", "open", "headers", "redirect", "reopen", "buffer", "read", "close",
             "streamed", "verify", "stage", "flip", "done"}
  /\ held \subseteq {"creds", "session", "client", "location", "url", "buffer"}

\* SAFETY.  A transfer that ended, in whichever of its many ways, has given
\* everything back: the credentials, the OTA session, the HTTP client, the
\* copies of the Location and of the URL and the read buffer (the cleanup lists
\* before each return of aktualino_net.c and aktualino_core.c).
GivesBack == pc = "done" => held = {}

\* SAFETY, by refinement.  To the rest of the system a transfer is one step
\* that leaves some bytes in the erased slot; a record is staged, and the slot
\* booted, only over exactly the target - whatever was redirected, cut short,
\* repeated, answered with an error page or written in part.
Arriving == {"init", "open", "headers", "redirect", "reopen", "buffer", "read", "close",
             "streamed", "verify"}
Abstract == INSTANCE SlotInstall WITH
  Contents <- BoundedSeq(Chunks, Capacity),
  phase <- CASE pc \in Arriving -> "erased" [] pc = "stage" -> "checked"
             [] pc = "flip" -> "staged" [] OTHER -> "idle",
  slot <- IF pc \in Arriving THEN Erased ELSE slot
ImplementsInstall == Abstract!Spec

\* LIVENESS.  A transfer ends, whatever the servers do: redirects are counted,
\* a body is bounded by the slot it is written to, and a connection that hangs
\* times out (every call of the client returns: WF).
Ends == pc = "begin" ~> pc = "done"

\* ACTION.  How long a transfer can take: every step of it leaves fewer to do, so
\* that after StepsLeft steps it is over - one leg for every redirect allowed, a
\* read for every chunk that fits the slot, and the steps around them.
BodySteps == Capacity + 7
StepsLeft ==
  LET legs == 4 * (MaxRedirects - hops)
  IN  CASE pc = "begin" -> BodySteps + 5 + legs     [] pc = "init" -> BodySteps + 4 + legs
        [] pc = "open" -> BodySteps + 3 + legs      [] pc = "headers" -> BodySteps + 2 + legs
        [] pc = "redirect" -> BodySteps + 1 + legs  [] pc = "reopen" -> BodySteps + 4 + legs
        [] pc = "buffer" -> BodySteps               [] pc = "read" -> Capacity - Len(slot) + 6
        [] pc = "close" -> 5   [] pc = "streamed" -> 4   [] pc = "verify" -> 3
        [] pc = "stage" -> 2   [] pc = "flip" -> 1       [] OTHER -> 0
StepsAreCounted == [][pc # "done" => StepsLeft' \in Nat /\ StepsLeft' < StepsLeft]_vars

=============================================================================
