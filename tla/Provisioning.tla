----------------------------- MODULE Provisioning -----------------------------
(***************************************************************************)
(* Enrolment of one board: the boot decision, the SoftAP portal and its    *)
(* provisioning task, the credential fetch, ECU registration and first     *)
(* manifest, and the factory reset; with power loss between any two NVS    *)
(* writes, failing writes and lost answers.                                *)
(*                                                                         *)
(* A key of the identity namespace holds None or a value that says where   *)
(* it comes from: credentials the number of the device registration they   *)
(* were issued by, nonces and ECU keys the number of the random draw.      *)
(* Random draws are never repeated.  The build is the one with a baked     *)
(* provision client and no baked Wi-Fi (docs/provisioning.md, path A2).    *)
(***************************************************************************)
EXTENDS Naturals, FiniteSets

CONSTANTS
  Submissions,  \* what operators enter: a set of [ssid, pass]
  Joinable,     \* the submissions that are right
  MaxDevices,   \* bound on device registrations
  MaxDraws,     \* bound on random draws
  None,         \* an absent key
  Faults        \* the faults the environment may inject

FaultKinds == {"power_loss",     \* power loss, wherever the next two are not asked for
               "creds_loss",     \* power loss while credentials and roots are stored
               "erase_loss",     \* power loss, or an error, in a factory reset
               "factory_reset",  \* the BOOT button is held at start
               "nvs",            \* an NVS write fails
               "answer_loss",    \* a request or its answer is lost
               "wifi",           \* a right join or a time sync fails, the link drops
               "late_submit"}    \* the page is submitted again after success

ASSUME ProvisioningAssumption ==
  /\ Joinable \subseteq Submissions
  /\ \A s \in Submissions : s.ssid # None /\ s.pass # None
  /\ MaxDevices \in Nat \ {0} /\ MaxDraws \in Nat \ {0}
  /\ None \notin Nat /\ None # "set" /\ None # "baked"
  /\ Faults \subseteq FaultKinds

\* The keys of NS_ID.  "cert" stands for the UUID, the gateway and the client
\* certificate.  The pasted credential is written and never read; left out.
IdKeys == {"ssid", "pass", "nonce", "cert", "pkey", "cacert", "ecu_ser", "pk", "sk", "prov"}

\* The keys of NS_TUF: the two trusted roots, and the stored role versions.
TufKeys == {"director", "image", "versions"}

VARIABLES
  id,      \* NVS: the identity namespace
  tuf,     \* NVS: the TUF namespace; versions: the device they were accepted for
  pc,      \* RAM: where app_main is
  job,     \* RAM: the next step of the enrolment, run by app_main or the portal's task
  sub,     \* RAM: the portal's s_submit
  assoc,   \* RAM: the network the portal's station is associated with
  got,     \* RAM: what the enrolment holds: the device.zip, the nonce, the new key
  failed,  \* RAM: the err |= of a store call
  draws,   \* random draws so far
  devices, \* cloud: device registrations so far
  ecus     \* Director: ECU serial |-> the device and key it is registered with

cloud == <<devices, ecus>>
vars == <<id, tuf, pc, job, sub, assoc, got, failed, draws, devices, ecus>>

Places == {"boot", "erase", "portal", "join", "prov", "poll", "idle", "error"}
Jobs == {"none", "ssid", "pass", "join", "sntp", "nonce", "fetch",
         "cert", "pkey", "cacert", "ecu_ser", "saved", "seed_director", "seed_image",
         "run", "run_nonce", "enrol", "pk", "sk", "keyed", "register", "manifest",
         "flag", "verify"}

NoZip == [device |-> None, nonce |-> None, key |-> None]

Init ==
  /\ id = [k \in IdKeys |-> None] /\ tuf = [k \in TufKeys |-> None]
  /\ pc = "boot" /\ job = "none" /\ sub = None /\ assoc = None /\ got = NoZip /\ failed = FALSE
  /\ draws = 0 /\ devices = 0
  /\ ecus = [s \in 1 .. MaxDraws |-> None]

-----------------------------------------------------------------------------
(* Start, and factory reset. *)

Reset ==
  /\ pc' = "boot" /\ job' = "none" /\ sub' = None /\ assoc' = None
  /\ got' = NoZip /\ failed' = FALSE

\* Bound: a start over may need two more draws, a nonce and an ECU key.
DrawsLeft == draws + 2 <= MaxDraws

Storing == job \in {"cacert", "ecu_ser", "saved", "seed_director", "seed_image"}

PowerLoss ==
  /\ IF pc = "erase" THEN "erase_loss" \in Faults
     ELSE IF Storing THEN "creds_loss" \in Faults
     ELSE "power_loss" \in Faults
  /\ DrawsLeft
  /\ Reset /\ UNCHANGED <<id, tuf, draws, cloud>>

\* The boot decision: provisioned, or Wi-Fi known, or the portal.
Boot ==
  /\ pc = "boot"
  /\ pc' = IF id.prov = None /\ id.ssid = None THEN "portal" ELSE "join"
  /\ UNCHANGED <<id, tuf, job, sub, assoc, got, failed, draws, cloud>>

HoldButton ==
  /\ "factory_reset" \in Faults
  /\ pc = "boot" /\ devices < MaxDevices /\ DrawsLeft
  /\ pc' = "erase"
  /\ UNCHANGED <<id, tuf, job, sub, assoc, got, failed, draws, cloud>>

\* aktualino_store_reset: the identity namespace is erased, entry by entry, and
\* then the TUF namespace.
EraseId(k) ==
  /\ pc = "erase" /\ id[k] # None
  /\ id' = [id EXCEPT ![k] = None]
  /\ UNCHANGED <<tuf, pc, job, sub, assoc, got, failed, draws, cloud>>

EraseTuf(k) ==
  /\ pc = "erase" /\ \A i \in IdKeys : id[i] = None
  /\ tuf[k] # None
  /\ tuf' = [tuf EXCEPT ![k] = None]
  /\ UNCHANGED <<id, pc, job, sub, assoc, got, failed, draws, cloud>>

\* Mutant: the identity is erased and the TUF namespace kept.
EraseDoneIdOnly ==
  /\ pc = "erase" /\ \A k \in IdKeys : id[k] = None
  /\ Reset /\ UNCHANGED <<id, tuf, draws, cloud>>

\* Mutant: only the credentials are erased.
EraseDoneCredsOnly ==
  /\ pc = "erase" /\ id.cert = None
  /\ Reset /\ UNCHANGED <<id, tuf, draws, cloud>>

EraseDone ==
  /\ pc = "erase"
  /\ \A k \in IdKeys : id[k] = None
  /\ \A k \in TufKeys : tuf[k] = None
  /\ Reset /\ UNCHANGED <<id, tuf, draws, cloud>>

\* Wi-Fi and SNTP of the normal start; either fails and the board parks, with the
\* right entry too.
Joins == \E s \in Joinable : id.ssid = s.ssid /\ id.pass = s.pass

JoinAtBoot ==
  /\ pc = "join"
  /\ \/ Joins /\ pc' = "prov"
     \/ (Joins => "wifi" \in Faults) /\ pc' = "error"
  /\ UNCHANGED <<id, tuf, job, sub, assoc, got, failed, draws, cloud>>

\* What the code asks before it skips the fetch, and what it then needs.
HaveCreds == id.cert # None /\ id.pkey # None
LoadCreds == HaveCreds /\ id.cacert # None /\ id.ecu_ser # None

\* Mutant: the public half is enough.
HaveEcuKeyPublicOnly == id.pk # None

HaveEcuKey == id.pk # None /\ id.sk # None

\* provision_if_needed: a board without credentials is sent to the portal in
\* words only; it parks.
ProvisionIfNeeded ==
  /\ pc = "prov" /\ job = "none"
  /\ IF id.prov # None THEN pc' = "poll" /\ job' = job
     ELSE IF HaveCreds THEN pc' = pc /\ job' = "run"
     ELSE pc' = "idle" /\ job' = job
  /\ UNCHANGED <<id, tuf, sub, assoc, got, failed, draws, cloud>>

-----------------------------------------------------------------------------
(* The portal. *)

\* POST /provision, when no attempt is running (s_submitted).
Submit(s) ==
  /\ pc = "portal" /\ job = "none"
  /\ id.prov = None \/ "late_submit" \in Faults
  /\ sub' = s /\ job' = "ssid"
  /\ UNCHANGED <<id, tuf, pc, assoc, got, failed, draws, cloud>>

\* start_portal's loop sees the provisioned flag, waits and restarts, whatever
\* the task is doing.
RestartAfterEnrolment ==
  /\ pc = "portal" /\ id.prov # None
  /\ Reset /\ UNCHANGED <<id, tuf, draws, cloud>>

\* One NVS write of the enrolment; errors are or-ed.
Write(at, key, value, next) ==
  /\ job = at
  /\ \/ id' = [id EXCEPT ![key] = value] /\ UNCHANGED failed
     \/ "nvs" \in Faults /\ failed' = TRUE /\ UNCHANGED id
  /\ job' = next
  /\ UNCHANGED <<tuf, pc, sub, assoc, got, draws, cloud>>

\* Mutant: s_submitted is not cleared when the attempt fails.
FailKeepsSubmitted == pc' = pc /\ UNCHANGED job

\* The attempt fails: the portal waits for another, app_main parks.
Fail == job' = "none" /\ pc' = IF pc = "portal" THEN pc ELSE "idle"

\* provision_task: the Wi-Fi is stored before it is tried.
SaveWifi == Write("ssid", "ssid", sub.ssid, "pass") \/ Write("pass", "pass", sub.pass, "join")

\* aktualino_portal_sta_connect: a station that is associated with this network
\* already is connected, whatever the password; else it joins with the right entry.
JoinFromPortal ==
  /\ job = "join" /\ (assoc = sub.ssid \/ sub \in Joinable)
  /\ job' = "sntp" /\ assoc' = sub.ssid /\ failed' = FALSE
  /\ UNCHANGED <<id, tuf, pc, sub, got, draws, cloud>>

\* Refused, or not in time; a right entry's association may still come about, and
\* one with another network may be left.
JoinFails ==
  /\ job = "join" /\ assoc # sub.ssid
  /\ sub \in Joinable => "wifi" \in Faults
  /\ Fail /\ failed' = FALSE
  /\ assoc' \in {assoc, None} \/ (sub \in Joinable /\ assoc' = sub.ssid)
  /\ UNCHANGED <<id, tuf, sub, got, draws, cloud>>

\* The station loses its network; on_wifi_event retries during a join only.
LoseLink ==
  /\ "wifi" \in Faults /\ assoc # None
  /\ assoc' = None
  /\ UNCHANGED <<id, tuf, pc, job, sub, got, failed, draws, cloud>>

\* portal_provision_driver: time, then a fetch if there are no credentials.
SntpFromPortal ==
  /\ job = "sntp"
  /\ job' = IF HaveCreds THEN "run" ELSE "nonce"
  /\ UNCHANGED <<id, tuf, pc, sub, assoc, got, failed, draws, cloud>>

SntpFails ==
  /\ job = "sntp" /\ "wifi" \in Faults
  /\ Fail
  /\ UNCHANGED <<id, tuf, sub, assoc, got, failed, draws, cloud>>

\* Mutant: the serial comes from the MAC address alone.
IdNonceFromMac(at, next) ==
  /\ job = at /\ job' = next
  /\ got' = [got EXCEPT !.nonce = 1]
  /\ UNCHANGED <<id, tuf, pc, sub, assoc, failed, draws, cloud>>

\* get_or_init_id_nonce: a nonce that cannot be stored is used all the same.
IdNonce(at, next) ==
  /\ job = at /\ job' = next
  /\ IF id.nonce # None
     THEN got' = [got EXCEPT !.nonce = id.nonce] /\ UNCHANGED <<id, draws>>
     ELSE /\ draws < MaxDraws /\ draws' = draws + 1
          /\ got' = [got EXCEPT !.nonce = draws']
          /\ \/ id' = [id EXCEPT !.nonce = draws']
             \/ "nvs" \in Faults /\ UNCHANGED id
  /\ UNCHANGED <<tuf, pc, sub, assoc, failed, cloud>>

\* The token and POST /accounts/devices: device.zip, or not.
Fetch(delivered, acked) ==
  /\ job = "fetch" /\ devices < MaxDevices
  /\ acked => delivered
  /\ ~acked => "answer_loss" \in Faults /\ devices + 1 < MaxDevices
  /\ devices' = IF delivered THEN devices + 1 ELSE devices
  /\ IF acked THEN job' = "cert" /\ got' = [got EXCEPT !.device = devices'] /\ UNCHANGED pc
              ELSE Fail /\ UNCHANGED got
  /\ failed' = FALSE
  /\ UNCHANGED <<id, tuf, sub, assoc, draws, ecus>>

SaveCreds ==
  \/ Write("cert", "cert", got.device, "pkey")
  \/ Write("pkey", "pkey", got.device, "cacert")
  \/ Write("cacert", "cacert", got.device, "ecu_ser")
  \/ Write("ecu_ser", "ecu_ser", got.nonce, "saved")

\* Mutant: the anchors are not seeded.
SavedUnseeded ==
  /\ job = "saved"
  /\ IF failed THEN Fail ELSE job' = "run" /\ UNCHANGED pc
  /\ failed' = FALSE
  /\ UNCHANGED <<id, tuf, sub, assoc, got, draws, cloud>>

Saved ==
  /\ job = "saved"
  /\ IF failed THEN Fail ELSE job' = "seed_director" /\ UNCHANGED pc
  /\ failed' = FALSE
  /\ UNCHANGED <<id, tuf, sub, assoc, got, draws, cloud>>

\* seed_root, twice; its errors are ignored.
Seed(at, k, next) ==
  /\ job = at
  /\ \/ tuf' = [tuf EXCEPT ![k] = "baked"]
     \/ "nvs" \in Faults /\ UNCHANGED tuf
  /\ job' = next
  /\ UNCHANGED <<id, pc, sub, assoc, got, failed, draws, cloud>>

SeedRoots == Seed("seed_director", "director", "seed_image") \/ Seed("seed_image", "image", "run")

-----------------------------------------------------------------------------
(* aktualino_prov_run, from the portal's task or from app_main. *)

Run ==
  /\ job = "run"
  /\ job' = IF id.prov # None THEN "verify" ELSE "run_nonce"
  /\ UNCHANGED <<id, tuf, pc, sub, assoc, got, failed, draws, cloud>>

\* The credentials, then the ECU key: the stored one, or a new one.
Enrol ==
  /\ job = "enrol"
  /\ CASE ~LoadCreds -> Fail /\ UNCHANGED <<got, draws>>
       [] LoadCreds /\ HaveEcuKey -> job' = "register" /\ UNCHANGED <<pc, got, draws>>
       [] OTHER -> /\ draws < MaxDraws /\ draws' = draws + 1
                   /\ got' = [got EXCEPT !.key = draws'] /\ job' = "pk" /\ UNCHANGED pc
  /\ UNCHANGED <<id, tuf, sub, assoc, failed, cloud>>

SaveEcuKey == Write("pk", "pk", got.key, "sk") \/ Write("sk", "sk", got.key, "keyed")

Keyed ==
  /\ job = "keyed"
  /\ IF failed THEN Fail ELSE job' = "register" /\ UNCHANGED pc
  /\ failed' = FALSE
  /\ UNCHANGED <<id, tuf, sub, assoc, got, draws, cloud>>

\* A request: `accepted' by the server, delivered, and its answer seen.
Request(accepted, delivered, acked, next) ==
  /\ acked => delivered
  /\ ~acked => "answer_loss" \in Faults
  /\ IF acked /\ accepted THEN job' = next /\ UNCHANGED pc ELSE Fail

\* POST /director/ecus over the device's TLS identity.  A serial registered by
\* another device is refused; registering it again is not.
Registers ==
  /\ id.cert = id.pkey
  /\ ecus[id.ecu_ser] # None => ecus[id.ecu_ser].device = id.cert

RegisterEcu(delivered, acked) ==
  /\ job = "register"
  /\ Request(Registers, delivered, acked, "manifest")
  /\ ecus' = IF delivered /\ Registers
             THEN [ecus EXCEPT ![id.ecu_ser] = [device |-> id.cert, key |-> id.pk]] ELSE ecus
  /\ UNCHANGED <<id, tuf, sub, assoc, got, failed, draws, devices>>

\* PUT /director/manifest, signed with the ECU key.
FirstManifest(delivered, acked) ==
  /\ job = "manifest"
  /\ Request(ecus[id.ecu_ser] = [device |-> id.cert, key |-> id.pk] /\ id.pk = id.sk,
             delivered, acked, "flag")
  /\ UNCHANGED <<id, tuf, sub, assoc, got, failed, draws, cloud>>

SetProvisioned == Write("flag", "prov", "set", "verify")

\* trust_anchor_init_repo pins the embedded root where none is stored, and a
\* poll moves the stored versions on if the backend's metadata verifies.
Pinned(k) == IF tuf[k] = None THEN "embedded" ELSE tuf[k]

PollOnce ==
  tuf' = [director |-> Pinned("director"), image |-> Pinned("image"),
          versions |-> IF Pinned("director") = "baked" /\ tuf.versions = None
                       THEN id.cert ELSE tuf.versions]

\* The end of the attempt: the portal's one-shot poll, or on to the poll loop.
Verify ==
  /\ job = "verify" /\ job' = "none"
  /\ IF failed THEN pc' = IF pc = "portal" THEN pc ELSE "idle"
               ELSE pc' = IF pc = "portal" THEN pc ELSE "poll"
  /\ IF pc = "portal" /\ ~failed THEN PollOnce ELSE UNCHANGED tuf
  /\ UNCHANGED <<id, sub, assoc, got, failed, draws, cloud>>

Poll ==
  /\ pc = "poll" /\ LoadCreds /\ PollOnce
  /\ UNCHANGED <<id, pc, job, sub, assoc, got, failed, draws, cloud>>

-----------------------------------------------------------------------------
Requests ==
  \E delivered, acked \in BOOLEAN :
    \/ Fetch(delivered, acked)
    \/ RegisterEcu(delivered, acked)
    \/ FirstManifest(delivered, acked)

Device ==
  \/ Boot \/ EraseDone \/ JoinAtBoot \/ ProvisionIfNeeded
  \/ (\E k \in IdKeys : EraseId(k)) \/ (\E k \in TufKeys : EraseTuf(k))
  \/ SaveWifi \/ JoinFromPortal \/ JoinFails \/ SntpFromPortal \/ SntpFails
  \/ IdNonce("nonce", "fetch") \/ IdNonce("run_nonce", "enrol")
  \/ SaveCreds \/ Saved \/ SeedRoots
  \/ Run \/ Enrol \/ SaveEcuKey \/ Keyed \/ SetProvisioned \/ Verify \/ Poll
  \/ Requests \/ RestartAfterEnrolment

Next == Device \/ (\E s \in Submissions : Submit(s)) \/ HoldButton \/ PowerLoss \/ LoseLink

Spec == Init /\ [][Next]_vars

(***************************************************************************)
(* Fairness.  The board runs; an operator at the portal tries until the    *)
(* board is enrolled, and gets the password right again and again; a right *)
(* join, a time sync and a request that are tried again and again succeed  *)
(* in the end.                                                             *)
(***************************************************************************)
FairSpec ==
  /\ Spec
  /\ WF_vars(Device)
  /\ WF_vars(RestartAfterEnrolment)
  /\ SF_vars(\E s \in Joinable : id.prov = None /\ Submit(s))
  /\ SF_vars(sub \in Joinable /\ JoinFromPortal) /\ SF_vars(SntpFromPortal)
  /\ SF_vars(Fetch(TRUE, TRUE)) /\ SF_vars(RegisterEcu(TRUE, TRUE))
  /\ SF_vars(FirstManifest(TRUE, TRUE))

-----------------------------------------------------------------------------
(* Properties *)

\* TYPE INVARIANT: the values of the namespaces, the thread and the servers.
TypeOK ==
  /\ DOMAIN id = IdKeys /\ DOMAIN tuf = TufKeys
  /\ \A k \in {"cert", "pkey", "cacert"} : id[k] \in (1 .. MaxDevices) \cup {None}
  /\ \A k \in {"nonce", "ecu_ser", "pk", "sk"} : id[k] \in (1 .. MaxDraws) \cup {None}
  /\ id.prov \in {"set", None}
  /\ \A k \in {"director", "image"} : tuf[k] \in {"baked", "embedded", None}
  /\ tuf.versions \in (1 .. MaxDevices) \cup {None}
  /\ pc \in Places /\ job \in Jobs
  /\ sub \in Submissions \cup {None}
  /\ assoc \in {s.ssid : s \in Submissions} \cup {None}
  /\ draws \in 0 .. MaxDraws /\ devices \in 0 .. MaxDevices
  /\ \A s \in DOMAIN ecus :
       ecus[s] \in {None} \cup [device: 1 .. MaxDevices, key: 1 .. MaxDraws]

\* SAFETY.  aktualino_store.h: the flag is "set true only after creds + ECU
\* register + first manifest all succeed": a board that counts as provisioned is
\* registered under its serial with the identity and the key it holds.
ProvisionedIsRegistered ==
  id.prov # None /\ pc # "erase" =>
    /\ LoadCreds /\ id.cert = id.pkey /\ HaveEcuKey /\ id.pk = id.sk
    /\ ecus[id.ecu_ser] = [device |-> id.cert, key |-> id.pk]

\* SAFETY.  The two halves of the ECU key belong together whenever the code takes
\* the key for complete, wherever power was lost between the two writes.
KeyPairMatches == HaveEcuKey => id.pk = id.sk

\* SAFETY.  aktualino_store.h: "a re-provisioned board never collides with a stale
\* server-side record from an earlier enrolment".
SerialNeverCollides ==
  job = "register" /\ ecus[id.ecu_ser] # None => ecus[id.ecu_ser].device = id.cert

\* SAFETY.  aktualino_store.h, of a factory reset: "the device re-provisions from
\* scratch": no role version accepted for an earlier identity outlives one that
\* runs to its end (TornFactoryReset.cfg shows one that is cut).
VersionsAreOurs ==
  pc = "poll" /\ LoadCreds /\ tuf.versions # None => tuf.versions = id.cert

\* SAFETY.  docs/provisioning.md: "store creds + seed the Torizon Director/Image
\* roots", then register: a board that registers trusts its backend's roots.
RegistersSeeded == job = "register" => tuf.director = "baked" /\ tuf.image = "baked"

\* SAFETY.  What a board that registers rests on was written in several commits and
\* belongs together: the roots of its backend, and both halves of the key it will
\* sign with.  The key's two commits may be cut; for the roots, NVS writes succeed
\* and power is steady while credentials and roots are stored.
IdentityIsWhole == KeyPairMatches /\ RegistersSeeded

\* SAFETY.  aktualino_store.h, of have_creds: "a full device identity is present".
HaveCredsIsFull == job = "enrol" /\ HaveCreds => LoadCreds

\* LIVENESS.  While power is steady no board stays at the portal: it enrols and
\* restarts, however many wrong entries, failed joins, time syncs and answers come
\* first, and whatever NVS holds after factory resets that ran to their end and
\* power losses outside the storing of credentials and roots.  (Half an identity
\* does keep a board there: TornCredentials.cfg.)
BoardEnrols == <>[][~PowerLoss]_vars => []<>(pc # "portal")

\* LIVENESS.  aktualino_portal.c: the Wi-Fi is stored first "so a reboot mid-flow
\* resumes without the portal".
ResumesWithoutPortal ==
  <>[][~PowerLoss]_vars =>
    ((pc = "boot" /\ id.prov = None /\ Joins) ~> pc = "poll")

=============================================================================
