------------------------ MODULE Provisioning_proofs ------------------------
(***************************************************************************)
(* Theorems about Provisioning for every set of submissions, every bound   *)
(* and every set of faults that the theorem's assumptions allow.           *)
(*                                                                         *)
(* Each invariant is made inductive by what the enrolment has on flash at  *)
(* each of its steps.  Actions that rewrite one key, one entry or what the *)
(* attempt holds are first restated key by key (the Shape lemmas).         *)
(***************************************************************************)
EXTENDS Provisioning, TLAPS

Devices == 1 .. MaxDevices
Draws == 1 .. MaxDraws

\* The types, and those of what the enrolment holds.
Typed ==
  /\ TypeOK
  /\ got \in [device : Devices \cup {None}, nonce : Draws \cup {None}, key : Draws \cup {None}]
  /\ failed \in BOOLEAN
  /\ ecus \in [Draws -> {None} \cup [device : Devices, key : Draws]]

\* Only the portal's task and the enrolment at start have a job.
Quiet == pc \notin {"portal", "prov"} => job = "none"

\* What the enrolment has on flash at each of its last steps.
Ready ==
  /\ job \in {"pk", "sk", "keyed", "register", "manifest", "flag"} => LoadCreds
  /\ job \in {"pk", "sk"} => got.key # None
  /\ job = "sk" /\ ~failed => id.pk # None
  /\ job = "keyed" /\ ~failed => HaveEcuKey
  /\ job \in {"register", "manifest", "flag"} => HaveEcuKey

Base == Typed /\ Quiet /\ Ready

\* An attempt of a board that has its flag - the form is sent again before the
\* restart - finds its credentials, and its flag.
Resuming == {"none", "ssid", "pass", "join", "sntp", "run"}

\* A board is registered before its flag is set, and registers no more after.
Registered ==
  /\ LoadCreds /\ id.cert = id.pkey /\ HaveEcuKey /\ id.pk = id.sk
  /\ ecus[id.ecu_ser] = [device |-> id.cert, key |-> id.pk]

Enrolled ==
  /\ job = "manifest" =>
       id.cert = id.pkey /\ ecus[id.ecu_ser] = [device |-> id.cert, key |-> id.pk]
  /\ job = "flag" => Registered
  /\ id.prov # None /\ pc # "erase" => job \in Resuming \cup {"verify"} /\ Registered
  /\ job = "verify" /\ ~failed => id.prov # None

\* A serial that the board has or may come to have is registered by no other
\* device, and by none while the board has no credentials of its own.
Serials == {id.nonce, got.nonce, id.ecu_ser} \ {None}
Fetching == job \in {"nonce", "fetch", "cert", "pkey", "cacert", "ecu_ser"}
Own ==
  /\ \A s \in Serials : s <= draws
  /\ \A s \in Draws : ecus[s] # None => s <= draws
  /\ pc # "erase" => \A s \in Serials : ecus[s] # None => HaveCreds /\ ecus[s].device = id.cert
  /\ Fetching => \A s \in Serials : ecus[s] = None

\* Role versions were accepted for the identity that the board has.
Ours ==
  /\ pc # "erase" /\ tuf.versions # None => HaveCreds /\ tuf.versions = id.cert
  /\ Fetching => tuf.versions = None

\* The private half is written last.
Paired ==
  /\ KeyPairMatches
  /\ pc # "erase" /\ id.sk # None => id.pk = id.sk
  /\ job \in {"pk", "sk"} => id.sk = None
  /\ job = "sk" => id.pk = got.key

\* A board with credentials has its roots, but while both are being stored.
Seeded ==
  /\ ~failed
  /\ job = "seed_image" => tuf.director = "baked"
  /\ pc # "erase" /\ id.pkey # None /\ ~Storing => tuf.director = "baked" /\ tuf.image = "baked"

-----------------------------------------------------------------------------
\* What one NVS write of the enrolment does, said of each key.
Wrote(at, key, value, next) ==
  /\ job = at /\ job' = next
  /\ UNCHANGED <<tuf, pc, sub, assoc, got, draws, devices, ecus>>
  /\ DOMAIN id' = IdKeys
  /\ \A k \in IdKeys : k # key => id'[k] = id[k]
  /\ \/ id'[key] = value /\ UNCHANGED failed
     \/ "nvs" \in Faults /\ failed' = TRUE /\ id'[key] = id[key]

\* A write that fails or succeeds leaves every other key as it was.
LEMMA WriteShape ==
  ASSUME DOMAIN id = IdKeys, NEW at, NEW key \in IdKeys, NEW value, NEW next,
         Write(at, key, value, next)
  PROVE  Wrote(at, key, value, next)
<1>1. CASE id' = [id EXCEPT ![key] = value] /\ UNCHANGED failed
  BY <1>1 DEF Write, Wrote, cloud
<1>2. CASE "nvs" \in Faults /\ failed' = TRUE /\ UNCHANGED id
  BY <1>2 DEF Write, Wrote, cloud
<1> QED
  BY <1>1, <1>2 DEF Write

\* The writes of the enrolment, one key at a time.
LEMMA SavesShape ==
  ASSUME Typed
  PROVE  /\ SaveWifi => \/ Wrote("ssid", "ssid", sub.ssid, "pass")
                         \/ Wrote("pass", "pass", sub.pass, "join")
         /\ SaveCreds => \/ Wrote("cert", "cert", got.device, "pkey")
                          \/ Wrote("pkey", "pkey", got.device, "cacert")
                          \/ Wrote("cacert", "cacert", got.device, "ecu_ser")
                          \/ Wrote("ecu_ser", "ecu_ser", got.nonce, "saved")
         /\ SaveEcuKey => \/ Wrote("pk", "pk", got.key, "sk")
                           \/ Wrote("sk", "sk", got.key, "keyed")
         /\ SetProvisioned => Wrote("flag", "prov", "set", "verify")
<1>1. DOMAIN id = IdKeys
  BY DEF Typed, TypeOK
<1>2. \A at, key, value, next :
        key \in IdKeys /\ Write(at, key, value, next) => Wrote(at, key, value, next)
  BY <1>1, WriteShape
<1> QED
  BY <1>2 DEF SaveWifi, SaveCreds, SaveEcuKey, SetProvisioned, IdKeys

\* What fetching the serial's nonce does: the stored one, or a new draw that may
\* or may not be kept.
Nonced(at, next) ==
  /\ job = at /\ job' = next
  /\ UNCHANGED <<tuf, pc, sub, assoc, failed, devices, ecus>>
  /\ DOMAIN id' = IdKeys
  /\ \A k \in IdKeys : k # "nonce" => id'[k] = id[k]
  /\ got' \in [device : Devices \cup {None}, nonce : Draws \cup {None}, key : Draws \cup {None}]
  /\ got'.device = got.device /\ got'.key = got.key
  /\ \/ id.nonce # None /\ id'.nonce = id.nonce /\ got'.nonce = id.nonce /\ draws' = draws
     \/ /\ id.nonce = None /\ draws < MaxDraws /\ draws' = draws + 1
        /\ got'.nonce = draws' /\ id'.nonce \in {None, draws'}

\* The nonce that an attempt uses is the stored one, or drawn in this step.
LEMMA NonceShape ==
  ASSUME Typed, NEW at, NEW next, IdNonce(at, next)
  PROVE  Nonced(at, next)
<1> USE ProvisioningAssumption DEF Typed, TypeOK, IdKeys, Devices, Draws, cloud
<1>1. CASE id.nonce # None
  BY <1>1 DEF IdNonce, Nonced
<1>2. CASE id.nonce = None
  <2>1. /\ draws < MaxDraws /\ draws' = draws + 1 /\ got' = [got EXCEPT !.nonce = draws']
        /\ UNCHANGED <<tuf, pc, sub, assoc, failed, devices, ecus>> /\ job = at /\ job' = next
    BY <1>2 DEF IdNonce
  <2>2. got' \in [device : Devices \cup {None}, nonce : Draws \cup {None},
       key : Draws \cup {None}]
        /\ got'.device = got.device /\ got'.key = got.key /\ got'.nonce = draws'
    BY <2>1
  <2>3. CASE id' = [id EXCEPT !.nonce = draws']
    BY <1>2, <2>1, <2>2, <2>3 DEF Nonced
  <2>4. CASE UNCHANGED id
    BY <1>2, <2>1, <2>2, <2>4 DEF Nonced
  <2> QED
    BY <1>2, <2>3, <2>4 DEF IdNonce
<1> QED
  BY <1>1, <1>2

\* What the check of credentials and key does: it fails, goes on with the stored
\* key, or draws a new one.
Enrolling ==
  /\ job = "enrol"
  /\ UNCHANGED <<id, tuf, sub, assoc, failed, devices, ecus>>
  /\ got' \in [device : Devices \cup {None}, nonce : Draws \cup {None}, key : Draws \cup {None}]
  /\ got'.device = got.device /\ got'.nonce = got.nonce
  /\ \/ ~LoadCreds /\ Fail /\ draws' = draws
     \/ LoadCreds /\ HaveEcuKey /\ job' = "register" /\ UNCHANGED <<pc, draws>>
     \/ /\ LoadCreds /\ ~HaveEcuKey /\ job' = "pk" /\ UNCHANGED pc
        /\ draws < MaxDraws /\ draws' = draws + 1 /\ got'.key = draws'

\* Enrol is one of three things.
LEMMA EnrolShape == ASSUME Typed, Enrol PROVE Enrolling
<1> USE ProvisioningAssumption DEF Typed, TypeOK, Devices, Draws, cloud
<1>1. CASE ~LoadCreds
  BY <1>1 DEF Enrol, Enrolling
<1>2. CASE LoadCreds /\ HaveEcuKey
  BY <1>2 DEF Enrol, Enrolling
<1>3. CASE LoadCreds /\ ~HaveEcuKey
  <2>1. /\ draws < MaxDraws /\ draws' = draws + 1 /\ got' = [got EXCEPT !.key = draws']
        /\ UNCHANGED <<id, tuf, sub, assoc, failed, devices, ecus, pc>> /\ job = "enrol" /\ job' = "pk"
    BY <1>3 DEF Enrol
  <2>2. got' \in [device : Devices \cup {None}, nonce : Draws \cup {None},
       key : Draws \cup {None}]
        /\ got'.device = got.device /\ got'.nonce = got.nonce /\ got'.key = draws'
    <3>1. draws' \in Draws /\ got \in [device : Devices \cup {None},
         nonce : Draws \cup {None}, key : Draws \cup {None}]
      BY <2>1
    <3> QED
      BY <2>1, <3>1
  <2> QED
    BY <1>3, <2>1, <2>2 DEF Enrolling
<1> QED
  BY <1>1, <1>2, <1>3

\* What a fetch does: credentials of a new registration, or a failed attempt.
Fetched ==
  /\ job = "fetch" /\ failed' = FALSE
  /\ UNCHANGED <<id, tuf, sub, assoc, draws, ecus>>
  /\ devices' \in {devices, devices + 1} /\ devices' \in 0 .. MaxDevices
  /\ got' \in [device : Devices \cup {None}, nonce : Draws \cup {None}, key : Draws \cup {None}]
  /\ got'.nonce = got.nonce /\ got'.key = got.key
  /\ \/ /\ devices' = devices + 1 /\ got'.device = devices' /\ job' = "cert" /\ UNCHANGED pc
     \/ Fail /\ UNCHANGED got

\* A fetch that is answered brings a registration that is in range.
LEMMA FetchShape ==
  ASSUME Typed, NEW d \in BOOLEAN, NEW a \in BOOLEAN, Fetch(d, a)
  PROVE  Fetched
<1> USE ProvisioningAssumption DEF Typed, TypeOK, Devices, Draws
<1>1. CASE a
  <2>1. /\ devices' = devices + 1 /\ devices < MaxDevices /\ got' = [got EXCEPT !.device = devices']
        /\ job' = "cert" /\ UNCHANGED pc
    BY <1>1 DEF Fetch
  <2>2. got' \in [device : Devices \cup {None}, nonce : Draws \cup {None},
       key : Draws \cup {None}]
        /\ got'.nonce = got.nonce /\ got'.key = got.key /\ got'.device = devices'
    <3>1. devices' \in Devices /\ got \in [device : Devices \cup {None},
         nonce : Draws \cup {None}, key : Draws \cup {None}]
      BY <2>1
    <3> QED
      BY <2>1, <3>1
  <2> QED
    BY <2>1, <2>2 DEF Fetch, Fetched
<1>2. CASE ~a
  BY <1>2 DEF Fetch, Fetched
<1> QED
  BY <1>1, <1>2

\* What a registration does: the list gets the board's entry or stays as it is.
Registering ==
  /\ job = "register"
  /\ UNCHANGED <<id, tuf, sub, assoc, got, failed, draws, devices>>
  /\ ecus' \in [Draws -> {None} \cup [device : Devices, key : Draws]]
  /\ \A s \in Draws : s # id.ecu_ser => ecus'[s] = ecus[s]
  /\ \/ Registers /\ ecus'[id.ecu_ser] = [device |-> id.cert, key |-> id.pk]
     \/ ecus' = ecus
  /\ \/ /\ Registers /\ ecus'[id.ecu_ser] = [device |-> id.cert, key |-> id.pk]
        /\ job' = "manifest" /\ UNCHANGED pc
     \/ Fail

\* A board that goes on after registering is registered.
LEMMA RegisterShape ==
  ASSUME Typed, Ready, NEW d \in BOOLEAN, NEW a \in BOOLEAN, RegisterEcu(d, a) PROVE Registering
<1> USE ProvisioningAssumption DEF Typed, TypeOK, Devices, Draws
<1>1. job = "register" /\ UNCHANGED <<id, tuf, sub, assoc, got, failed, draws, devices>>
  BY DEF RegisterEcu
<1>2. id.ecu_ser \in Draws /\ id.cert \in Devices /\ id.pk \in Draws
  BY <1>1 DEF Ready, LoadCreds, HaveCreds, HaveEcuKey
<1>3. CASE d /\ Registers
  <2>1. ecus' = [ecus EXCEPT ![id.ecu_ser] = [device |-> id.cert, key |-> id.pk]]
    BY <1>3 DEF RegisterEcu
  <2>2. [device |-> id.cert, key |-> id.pk] \in [device : Devices, key : Draws]
    BY <1>2
  <2>3. /\ ecus' \in [Draws -> {None} \cup [device : Devices, key : Draws]]
        /\ \A s \in Draws : s # id.ecu_ser => ecus'[s] = ecus[s]
        /\ ecus'[id.ecu_ser] = [device |-> id.cert, key |-> id.pk]
    BY <1>2, <2>1, <2>2
  <2> QED
    BY <1>1, <1>3, <2>3 DEF Registering, RegisterEcu, Request
<1>4. CASE ~(d /\ Registers)
  <2>1. ecus' = ecus /\ Fail
    BY <1>4 DEF RegisterEcu, Request
  <2> QED
    BY <1>1, <2>1 DEF Registering
<1> QED
  BY <1>3, <1>4

\* A step keeps the types.
LEMMA TypeStep == Base /\ [Next]_vars => Typed'
<1> SUFFICES ASSUME Base, [Next]_vars PROVE Typed'
  OBVIOUS
<1> USE ProvisioningAssumption DEF Base, Typed, Quiet, Ready, TypeOK, IdKeys, TufKeys,
        Places, Jobs, NoZip, cloud, Devices, Draws
<1>1. CASE Boot \/ JoinAtBoot \/ ProvisionIfNeeded \/ SntpFromPortal \/ Run
           \/ HoldButton \/ LoseLink \/ UNCHANGED vars
  BY <1>1 DEF Boot, JoinAtBoot, ProvisionIfNeeded, SntpFromPortal, Run, HoldButton, LoseLink, vars
<1>2. CASE EraseDone \/ RestartAfterEnrolment \/ PowerLoss
  <2>1. Reset /\ UNCHANGED <<id, tuf, draws, devices, ecus>>
    BY <1>2 DEF EraseDone, RestartAfterEnrolment, PowerLoss, cloud
  <2>2. UNCHANGED <<id, tuf, draws, devices, ecus>>
        /\ pc' = "boot" /\ job' = "none" /\ sub' = None /\ assoc' = None
        /\ got' = NoZip /\ failed' = FALSE
    BY <2>1 DEF Reset
  <2> QED
    BY <1>2, <2>2 DEF EraseDone, RestartAfterEnrolment, PowerLoss
<1>3. CASE \E k \in IdKeys : EraseId(k)
  <2> PICK k \in IdKeys : EraseId(k)
    BY <1>3
  <2>1. DOMAIN id' = IdKeys /\ \A i \in IdKeys : id'[i] \in {id[i], None}
    BY DEF EraseId, cloud
  <2>2. pc = "erase" /\ UNCHANGED <<tuf, pc, job, sub, assoc, got, failed, draws, devices, ecus>>
    BY DEF EraseId, cloud
  <2> QED
    BY <2>1, <2>2
<1>4. CASE \E k \in TufKeys : EraseTuf(k)
  <2> PICK k \in TufKeys : EraseTuf(k)
    BY <1>4
  <2>1. DOMAIN tuf' = TufKeys /\ \A i \in TufKeys : tuf'[i] \in {tuf[i], None}
    BY DEF EraseTuf, cloud
  <2>2. pc = "erase" /\ UNCHANGED <<id, pc, job, sub, assoc, got, failed, draws, devices, ecus>>
    BY DEF EraseTuf, cloud
  <2> QED
    BY <2>1, <2>2
<1>5. CASE SaveWifi
  <2>1. \/ Wrote("ssid", "ssid", sub.ssid, "pass")
        \/ Wrote("pass", "pass", sub.pass, "join")
    BY <1>5, SavesShape DEF Base
  <2> QED
    BY <2>1 DEF Wrote
<1>6. CASE JoinFromPortal \/ JoinFails \/ SntpFails
  BY <1>6 DEF JoinFromPortal, JoinFails, SntpFails, Fail
<1>7. CASE IdNonce("nonce", "fetch")
  <2>1. Nonced("nonce", "fetch")
    BY <1>7, NonceShape DEF Base
  <2> QED
    BY <2>1 DEF Nonced
<1>8. CASE IdNonce("run_nonce", "enrol")
  <2>1. Nonced("run_nonce", "enrol")
    BY <1>8, NonceShape DEF Base
  <2> QED
    BY <2>1 DEF Nonced
<1>9. CASE SaveCreds
  <2>1. \/ Wrote("cert", "cert", got.device, "pkey")
        \/ Wrote("pkey", "pkey", got.device, "cacert")
        \/ Wrote("cacert", "cacert", got.device, "ecu_ser")
        \/ Wrote("ecu_ser", "ecu_ser", got.nonce, "saved")
    BY <1>9, SavesShape DEF Base
  <2> QED
    BY <2>1 DEF Wrote
<1>10. CASE Saved
  BY <1>10 DEF Saved, Fail
<1>11. CASE SeedRoots
  BY <1>11 DEF SeedRoots, Seed
<1>12. CASE Enrol
  <2>1. Enrolling
    BY <1>12, EnrolShape DEF Base
  <2> QED
    BY <2>1 DEF Enrolling, Fail
<1>13. CASE SaveEcuKey
  <2>1. \/ Wrote("pk", "pk", got.key, "sk")
        \/ Wrote("sk", "sk", got.key, "keyed")
    BY <1>13, SavesShape DEF Base
  <2> QED
    BY <2>1 DEF Wrote
<1>14. CASE Keyed
  BY <1>14 DEF Keyed, Fail
<1>15. CASE SetProvisioned
  <2>1. Wrote("flag", "prov", "set", "verify")
    BY <1>15, SavesShape DEF Base
  <2> QED
    BY <2>1 DEF Wrote
<1>16. CASE Verify
  BY <1>16 DEF Verify, PollOnce, Pinned
<1>17. CASE Poll
  BY <1>17 DEF Poll, PollOnce, Pinned
<1>18. CASE \E d, a \in BOOLEAN : Fetch(d, a)
  <2>1. Fetched
    BY <1>18, FetchShape DEF Base
  <2> QED
    BY <2>1 DEF Fetched, Fail
<1>19. CASE \E d, a \in BOOLEAN : RegisterEcu(d, a)
  <2>1. Registering
    BY <1>19, RegisterShape DEF Base
  <2> QED
    BY <2>1 DEF Registering, Fail
<1>20. CASE \E d, a \in BOOLEAN : FirstManifest(d, a)
  BY <1>20 DEF FirstManifest, Request, Fail
<1>21. CASE \E s \in Submissions : Submit(s)
  BY <1>21 DEF Submit
<1>22. QED
  BY <1>1, <1>2, <1>3, <1>4, <1>5, <1>6, <1>7, <1>8, <1>9, <1>10, <1>11, <1>12, <1>13, <1>14,
       <1>15, <1>16, <1>17, <1>18, <1>19, <1>20, <1>21 DEF Next, Device, Requests

\* A step keeps what the enrolment relies on at each of its stages.
LEMMA ReadyStep == Base /\ [Next]_vars => (Quiet /\ Ready)'
<1> SUFFICES ASSUME Base, [Next]_vars PROVE (Quiet /\ Ready)'
  OBVIOUS
<1> USE ProvisioningAssumption DEF Base, Typed, TypeOK, Quiet, Ready, IdKeys, TufKeys,
        Places, Jobs, NoZip, cloud, Devices, Draws, LoadCreds, HaveCreds, HaveEcuKey
<1>1. CASE Boot \/ JoinAtBoot \/ ProvisionIfNeeded \/ SntpFromPortal \/ Run
           \/ HoldButton \/ LoseLink \/ UNCHANGED vars
  BY <1>1 DEF Boot, JoinAtBoot, ProvisionIfNeeded, SntpFromPortal, Run, HoldButton, LoseLink, vars
<1>2. CASE EraseDone \/ RestartAfterEnrolment \/ PowerLoss
  <2>1. Reset /\ UNCHANGED <<id, tuf, draws, devices, ecus>>
    BY <1>2 DEF EraseDone, RestartAfterEnrolment, PowerLoss, cloud
  <2>2. UNCHANGED <<id, tuf, draws, devices, ecus>>
        /\ pc' = "boot" /\ job' = "none" /\ sub' = None /\ assoc' = None
        /\ got' = NoZip /\ failed' = FALSE
    BY <2>1 DEF Reset
  <2> QED
    BY <1>2, <2>2 DEF EraseDone, RestartAfterEnrolment, PowerLoss
<1>3. CASE \E k \in IdKeys : EraseId(k)
  <2> PICK k \in IdKeys : EraseId(k)
    BY <1>3
  <2>1. DOMAIN id' = IdKeys /\ \A i \in IdKeys : id'[i] \in {id[i], None}
    BY DEF EraseId, cloud
  <2>2. pc = "erase" /\ UNCHANGED <<tuf, pc, job, sub, assoc, got, failed, draws, devices, ecus>>
    BY DEF EraseId, cloud
  <2> QED
    BY <2>1, <2>2
<1>4. CASE \E k \in TufKeys : EraseTuf(k)
  <2> PICK k \in TufKeys : EraseTuf(k)
    BY <1>4
  <2>1. DOMAIN tuf' = TufKeys /\ \A i \in TufKeys : tuf'[i] \in {tuf[i], None}
    BY DEF EraseTuf, cloud
  <2>2. pc = "erase" /\ UNCHANGED <<id, pc, job, sub, assoc, got, failed, draws, devices, ecus>>
    BY DEF EraseTuf, cloud
  <2> QED
    BY <2>1, <2>2
<1>5. CASE SaveWifi
  <2>1. \/ Wrote("ssid", "ssid", sub.ssid, "pass")
        \/ Wrote("pass", "pass", sub.pass, "join")
    BY <1>5, SavesShape DEF Base
  <2> QED
    BY <2>1 DEF Wrote
<1>6. CASE JoinFromPortal \/ JoinFails \/ SntpFails
  BY <1>6 DEF JoinFromPortal, JoinFails, SntpFails, Fail
<1>7. CASE IdNonce("nonce", "fetch")
  <2>1. Nonced("nonce", "fetch")
    BY <1>7, NonceShape DEF Base
  <2> QED
    BY <2>1 DEF Nonced
<1>8. CASE IdNonce("run_nonce", "enrol")
  <2>1. Nonced("run_nonce", "enrol")
    BY <1>8, NonceShape DEF Base
  <2> QED
    BY <2>1 DEF Nonced
<1>9. CASE SaveCreds
  <2>1. \/ Wrote("cert", "cert", got.device, "pkey")
        \/ Wrote("pkey", "pkey", got.device, "cacert")
        \/ Wrote("cacert", "cacert", got.device, "ecu_ser")
        \/ Wrote("ecu_ser", "ecu_ser", got.nonce, "saved")
    BY <1>9, SavesShape DEF Base
  <2> QED
    BY <2>1 DEF Wrote
<1>10. CASE Saved
  BY <1>10 DEF Saved, Fail
<1>11. CASE SeedRoots
  BY <1>11 DEF SeedRoots, Seed
<1>12. CASE Enrol
  <2>1. Enrolling
    BY <1>12, EnrolShape DEF Base
  <2> QED
    BY <2>1 DEF Enrolling, Fail
<1>13. CASE SaveEcuKey
  <2>1. \/ Wrote("pk", "pk", got.key, "sk")
        \/ Wrote("sk", "sk", got.key, "keyed")
    BY <1>13, SavesShape DEF Base
  <2> QED
    BY <2>1 DEF Wrote
<1>14. CASE Keyed
  BY <1>14 DEF Keyed, Fail
<1>15. CASE SetProvisioned
  <2>1. Wrote("flag", "prov", "set", "verify")
    BY <1>15, SavesShape DEF Base
  <2> QED
    BY <2>1 DEF Wrote
<1>16. CASE Verify
  BY <1>16 DEF Verify, PollOnce, Pinned
<1>17. CASE Poll
  BY <1>17 DEF Poll, PollOnce, Pinned
<1>18. CASE \E d, a \in BOOLEAN : Fetch(d, a)
  <2>1. Fetched
    BY <1>18, FetchShape DEF Base
  <2> QED
    BY <2>1 DEF Fetched, Fail
<1>19. CASE \E d, a \in BOOLEAN : RegisterEcu(d, a)
  <2>1. Registering
    BY <1>19, RegisterShape DEF Base
  <2> QED
    BY <2>1 DEF Registering, Fail
<1>20. CASE \E d, a \in BOOLEAN : FirstManifest(d, a)
  BY <1>20 DEF FirstManifest, Request, Fail
<1>21. CASE \E s \in Submissions : Submit(s)
  BY <1>21 DEF Submit
<1>22. QED
  BY <1>1, <1>2, <1>3, <1>4, <1>5, <1>6, <1>7, <1>8, <1>9, <1>10, <1>11, <1>12, <1>13, <1>14,
       <1>15, <1>16, <1>17, <1>18, <1>19, <1>20, <1>21 DEF Next, Device, Requests

\* A step keeps a provisioned board registered.
LEMMA EnrolledStep ==
  "erase_loss" \notin Faults /\ Base /\ Enrolled /\ [Next]_vars
    => Enrolled'
<1> SUFFICES ASSUME "erase_loss" \notin Faults, Base, Enrolled,
     [Next]_vars PROVE Enrolled'
  OBVIOUS
<1> USE ProvisioningAssumption DEF Base, Typed, TypeOK, Quiet, Ready, IdKeys, TufKeys,
        Places, Jobs, NoZip, cloud, Devices, Draws, LoadCreds, HaveCreds, HaveEcuKey,
             Enrolled, Registered, Resuming
<1>1. CASE Boot \/ JoinAtBoot \/ ProvisionIfNeeded \/ SntpFromPortal \/ Run
           \/ HoldButton \/ LoseLink \/ UNCHANGED vars
  BY <1>1 DEF Boot, JoinAtBoot, ProvisionIfNeeded, SntpFromPortal, Run, HoldButton, LoseLink, vars
<1>2. CASE EraseDone \/ RestartAfterEnrolment \/ PowerLoss
  <2>1. Reset /\ UNCHANGED <<id, tuf, draws, devices, ecus>>
    BY <1>2 DEF EraseDone, RestartAfterEnrolment, PowerLoss, cloud
  <2>2. UNCHANGED <<id, tuf, draws, devices, ecus>>
        /\ pc' = "boot" /\ job' = "none" /\ sub' = None /\ assoc' = None
        /\ got' = NoZip /\ failed' = FALSE
    BY <2>1 DEF Reset
  <2> QED
    BY <1>2, <2>2 DEF EraseDone, RestartAfterEnrolment, PowerLoss
<1>3. CASE \E k \in IdKeys : EraseId(k)
  <2> PICK k \in IdKeys : EraseId(k)
    BY <1>3
  <2>1. DOMAIN id' = IdKeys /\ \A i \in IdKeys : id'[i] \in {id[i], None}
    BY DEF EraseId, cloud
  <2>2. pc = "erase" /\ UNCHANGED <<tuf, pc, job, sub, assoc, got, failed, draws, devices, ecus>>
    BY DEF EraseId, cloud
  <2> QED
    BY <2>1, <2>2
<1>4. CASE \E k \in TufKeys : EraseTuf(k)
  <2> PICK k \in TufKeys : EraseTuf(k)
    BY <1>4
  <2>1. DOMAIN tuf' = TufKeys /\ \A i \in TufKeys : tuf'[i] \in {tuf[i], None}
    BY DEF EraseTuf, cloud
  <2>2. pc = "erase" /\ UNCHANGED <<id, pc, job, sub, assoc, got, failed, draws, devices, ecus>>
    BY DEF EraseTuf, cloud
  <2> QED
    BY <2>1, <2>2
<1>5. CASE SaveWifi
  <2>1. \/ Wrote("ssid", "ssid", sub.ssid, "pass")
        \/ Wrote("pass", "pass", sub.pass, "join")
    BY <1>5, SavesShape DEF Base
  <2> QED
    BY <2>1 DEF Wrote
<1>6. CASE JoinFromPortal \/ JoinFails \/ SntpFails
  BY <1>6 DEF JoinFromPortal, JoinFails, SntpFails, Fail
<1>7. CASE IdNonce("nonce", "fetch")
  <2>1. Nonced("nonce", "fetch")
    BY <1>7, NonceShape DEF Base
  <2> QED
    BY <2>1 DEF Nonced
<1>8. CASE IdNonce("run_nonce", "enrol")
  <2>1. Nonced("run_nonce", "enrol")
    BY <1>8, NonceShape DEF Base
  <2> QED
    BY <2>1 DEF Nonced
<1>9. CASE SaveCreds
  <2>1. \/ Wrote("cert", "cert", got.device, "pkey")
        \/ Wrote("pkey", "pkey", got.device, "cacert")
        \/ Wrote("cacert", "cacert", got.device, "ecu_ser")
        \/ Wrote("ecu_ser", "ecu_ser", got.nonce, "saved")
    BY <1>9, SavesShape DEF Base
  <2> QED
    BY <2>1 DEF Wrote
<1>10. CASE Saved
  BY <1>10 DEF Saved, Fail
<1>11. CASE SeedRoots
  BY <1>11 DEF SeedRoots, Seed
<1>12. CASE Enrol
  <2>1. Enrolling
    BY <1>12, EnrolShape DEF Base
  <2> QED
    BY <2>1 DEF Enrolling, Fail
<1>13. CASE SaveEcuKey
  <2>1. \/ Wrote("pk", "pk", got.key, "sk")
        \/ Wrote("sk", "sk", got.key, "keyed")
    BY <1>13, SavesShape DEF Base
  <2> QED
    BY <2>1 DEF Wrote
<1>14. CASE Keyed
  BY <1>14 DEF Keyed, Fail
<1>15. CASE SetProvisioned
  <2>1. Wrote("flag", "prov", "set", "verify")
    BY <1>15, SavesShape DEF Base
  <2> QED
    BY <2>1 DEF Wrote
<1>16. CASE Verify
  BY <1>16 DEF Verify, PollOnce, Pinned
<1>17. CASE Poll
  BY <1>17 DEF Poll, PollOnce, Pinned
<1>18. CASE \E d, a \in BOOLEAN : Fetch(d, a)
  <2>1. Fetched
    BY <1>18, FetchShape DEF Base
  <2> QED
    BY <2>1 DEF Fetched, Fail
<1>19. CASE \E d, a \in BOOLEAN : RegisterEcu(d, a)
  <2>1. Registering
    BY <1>19, RegisterShape DEF Base
  <2>2. CASE Registers /\ ecus'[id.ecu_ser] = [device |-> id.cert, key |-> id.pk]
    BY <2>1, <2>2 DEF Registering, Registers, Fail
  <2>3. CASE ecus' = ecus /\ Fail
    BY <2>1, <2>3 DEF Registering, Fail
  <2> QED
    BY <2>1, <2>2, <2>3 DEF Registering
<1>20. CASE \E d, a \in BOOLEAN : FirstManifest(d, a)
  BY <1>20 DEF FirstManifest, Request, Fail
<1>21. CASE \E s \in Submissions : Submit(s)
  BY <1>21 DEF Submit
<1>22. QED
  BY <1>1, <1>2, <1>3, <1>4, <1>5, <1>6, <1>7, <1>8, <1>9, <1>10, <1>11, <1>12, <1>13, <1>14,
       <1>15, <1>16, <1>17, <1>18, <1>19, <1>20, <1>21 DEF Next, Device, Requests

\* A step keeps the board's serials its own.
LEMMA OwnStep == "erase_loss" \notin Faults /\ Base /\ Own /\ [Next]_vars => Own'
<1> SUFFICES ASSUME "erase_loss" \notin Faults, Base, Own, [Next]_vars PROVE Own'
  OBVIOUS
<1>t. DOMAIN id = IdKeys /\ (job # "none" => pc \in {"portal", "prov"})
  BY DEF Base, Typed, TypeOK, Quiet
<1>1. ASSUME Serials' \subseteq Serials, UNCHANGED <<draws, ecus>>, (Fetching' => Fetching),
             (pc' # "erase" => pc # "erase" /\ id'.cert = id.cert /\ id'.pkey = id.pkey)
      PROVE  Own'
  BY <1>1 DEF Own, HaveCreds
<1>2. CASE Boot \/ JoinAtBoot \/ ProvisionIfNeeded \/ Run \/ HoldButton
           \/ LoseLink \/ UNCHANGED vars
  <2>1. Serials' \subseteq Serials /\ UNCHANGED <<draws, ecus>> /\ (Fetching' => Fetching)
        /\ (pc' # "erase" => pc # "erase" /\ id'.cert = id.cert /\ id'.pkey = id.pkey)
    BY <1>t, <1>2 DEF Serials, Fetching, Boot, JoinAtBoot, ProvisionIfNeeded, Run,
         HoldButton, LoseLink, vars, cloud
  <2> QED
    BY <2>1, <1>1
<1>3. CASE SntpFromPortal
  BY <1>t, <1>3 DEF SntpFromPortal, cloud, Base, Quiet, Own, Serials, Fetching, HaveCreds
<1>4. CASE EraseDone
  BY <1>t, <1>4 DEF EraseDone, Reset, cloud, NoZip, IdKeys, Own, Serials, Fetching
<1>5. CASE RestartAfterEnrolment \/ PowerLoss
  <2>1. Reset /\ UNCHANGED <<id, draws, ecus>> /\ pc # "erase"
    BY <1>t, <1>5 DEF RestartAfterEnrolment, PowerLoss, cloud
  <2>2. Serials' \subseteq Serials /\ UNCHANGED <<draws, ecus>> /\ (Fetching' => Fetching)
        /\ (pc' # "erase" => pc # "erase" /\ id'.cert = id.cert /\ id'.pkey = id.pkey)
    BY <2>1 DEF Reset, NoZip, Serials, Fetching
  <2> QED
    BY <2>2, <1>1
<1>6. CASE \E k \in IdKeys : EraseId(k)
  <2> PICK k \in IdKeys : EraseId(k)
    BY <1>6
  <2>1. DOMAIN id' = IdKeys /\ \A i \in IdKeys : id'[i] \in {id[i], None}
    BY <1>t DEF EraseId, cloud
  <2>2. pc = "erase" /\ UNCHANGED <<tuf, pc, job, sub, assoc, got, failed, draws, devices, ecus>>
    BY DEF EraseId, cloud
  <2>3. UNCHANGED <<draws, ecus, job>> /\ got'.nonce = got.nonce /\ id'.nonce \in {id.nonce,
       None}
        /\ id'.ecu_ser \in {id.ecu_ser, None} /\ pc' = "erase"
    BY <2>1, <2>2 DEF IdKeys
  <2>4. Serials' \subseteq Serials /\ UNCHANGED <<draws, ecus>> /\ (Fetching' => Fetching)
        /\ (pc' # "erase" => pc # "erase" /\ id'.cert = id.cert /\ id'.pkey = id.pkey)
    BY <2>3 DEF Serials, Fetching
  <2> QED
    BY <2>4, <1>1
<1>7. CASE \E k \in TufKeys : EraseTuf(k)
  <2>1. Serials' \subseteq Serials /\ UNCHANGED <<draws, ecus>> /\ (Fetching' => Fetching)
        /\ (pc' # "erase" => pc # "erase" /\ id'.cert = id.cert /\ id'.pkey = id.pkey)
    BY <1>t, <1>7 DEF Serials, Fetching, EraseTuf, cloud
  <2> QED
    BY <2>1, <1>1
<1>8. CASE SaveWifi
  <2>1. \/ Wrote("ssid", "ssid", sub.ssid, "pass")
        \/ Wrote("pass", "pass", sub.pass, "join")
    BY <1>t, <1>8, SavesShape DEF Base
  <2>2. Serials' \subseteq Serials /\ UNCHANGED <<draws, ecus>> /\ (Fetching' => Fetching)
        /\ (pc' # "erase" => pc # "erase" /\ id'.cert = id.cert /\ id'.pkey = id.pkey)
    BY <2>1 DEF Wrote, IdKeys, Serials, Fetching
  <2> QED
    BY <2>2, <1>1
<1>9. CASE JoinFromPortal \/ JoinFails \/ SntpFails
  <2>1. Serials' \subseteq Serials /\ UNCHANGED <<draws, ecus>> /\ (Fetching' => Fetching)
        /\ (pc' # "erase" => pc # "erase" /\ id'.cert = id.cert /\ id'.pkey = id.pkey)
    BY <1>t, <1>9 DEF Serials, Fetching, JoinFromPortal, JoinFails, SntpFails, Fail, cloud
  <2> QED
    BY <2>1, <1>1
<1>10. CASE IdNonce("nonce", "fetch")
  <2> USE ProvisioningAssumption DEF Base, Typed, TypeOK, Quiet, Ready, IdKeys, TufKeys,
          Places, Jobs, NoZip, cloud, Devices, Draws, LoadCreds, HaveCreds, HaveEcuKey,
        Own, Serials, Fetching
  <2>1. Nonced("nonce", "fetch")
    BY <1>t, <1>10, NonceShape DEF Base
  <2>2. CASE id.nonce # None
    BY <2>1, <2>2 DEF Nonced
  <2>3. CASE id.nonce = None
    <3>1. draws \in Nat /\ draws' = draws + 1 /\ got'.nonce = draws' /\ id'.nonce \in {None,
         draws'}
      BY <2>1, <2>3 DEF Nonced
    <3>2. draws' \in Draws /\ ecus[draws'] = None
      BY <2>1, <2>3 DEF Nonced
    <3>3. \A s \in Draws : s <= draws => s <= draws'
      BY <3>1
    <3>4. /\ Serials' \subseteq {draws', id.ecu_ser} \ {None}
          /\ Serials \subseteq Draws
      BY <2>1, <3>1 DEF Nonced
    <3>5. ecus' = ecus /\ pc' = pc /\ UNCHANGED <<id.cert, id.pkey, id.ecu_ser>>
      BY <2>1 DEF Nonced
    <3>6. \A s \in Serials' : s = draws' \/ (s = id.ecu_ser /\ s \in Serials)
      BY <3>4
    <3>7. \A s \in Serials' : s <= draws'
      <4> TAKE s \in Serials'
      <4>1. CASE s = draws'
        BY <3>1, <4>1
      <4>2. CASE s = id.ecu_ser /\ s \in Serials
        <5>1. s \in Draws /\ s <= draws
          BY <3>4, <4>2
        <5> QED
          BY <3>3, <5>1
      <4> QED
        BY <3>6, <4>1, <4>2
    <3>8. \A s \in Draws : ecus'[s] # None => s <= draws'
      BY <3>3, <3>5
    <3>9. pc' # "erase" => \A s \in Serials' : ecus'[s] # None =>
            HaveCreds' /\ ecus'[s].device = id'.cert
      BY <3>2, <3>5, <3>6
    <3>10. Fetching' => \A s \in Serials' : ecus'[s] = None
      BY <2>1, <3>2, <3>5, <3>6 DEF Nonced
    <3> QED
      BY <3>7, <3>8, <3>9, <3>10
  <2> QED
    BY <2>2, <2>3
<1>11. CASE IdNonce("run_nonce", "enrol")
  <2> USE ProvisioningAssumption DEF Base, Typed, TypeOK, Quiet, Ready, IdKeys, TufKeys,
          Places, Jobs, NoZip, cloud, Devices, Draws, LoadCreds, HaveCreds, HaveEcuKey,
        Own, Serials, Fetching
  <2>1. Nonced("run_nonce", "enrol")
    BY <1>t, <1>11, NonceShape DEF Base
  <2>2. CASE id.nonce # None
    BY <2>1, <2>2 DEF Nonced
  <2>3. CASE id.nonce = None
    <3>1. draws \in Nat /\ draws' = draws + 1 /\ got'.nonce = draws' /\ id'.nonce \in {None,
         draws'}
      BY <2>1, <2>3 DEF Nonced
    <3>2. draws' \in Draws /\ ecus[draws'] = None
      BY <2>1, <2>3 DEF Nonced
    <3>3. \A s \in Draws : s <= draws => s <= draws'
      BY <3>1
    <3>4. /\ Serials' \subseteq {draws', id.ecu_ser} \ {None}
          /\ Serials \subseteq Draws
      BY <2>1, <3>1 DEF Nonced
    <3>5. ecus' = ecus /\ pc' = pc /\ UNCHANGED <<id.cert, id.pkey, id.ecu_ser>>
      BY <2>1 DEF Nonced
    <3>6. \A s \in Serials' : s = draws' \/ (s = id.ecu_ser /\ s \in Serials)
      BY <3>4
    <3>7. \A s \in Serials' : s <= draws'
      <4> TAKE s \in Serials'
      <4>1. CASE s = draws'
        BY <3>1, <4>1
      <4>2. CASE s = id.ecu_ser /\ s \in Serials
        <5>1. s \in Draws /\ s <= draws
          BY <3>4, <4>2
        <5> QED
          BY <3>3, <5>1
      <4> QED
        BY <3>6, <4>1, <4>2
    <3>8. \A s \in Draws : ecus'[s] # None => s <= draws'
      BY <3>3, <3>5
    <3>9. pc' # "erase" => \A s \in Serials' : ecus'[s] # None =>
            HaveCreds' /\ ecus'[s].device = id'.cert
      BY <3>2, <3>5, <3>6
    <3>10. Fetching' => \A s \in Serials' : ecus'[s] = None
      BY <2>1, <3>2, <3>5, <3>6 DEF Nonced
    <3> QED
      BY <3>7, <3>8, <3>9, <3>10
  <2> QED
    BY <2>2, <2>3
<1>12. CASE SaveCreds
  <2> USE ProvisioningAssumption DEF Base, Typed, TypeOK, Quiet, Ready, IdKeys, TufKeys,
          Places, Jobs, NoZip, cloud, Devices, Draws, LoadCreds, HaveCreds, HaveEcuKey,
        Own, Serials, Fetching
  <2>1. \/ Wrote("cert", "cert", got.device, "pkey")
        \/ Wrote("pkey", "pkey", got.device, "cacert")
        \/ Wrote("cacert", "cacert", got.device, "ecu_ser")
        \/ Wrote("ecu_ser", "ecu_ser", got.nonce, "saved")
    BY <1>t, <1>12, SavesShape DEF Base
  <2> QED
    BY <2>1 DEF Wrote
<1>13. CASE Saved
  <2>1. Serials' \subseteq Serials /\ UNCHANGED <<draws, ecus>> /\ (Fetching' => Fetching)
        /\ (pc' # "erase" => pc # "erase" /\ id'.cert = id.cert /\ id'.pkey = id.pkey)
    BY <1>t, <1>13 DEF Serials, Fetching, Saved, Fail, cloud
  <2> QED
    BY <2>1, <1>1
<1>14. CASE SeedRoots
  <2>1. Serials' \subseteq Serials /\ UNCHANGED <<draws, ecus>> /\ (Fetching' => Fetching)
        /\ (pc' # "erase" => pc # "erase" /\ id'.cert = id.cert /\ id'.pkey = id.pkey)
    BY <1>t, <1>14 DEF Serials, Fetching, SeedRoots, Seed, cloud
  <2> QED
    BY <2>1, <1>1
<1>15. CASE Enrol
  <2> USE ProvisioningAssumption DEF Base, Typed, TypeOK, Quiet, Ready, IdKeys, TufKeys,
          Places, Jobs, NoZip, cloud, Devices, Draws, LoadCreds, HaveCreds, HaveEcuKey,
        Own, Serials, Fetching
  <2>1. Enrolling
    BY <1>t, <1>15, EnrolShape DEF Base
  <2>2. draws' \in Nat /\ draws <= draws' /\ Serials' = Serials /\ ~Fetching'
    BY <2>1 DEF Enrolling, Fail
  <2>3. \A s \in Draws : s <= draws => s <= draws'
    BY <2>2
  <2>4. Serials \subseteq Draws
    OBVIOUS
  <2>5. pc' # "erase" => pc # "erase"
    BY <2>1 DEF Enrolling, Fail
  <2> QED
    BY <2>1, <2>2, <2>3, <2>4, <2>5 DEF Enrolling
<1>16. CASE SaveEcuKey
  <2>1. \/ Wrote("pk", "pk", got.key, "sk")
        \/ Wrote("sk", "sk", got.key, "keyed")
    BY <1>t, <1>16, SavesShape DEF Base
  <2>2. Serials' \subseteq Serials /\ UNCHANGED <<draws, ecus>> /\ (Fetching' => Fetching)
        /\ (pc' # "erase" => pc # "erase" /\ id'.cert = id.cert /\ id'.pkey = id.pkey)
    BY <2>1 DEF Wrote, IdKeys, Serials, Fetching
  <2> QED
    BY <2>2, <1>1
<1>17. CASE Keyed
  <2>1. Serials' \subseteq Serials /\ UNCHANGED <<draws, ecus>> /\ (Fetching' => Fetching)
        /\ (pc' # "erase" => pc # "erase" /\ id'.cert = id.cert /\ id'.pkey = id.pkey)
    BY <1>t, <1>17 DEF Serials, Fetching, Keyed, Fail, cloud
  <2> QED
    BY <2>1, <1>1
<1>18. CASE SetProvisioned
  <2>1. Wrote("flag", "prov", "set", "verify")
    BY <1>t, <1>18, SavesShape DEF Base
  <2>2. Serials' \subseteq Serials /\ UNCHANGED <<draws, ecus>> /\ (Fetching' => Fetching)
        /\ (pc' # "erase" => pc # "erase" /\ id'.cert = id.cert /\ id'.pkey = id.pkey)
    BY <2>1 DEF Wrote, IdKeys, Serials, Fetching
  <2> QED
    BY <2>2, <1>1
<1>19. CASE Verify
  <2>1. Serials' \subseteq Serials /\ UNCHANGED <<draws, ecus>> /\ (Fetching' => Fetching)
        /\ (pc' # "erase" => pc # "erase" /\ id'.cert = id.cert /\ id'.pkey = id.pkey)
    BY <1>t, <1>19 DEF Serials, Fetching, Verify, PollOnce, Pinned, cloud
  <2> QED
    BY <2>1, <1>1
<1>20. CASE Poll
  <2>1. Serials' \subseteq Serials /\ UNCHANGED <<draws, ecus>> /\ (Fetching' => Fetching)
        /\ (pc' # "erase" => pc # "erase" /\ id'.cert = id.cert /\ id'.pkey = id.pkey)
    BY <1>t, <1>20 DEF Serials, Fetching, Poll, PollOnce, Pinned, cloud
  <2> QED
    BY <2>1, <1>1
<1>21. CASE \E d, a \in BOOLEAN : Fetch(d, a)
  <2>1. Fetched
    BY <1>t, <1>21, FetchShape DEF Base
  <2>2. Serials' \subseteq Serials /\ UNCHANGED <<draws, ecus>> /\ (Fetching' => Fetching)
        /\ (pc' # "erase" => pc # "erase" /\ id'.cert = id.cert /\ id'.pkey = id.pkey)
    BY <1>t, <2>1 DEF Fetched, Fail, Serials, Fetching
  <2> QED
    BY <2>2, <1>1
<1>22. CASE \E d, a \in BOOLEAN : RegisterEcu(d, a)
  <2> USE ProvisioningAssumption DEF Base, Typed, TypeOK, Quiet, Ready, IdKeys, TufKeys,
          Places, Jobs, NoZip, cloud, Devices, Draws, LoadCreds, HaveCreds, HaveEcuKey,
        Own, Serials, Fetching
  <2>1. Registering
    BY <1>t, <1>22, RegisterShape DEF Base
  <2>2. Serials' = Serials /\ ~Fetching' /\ UNCHANGED <<id, draws>> /\ (pc' # "erase" => pc # "erase")
    BY <2>1 DEF Registering, Fail
  <2>3. CASE ecus' = ecus
    BY <2>2, <2>3
  <2>4. CASE Registers /\ ecus'[id.ecu_ser] = [device |-> id.cert, key |-> id.pk]
    <3>1. HaveCreds /\ id.ecu_ser \in Serials /\ id.ecu_ser <= draws
      BY <2>1 DEF Registering
    <3>2. \A s \in Draws : s # id.ecu_ser => ecus'[s] = ecus[s]
      BY <2>1 DEF Registering
    <3>3. ecus'[id.ecu_ser].device = id.cert /\ Serials \subseteq Draws
      BY <2>4
    <3>4. \A s \in Serials' : s <= draws'
      BY <2>2
    <3>5. \A s \in Draws : ecus'[s] # None => s <= draws'
      BY <2>2, <3>1, <3>2
    <3>6. \A s \in Serials : pc # "erase" /\ ecus'[s] # None => ecus'[s].device = id.cert
      BY <3>2, <3>3
    <3>7. pc' # "erase" => \A s \in Serials' : ecus'[s] # None =>
            HaveCreds' /\ ecus'[s].device = id'.cert
      BY <2>2, <3>1, <3>6
    <3> QED
      BY <2>2, <3>4, <3>5, <3>7
  <2> QED
    BY <2>1, <2>3, <2>4 DEF Registering
<1>23. CASE \E d, a \in BOOLEAN : FirstManifest(d, a)
  <2>1. Serials' \subseteq Serials /\ UNCHANGED <<draws, ecus>> /\ (Fetching' => Fetching)
        /\ (pc' # "erase" => pc # "erase" /\ id'.cert = id.cert /\ id'.pkey = id.pkey)
    BY <1>t, <1>23 DEF Serials, Fetching, FirstManifest, Request, Fail, cloud
  <2> QED
    BY <2>1, <1>1
<1>24. CASE \E s \in Submissions : Submit(s)
  <2>1. Serials' \subseteq Serials /\ UNCHANGED <<draws, ecus>> /\ (Fetching' => Fetching)
        /\ (pc' # "erase" => pc # "erase" /\ id'.cert = id.cert /\ id'.pkey = id.pkey)
    BY <1>t, <1>24 DEF Serials, Fetching, Submit, cloud
  <2> QED
    BY <2>1, <1>1
<1>25. QED
  BY <1>2, <1>3, <1>4, <1>5, <1>6, <1>7, <1>8, <1>9, <1>10, <1>11, <1>12, <1>13, <1>14,
       <1>15, <1>16, <1>17, <1>18, <1>19, <1>20, <1>21, <1>22, <1>23, <1>24 DEF Next, Device,
            Requests

\* A step keeps the role versions those of the board's identity.
LEMMA OursStep ==
  "erase_loss" \notin Faults /\ Base /\ Enrolled
    /\ Ours /\ [Next]_vars
    => Ours'
<1> SUFFICES ASSUME "erase_loss" \notin Faults, Base, Enrolled,
     Ours, [Next]_vars PROVE Ours'
  OBVIOUS
<1> USE ProvisioningAssumption DEF Base, Typed, TypeOK, Quiet, Ready, IdKeys, TufKeys,
        Places, Jobs, NoZip, cloud, Devices, Draws, LoadCreds, HaveCreds, HaveEcuKey, Ours,
             Fetching, Enrolled, Registered
<1>1. CASE Boot \/ JoinAtBoot \/ ProvisionIfNeeded \/ SntpFromPortal \/ Run
           \/ HoldButton \/ LoseLink \/ UNCHANGED vars
  BY <1>1 DEF Boot, JoinAtBoot, ProvisionIfNeeded, SntpFromPortal, Run, HoldButton, LoseLink, vars
<1>2. CASE EraseDone \/ RestartAfterEnrolment \/ PowerLoss
  <2>1. Reset /\ UNCHANGED <<id, tuf, draws, devices, ecus>>
    BY <1>2 DEF EraseDone, RestartAfterEnrolment, PowerLoss, cloud
  <2>2. UNCHANGED <<id, tuf, draws, devices, ecus>>
        /\ pc' = "boot" /\ job' = "none" /\ sub' = None /\ assoc' = None
        /\ got' = NoZip /\ failed' = FALSE
    BY <2>1 DEF Reset
  <2> QED
    BY <1>2, <2>2 DEF EraseDone, RestartAfterEnrolment, PowerLoss
<1>3. CASE \E k \in IdKeys : EraseId(k)
  <2> PICK k \in IdKeys : EraseId(k)
    BY <1>3
  <2>1. DOMAIN id' = IdKeys /\ \A i \in IdKeys : id'[i] \in {id[i], None}
    BY DEF EraseId, cloud
  <2>2. pc = "erase" /\ UNCHANGED <<tuf, pc, job, sub, assoc, got, failed, draws, devices, ecus>>
    BY DEF EraseId, cloud
  <2> QED
    BY <2>1, <2>2
<1>4. CASE \E k \in TufKeys : EraseTuf(k)
  <2> PICK k \in TufKeys : EraseTuf(k)
    BY <1>4
  <2>1. DOMAIN tuf' = TufKeys /\ \A i \in TufKeys : tuf'[i] \in {tuf[i], None}
    BY DEF EraseTuf, cloud
  <2>2. pc = "erase" /\ UNCHANGED <<id, pc, job, sub, assoc, got, failed, draws, devices, ecus>>
    BY DEF EraseTuf, cloud
  <2> QED
    BY <2>1, <2>2
<1>5. CASE SaveWifi
  <2>1. \/ Wrote("ssid", "ssid", sub.ssid, "pass")
        \/ Wrote("pass", "pass", sub.pass, "join")
    BY <1>5, SavesShape DEF Base
  <2> QED
    BY <2>1 DEF Wrote
<1>6. CASE JoinFromPortal \/ JoinFails \/ SntpFails
  BY <1>6 DEF JoinFromPortal, JoinFails, SntpFails, Fail
<1>7. CASE IdNonce("nonce", "fetch")
  <2>1. Nonced("nonce", "fetch")
    BY <1>7, NonceShape DEF Base
  <2> QED
    BY <2>1 DEF Nonced
<1>8. CASE IdNonce("run_nonce", "enrol")
  <2>1. Nonced("run_nonce", "enrol")
    BY <1>8, NonceShape DEF Base
  <2> QED
    BY <2>1 DEF Nonced
<1>9. CASE SaveCreds
  <2>1. \/ Wrote("cert", "cert", got.device, "pkey")
        \/ Wrote("pkey", "pkey", got.device, "cacert")
        \/ Wrote("cacert", "cacert", got.device, "ecu_ser")
        \/ Wrote("ecu_ser", "ecu_ser", got.nonce, "saved")
    BY <1>9, SavesShape DEF Base
  <2> QED
    BY <2>1 DEF Wrote
<1>10. CASE Saved
  BY <1>10 DEF Saved, Fail
<1>11. CASE SeedRoots
  BY <1>11 DEF SeedRoots, Seed
<1>12. CASE Enrol
  <2>1. Enrolling
    BY <1>12, EnrolShape DEF Base
  <2> QED
    BY <2>1 DEF Enrolling, Fail
<1>13. CASE SaveEcuKey
  <2>1. \/ Wrote("pk", "pk", got.key, "sk")
        \/ Wrote("sk", "sk", got.key, "keyed")
    BY <1>13, SavesShape DEF Base
  <2> QED
    BY <2>1 DEF Wrote
<1>14. CASE Keyed
  BY <1>14 DEF Keyed, Fail
<1>15. CASE SetProvisioned
  <2>1. Wrote("flag", "prov", "set", "verify")
    BY <1>15, SavesShape DEF Base
  <2> QED
    BY <2>1 DEF Wrote
<1>16. CASE Verify
  BY <1>16 DEF Verify, PollOnce, Pinned
<1>17. CASE Poll
  BY <1>17 DEF Poll, PollOnce, Pinned
<1>18. CASE \E d, a \in BOOLEAN : Fetch(d, a)
  <2>1. Fetched
    BY <1>18, FetchShape DEF Base
  <2> QED
    BY <2>1 DEF Fetched, Fail
<1>19. CASE \E d, a \in BOOLEAN : RegisterEcu(d, a)
  <2>1. Registering
    BY <1>19, RegisterShape DEF Base
  <2> QED
    BY <2>1 DEF Registering, Fail
<1>20. CASE \E d, a \in BOOLEAN : FirstManifest(d, a)
  BY <1>20 DEF FirstManifest, Request, Fail
<1>21. CASE \E s \in Submissions : Submit(s)
  BY <1>21 DEF Submit
<1>22. QED
  BY <1>1, <1>2, <1>3, <1>4, <1>5, <1>6, <1>7, <1>8, <1>9, <1>10, <1>11, <1>12, <1>13, <1>14,
       <1>15, <1>16, <1>17, <1>18, <1>19, <1>20, <1>21 DEF Next, Device, Requests

\* A step keeps the halves of the ECU key together.
LEMMA PairedStep ==
  "nvs" \notin Faults /\ "erase_loss" \notin Faults /\ Base /\ Paired /\ [Next]_vars
    => Paired'
<1> SUFFICES ASSUME "nvs" \notin Faults, "erase_loss" \notin Faults, Base, Paired,
     [Next]_vars PROVE Paired'
  OBVIOUS
<1> USE ProvisioningAssumption DEF Base, Typed, TypeOK, Quiet, Ready, IdKeys, TufKeys,
        Places, Jobs, NoZip, cloud, Devices, Draws, LoadCreds, HaveCreds, HaveEcuKey, Paired,
             KeyPairMatches
<1>1. CASE Boot \/ JoinAtBoot \/ ProvisionIfNeeded \/ SntpFromPortal \/ Run
           \/ HoldButton \/ LoseLink \/ UNCHANGED vars
  BY <1>1 DEF Boot, JoinAtBoot, ProvisionIfNeeded, SntpFromPortal, Run, HoldButton, LoseLink, vars
<1>2. CASE EraseDone \/ RestartAfterEnrolment \/ PowerLoss
  <2>1. Reset /\ UNCHANGED <<id, tuf, draws, devices, ecus>>
    BY <1>2 DEF EraseDone, RestartAfterEnrolment, PowerLoss, cloud
  <2>2. UNCHANGED <<id, tuf, draws, devices, ecus>>
        /\ pc' = "boot" /\ job' = "none" /\ sub' = None /\ assoc' = None
        /\ got' = NoZip /\ failed' = FALSE
    BY <2>1 DEF Reset
  <2> QED
    BY <1>2, <2>2 DEF EraseDone, RestartAfterEnrolment, PowerLoss
<1>3. CASE \E k \in IdKeys : EraseId(k)
  <2> PICK k \in IdKeys : EraseId(k)
    BY <1>3
  <2>1. DOMAIN id' = IdKeys /\ \A i \in IdKeys : id'[i] \in {id[i], None}
    BY DEF EraseId, cloud
  <2>2. pc = "erase" /\ UNCHANGED <<tuf, pc, job, sub, assoc, got, failed, draws, devices, ecus>>
    BY DEF EraseId, cloud
  <2> QED
    BY <2>1, <2>2
<1>4. CASE \E k \in TufKeys : EraseTuf(k)
  <2> PICK k \in TufKeys : EraseTuf(k)
    BY <1>4
  <2>1. DOMAIN tuf' = TufKeys /\ \A i \in TufKeys : tuf'[i] \in {tuf[i], None}
    BY DEF EraseTuf, cloud
  <2>2. pc = "erase" /\ UNCHANGED <<id, pc, job, sub, assoc, got, failed, draws, devices, ecus>>
    BY DEF EraseTuf, cloud
  <2> QED
    BY <2>1, <2>2
<1>5. CASE SaveWifi
  <2>1. \/ Wrote("ssid", "ssid", sub.ssid, "pass")
        \/ Wrote("pass", "pass", sub.pass, "join")
    BY <1>5, SavesShape DEF Base
  <2> QED
    BY <2>1 DEF Wrote
<1>6. CASE JoinFromPortal \/ JoinFails \/ SntpFails
  BY <1>6 DEF JoinFromPortal, JoinFails, SntpFails, Fail
<1>7. CASE IdNonce("nonce", "fetch")
  <2>1. Nonced("nonce", "fetch")
    BY <1>7, NonceShape DEF Base
  <2> QED
    BY <2>1 DEF Nonced
<1>8. CASE IdNonce("run_nonce", "enrol")
  <2>1. Nonced("run_nonce", "enrol")
    BY <1>8, NonceShape DEF Base
  <2> QED
    BY <2>1 DEF Nonced
<1>9. CASE SaveCreds
  <2>1. \/ Wrote("cert", "cert", got.device, "pkey")
        \/ Wrote("pkey", "pkey", got.device, "cacert")
        \/ Wrote("cacert", "cacert", got.device, "ecu_ser")
        \/ Wrote("ecu_ser", "ecu_ser", got.nonce, "saved")
    BY <1>9, SavesShape DEF Base
  <2> QED
    BY <2>1 DEF Wrote
<1>10. CASE Saved
  BY <1>10 DEF Saved, Fail
<1>11. CASE SeedRoots
  BY <1>11 DEF SeedRoots, Seed
<1>12. CASE Enrol
  <2>1. Enrolling
    BY <1>12, EnrolShape DEF Base
  <2> QED
    BY <2>1 DEF Enrolling, Fail
<1>13. CASE SaveEcuKey
  <2>1. \/ Wrote("pk", "pk", got.key, "sk")
        \/ Wrote("sk", "sk", got.key, "keyed")
    BY <1>13, SavesShape DEF Base
  <2> QED
    BY <2>1 DEF Wrote
<1>14. CASE Keyed
  BY <1>14 DEF Keyed, Fail
<1>15. CASE SetProvisioned
  <2>1. Wrote("flag", "prov", "set", "verify")
    BY <1>15, SavesShape DEF Base
  <2> QED
    BY <2>1 DEF Wrote
<1>16. CASE Verify
  BY <1>16 DEF Verify, PollOnce, Pinned
<1>17. CASE Poll
  BY <1>17 DEF Poll, PollOnce, Pinned
<1>18. CASE \E d, a \in BOOLEAN : Fetch(d, a)
  <2>1. Fetched
    BY <1>18, FetchShape DEF Base
  <2> QED
    BY <2>1 DEF Fetched, Fail
<1>19. CASE \E d, a \in BOOLEAN : RegisterEcu(d, a)
  <2>1. Registering
    BY <1>19, RegisterShape DEF Base
  <2> QED
    BY <2>1 DEF Registering, Fail
<1>20. CASE \E d, a \in BOOLEAN : FirstManifest(d, a)
  BY <1>20 DEF FirstManifest, Request, Fail
<1>21. CASE \E s \in Submissions : Submit(s)
  BY <1>21 DEF Submit
<1>22. QED
  BY <1>1, <1>2, <1>3, <1>4, <1>5, <1>6, <1>7, <1>8, <1>9, <1>10, <1>11, <1>12, <1>13, <1>14,
       <1>15, <1>16, <1>17, <1>18, <1>19, <1>20, <1>21 DEF Next, Device, Requests

\* A step keeps a board that has credentials seeded.
LEMMA SeededStep ==
  "nvs" \notin Faults /\ "creds_loss" \notin Faults /\ "erase_loss" \notin Faults
    /\ Base /\ Enrolled /\ Seeded /\ [Next]_vars
    => Seeded'
<1> SUFFICES ASSUME "nvs" \notin Faults, "creds_loss" \notin Faults,
     "erase_loss" \notin Faults, Base, Enrolled, Seeded,
          [Next]_vars PROVE Seeded'
  OBVIOUS
<1> USE ProvisioningAssumption DEF Base, Typed, TypeOK, Quiet, Ready, IdKeys, TufKeys,
        Places, Jobs, NoZip, cloud, Devices, Draws, LoadCreds, HaveCreds, HaveEcuKey,
             Enrolled, Resuming, Seeded, Storing
<1>1. CASE Boot \/ JoinAtBoot \/ ProvisionIfNeeded \/ SntpFromPortal \/ Run
           \/ HoldButton \/ LoseLink \/ UNCHANGED vars
  BY <1>1 DEF Boot, JoinAtBoot, ProvisionIfNeeded, SntpFromPortal, Run, HoldButton, LoseLink, vars
<1>2. CASE EraseDone \/ RestartAfterEnrolment \/ PowerLoss
  <2>1. Reset /\ UNCHANGED <<id, tuf, draws, devices, ecus>>
    BY <1>2 DEF EraseDone, RestartAfterEnrolment, PowerLoss, cloud
  <2>2. UNCHANGED <<id, tuf, draws, devices, ecus>>
        /\ pc' = "boot" /\ job' = "none" /\ sub' = None /\ assoc' = None
        /\ got' = NoZip /\ failed' = FALSE
    BY <2>1 DEF Reset
  <2> QED
    BY <1>2, <2>2 DEF EraseDone, RestartAfterEnrolment, PowerLoss
<1>3. CASE \E k \in IdKeys : EraseId(k)
  <2> PICK k \in IdKeys : EraseId(k)
    BY <1>3
  <2>1. DOMAIN id' = IdKeys /\ \A i \in IdKeys : id'[i] \in {id[i], None}
    BY DEF EraseId, cloud
  <2>2. pc = "erase" /\ UNCHANGED <<tuf, pc, job, sub, assoc, got, failed, draws, devices, ecus>>
    BY DEF EraseId, cloud
  <2> QED
    BY <2>1, <2>2
<1>4. CASE \E k \in TufKeys : EraseTuf(k)
  <2> PICK k \in TufKeys : EraseTuf(k)
    BY <1>4
  <2>1. DOMAIN tuf' = TufKeys /\ \A i \in TufKeys : tuf'[i] \in {tuf[i], None}
    BY DEF EraseTuf, cloud
  <2>2. pc = "erase" /\ UNCHANGED <<id, pc, job, sub, assoc, got, failed, draws, devices, ecus>>
    BY DEF EraseTuf, cloud
  <2> QED
    BY <2>1, <2>2
<1>5. CASE SaveWifi
  <2>1. \/ Wrote("ssid", "ssid", sub.ssid, "pass")
        \/ Wrote("pass", "pass", sub.pass, "join")
    BY <1>5, SavesShape DEF Base
  <2> QED
    BY <2>1 DEF Wrote
<1>6. CASE JoinFromPortal \/ JoinFails \/ SntpFails
  BY <1>6 DEF JoinFromPortal, JoinFails, SntpFails, Fail
<1>7. CASE IdNonce("nonce", "fetch")
  <2>1. Nonced("nonce", "fetch")
    BY <1>7, NonceShape DEF Base
  <2> QED
    BY <2>1 DEF Nonced
<1>8. CASE IdNonce("run_nonce", "enrol")
  <2>1. Nonced("run_nonce", "enrol")
    BY <1>8, NonceShape DEF Base
  <2> QED
    BY <2>1 DEF Nonced
<1>9. CASE SaveCreds
  <2>1. \/ Wrote("cert", "cert", got.device, "pkey")
        \/ Wrote("pkey", "pkey", got.device, "cacert")
        \/ Wrote("cacert", "cacert", got.device, "ecu_ser")
        \/ Wrote("ecu_ser", "ecu_ser", got.nonce, "saved")
    BY <1>9, SavesShape DEF Base
  <2> QED
    BY <2>1 DEF Wrote
<1>10. CASE Saved
  BY <1>10 DEF Saved, Fail
<1>11. CASE SeedRoots
  BY <1>11 DEF SeedRoots, Seed
<1>12. CASE Enrol
  <2>1. Enrolling
    BY <1>12, EnrolShape DEF Base
  <2> QED
    BY <2>1 DEF Enrolling, Fail
<1>13. CASE SaveEcuKey
  <2>1. \/ Wrote("pk", "pk", got.key, "sk")
        \/ Wrote("sk", "sk", got.key, "keyed")
    BY <1>13, SavesShape DEF Base
  <2> QED
    BY <2>1 DEF Wrote
<1>14. CASE Keyed
  BY <1>14 DEF Keyed, Fail
<1>15. CASE SetProvisioned
  <2>1. Wrote("flag", "prov", "set", "verify")
    BY <1>15, SavesShape DEF Base
  <2> QED
    BY <2>1 DEF Wrote
<1>16. CASE Verify
  <2>1. job = "verify" /\ job' = "none" /\ UNCHANGED <<id, failed>> /\ (pc' # "erase" => pc # "erase")
    BY <1>16 DEF Verify
  <2>2. id.pkey # None => tuf'.director = "baked" /\ tuf'.image = "baked"
    <3>1. CASE UNCHANGED tuf
      BY <2>1, <3>1
    <3>2. CASE PollOnce
      BY <2>1, <3>2 DEF PollOnce, Pinned
    <3> QED
      BY <1>16, <3>1, <3>2 DEF Verify
  <2> QED
    BY <2>1, <2>2
<1>17. CASE Poll
  <2>1. pc = "poll" /\ job = "none" /\ PollOnce /\ UNCHANGED <<id, pc, job, failed>>
    BY <1>17 DEF Poll
  <2>2. id.pkey # None => tuf'.director = "baked" /\ tuf'.image = "baked"
    BY <2>1 DEF PollOnce, Pinned
  <2> QED
    BY <2>1, <2>2
<1>18. CASE \E d, a \in BOOLEAN : Fetch(d, a)
  <2>1. Fetched
    BY <1>18, FetchShape DEF Base
  <2> QED
    BY <2>1 DEF Fetched, Fail
<1>19. CASE \E d, a \in BOOLEAN : RegisterEcu(d, a)
  <2>1. Registering
    BY <1>19, RegisterShape DEF Base
  <2> QED
    BY <2>1 DEF Registering, Fail
<1>20. CASE \E d, a \in BOOLEAN : FirstManifest(d, a)
  BY <1>20 DEF FirstManifest, Request, Fail
<1>21. CASE \E s \in Submissions : Submit(s)
  BY <1>21 DEF Submit
<1>22. QED
  BY <1>1, <1>2, <1>3, <1>4, <1>5, <1>6, <1>7, <1>8, <1>9, <1>10, <1>11, <1>12, <1>13, <1>14,
       <1>15, <1>16, <1>17, <1>18, <1>19, <1>20, <1>21 DEF Next, Device, Requests

-----------------------------------------------------------------------------
\* The types and the stages of the enrolment hold at the start.
LEMMA BaseInit == Init => Base
<1> SUFFICES ASSUME Init PROVE Base
  OBVIOUS
<1> USE ProvisioningAssumption DEF Init, NoZip, IdKeys, TufKeys, Devices, Draws
<1>1. Typed
  <2>1. got \in [device : Devices \cup {None}, nonce : Draws \cup {None},
       key : Draws \cup {None}]
    OBVIOUS
  <2>2. ecus \in [Draws -> {None} \cup [device : Devices, key : Draws]]
    OBVIOUS
  <2>3. TypeOK
    BY DEF TypeOK, Places, Jobs
  <2> QED
    BY <2>1, <2>2, <2>3 DEF Typed
<1>2. Quiet /\ Ready
  BY DEF Quiet, Ready
<1> QED
  BY <1>1, <1>2 DEF Base

\* Whatever faults are injected, the types hold and each stage of the enrolment
\* finds on flash what it relies on.
LEMMA BaseHolds == Spec => []Base
<1>1. Base /\ [Next]_vars => Base'
  BY TypeStep, ReadyStep DEF Base
<1> QED
  BY BaseInit, <1>1, PTL DEF Spec

\* Without a failing factory reset, a provisioned board is registered.
LEMMA EnrolledHolds ==
  ASSUME "erase_loss" \notin Faults
  PROVE  Spec => []Enrolled
<1>1. Init => Enrolled
  BY DEF Init, Enrolled, IdKeys
<1>2. Base /\ Enrolled /\ [Next]_vars => Enrolled'
  BY EnrolledStep
<1> QED
  BY <1>1, <1>2, BaseHolds, PTL DEF Spec

\* TYPE CORRECTNESS of enrolment, whatever faults are injected.
THEOREM TypeCorrect == Spec => []TypeOK
<1>1. Base => TypeOK
  BY DEF Base, Typed
<1> QED
  BY <1>1, BaseHolds, PTL

\* A board that counts as provisioned is registered under its serial with the
\* identity and key it holds, wherever power was lost, whichever NVS write failed
\* and whichever answer was lost, also if the page is submitted again before the
\* restart, as long as a factory reset runs to its end.
THEOREM ProvisionedBoardsAreRegistered ==
  ASSUME "erase_loss" \notin Faults
  PROVE  Spec => []ProvisionedIsRegistered
<1>1. Enrolled => ProvisionedIsRegistered
  BY DEF Enrolled, Registered, ProvisionedIsRegistered
<1> QED
  BY <1>1, EnrolledHolds, PTL

\* A board never asks to register a serial that another device holds, whatever
\* else goes wrong, as long as a factory reset runs to its end.
THEOREM SerialsNeverCollide ==
  ASSUME "erase_loss" \notin Faults
  PROVE  Spec => []SerialNeverCollides
<1>1. Init => Own
  BY ProvisioningAssumption DEF Init, Own, Serials, Fetching, IdKeys, NoZip, Draws
<1>2. Base /\ Own /\ [Next]_vars => Own'
  BY OwnStep
<1>3. Base /\ Own => SerialNeverCollides
  BY DEF Base, Quiet, Ready, LoadCreds, Own, Serials, SerialNeverCollides
<1> QED
  BY <1>1, <1>2, <1>3, BaseHolds, PTL DEF Spec

\* No role version accepted for an earlier identity outlives a factory reset that
\* runs to its end.
THEOREM VersionsNeverOutliveTheIdentity ==
  ASSUME "erase_loss" \notin Faults
  PROVE  Spec => []VersionsAreOurs
<1>1. Init => Ours
  BY DEF Init, Ours, Fetching, TufKeys
<1>2. Base /\ Enrolled /\ Ours /\ [Next]_vars => Ours'
  BY OursStep
<1>3. Ours => VersionsAreOurs
  BY DEF Ours, VersionsAreOurs
<1> QED
  BY <1>1, <1>2, <1>3, BaseHolds, EnrolledHolds, PTL DEF Spec

\* While NVS writes succeed and a factory reset runs to its end, the two halves of
\* the ECU key belong together, wherever else power is lost.
THEOREM KeyHalvesMatch ==
  ASSUME "nvs" \notin Faults, "erase_loss" \notin Faults
  PROVE  Spec => []KeyPairMatches
<1>1. Init => Paired
  BY DEF Init, Paired, KeyPairMatches, HaveEcuKey, IdKeys
<1>2. Base /\ Paired /\ [Next]_vars => Paired'
  BY PairedStep
<1>3. Paired => KeyPairMatches
  BY DEF Paired
<1> QED
  BY <1>1, <1>2, <1>3, BaseHolds, PTL DEF Spec

\* A board that registers has its backend's two roots and both halves of one key,
\* if power is not lost while the credentials and roots are stored either.
THEOREM IdentitiesAreWhole ==
  ASSUME "nvs" \notin Faults, "creds_loss" \notin Faults,
         "erase_loss" \notin Faults
  PROVE  Spec => []IdentityIsWhole
<1>1. Init => Seeded
  BY DEF Init, Seeded, Storing, IdKeys, TufKeys
<1>2. Base /\ Enrolled /\ Seeded /\ [Next]_vars => Seeded'
  BY SeededStep
<1>3. Base /\ Seeded => RegistersSeeded
  BY DEF Base, Quiet, Ready, LoadCreds, HaveCreds, Seeded, Storing, RegistersSeeded
<1>4. KeyPairMatches /\ RegistersSeeded => IdentityIsWhole
  BY DEF IdentityIsWhole
<1> QED
  BY <1>1, <1>2, <1>3, <1>4, BaseHolds, EnrolledHolds, KeyHalvesMatch, PTL DEF Spec
=============================================================================
