----------------------------- MODULE UptaneDocs -----------------------------
(***************************************************************************)
(* The Uptane library over the documents themselves (akt_uptane.c, with    *)
(* its wrappers in aktualino_uptane.c): a role's envelope is verified, a   *)
(* target selected and cosigned, a manifest built and signed.  RoleVerify  *)
(* is the same akt_verify_role over abstract envelopes; here the fields,   *)
(* the keys, the dates and the signed bytes are the documents' own.        *)
(* A time is <<days, seconds>> since 1970-01-01; <<0, 0>> is `unknown'.    *)
(***************************************************************************)
EXTENDS CryptoCore, CanonicalJson

Unknown == <<0, 0>>

\* map_err: the caller of a wrapper sees two codes for NOT_FOUND.
MapErr(rc) ==
  CASE rc = "OK" -> "ESP_OK"
    [] rc = "PARSE" -> "ESP_ERR_INVALID_ARG"
    [] rc \in {"NO_ROLE", "NO_TARGET"} -> "ESP_ERR_NOT_FOUND"
    [] rc = "THRESHOLD" -> "ESP_ERR_INVALID_CRC"
    [] rc = "EXPIRED" -> "ESP_ERR_TIMEOUT"
    [] rc = "ROLLBACK" -> "ESP_ERR_INVALID_VERSION"
    [] OTHER -> "ESP_FAIL"

-----------------------------------------------------------------------------
\* Mutant: every fourth year is a leap year.
DaysFromCivilJulian(y, m, d) ==
  LET yy  == IF m <= 2 THEN y - 1 ELSE y
      era == yy \div 400
      yoe == yy % 400
      doy == (153 * (m + (IF m > 2 THEN -3 ELSE 9)) + 2) \div 5 + d - 1
  IN  era * 146097 + yoe * 365 + yoe \div 4 + doy - 719468

\* days_from_civil, for years from 0 on.
DaysFromCivil(y, m, d) ==
  LET yy  == IF m <= 2 THEN y - 1 ELSE y
      era == yy \div 400
      yoe == yy % 400
      doy == (153 * (m + (IF m > 2 THEN -3 ELSE 9)) + 2) \div 5 + d - 1
  IN  era * 146097 + yoe * 365 + yoe \div 4 - yoe \div 100 + doy - 719468

\* sscanf "%4d-%2d-%2dT%2d:%2d:%2d": where each field begins, 0 when the scan
\* stops before it; the last is where it ends.
IsDecimal(c) == \E n \in 1 .. 10 : c = HexDigits[n]
DigitsRead(text, i, width) ==
  Cardinality({n \in 1 .. width : /\ i + n - 1 <= Len(text)
                                  /\ \A j \in i .. i + n - 1 : IsDecimal(text[j])})
Scan(text) ==
  LET start[f \in 1 .. 7] ==
        IF f = 1 THEN 1
        ELSE LET i == start[f - 1]
                 n == DigitsRead(text, i, IF f = 2 THEN 4 ELSE 2)
             IN  IF /\ i # 0 /\ n # 0
                    /\ f = 7 \/ (i + n <= Len(text) /\ text[i + n] = <<"-", "-", "T", ":", ":">>[f - 1])
                 THEN i + n + 1 ELSE 0
  IN  start

\* The number field f reads: up to four decimal digits.
Read(text, f) ==
  LET first == Scan(text)[f]
      last  == Scan(text)[f + 1] - 2
      digit(i) == IF i < first THEN 0 ELSE HexVal(text[i])
  IN  1000 * digit(last - 3) + 100 * digit(last - 2) + 10 * digit(last - 1) + digit(last)

\* akt_parse_iso8601_utc: whatever follows the seconds is ignored.
IsDate(text) ==
  Scan(text)[7] # 0 /\ Read(text, 2) \in 1 .. 12 /\ Read(text, 3) \in 1 .. 31
DateTime(text) ==
  LET s == Read(text, 4) * 3600 + Read(text, 5) * 60 + Read(text, 6)
  IN  <<DaysFromCivil(Read(text, 1), Read(text, 2), Read(text, 3)) + s \div 86400, s % 86400>>

NotAfter(t, u) == t[1] < u[1] \/ (t[1] = u[1] /\ t[2] <= u[2])

-----------------------------------------------------------------------------
\* find_sig: the first entry that names the key id.
FindSig(signatures, keyid) ==
  LET i == SelectInSeq(signatures[2], LAMBDA sig : Get(sig, "keyid") = keyid)
  IN  IF i = 0 THEN Missing ELSE signatures[2][i]

\* One round of the counting loop: the key id's entry verifies over `text'.
SignedBy(keys, signatures, kid, text) ==
  /\ IsString(kid)
  /\ LET entry == FindSig(signatures, kid)
         key   == GetText(keys, kid[2])
         sig   == Get(entry, "sig")
     IN  /\ IsObject(key) /\ IsString(sig)
         /\ Base64Decode(sig[2]) # Missing
         /\ VerifyWithPubkey(ParseTufKey(key), text, Base64Decode(sig[2]))

ValidCount(keys, keyids, signatures, text) ==
  Cardinality({i \in DOMAIN keyids[2] : SignedBy(keys, signatures, keyids[2][i], text)})

\* The expiry and version gates, after the signatures.
Gates(signed, now, min) ==
  LET exp == Get(signed, "expires")
      ver == Get(signed, "version")
  IN  CASE now # Unknown /\ (~IsString(exp) \/ ~IsDate(exp[2])) -> "PARSE"
        [] now # Unknown /\ NotAfter(DateTime(exp[2]), now) -> "EXPIRED"
        [] (IF IsNumber(ver) THEN ver[2] ELSE 0) < min -> "ROLLBACK"
        [] OTHER -> "OK"

\* akt_verify_role.
VerifyRole(root, name, envelope, now, min) ==
  LET roles  == Get(root, "roles")           keys   == Get(root, "keys")
      role   == Get(roles, name)             keyids == Get(role, "keyids")
      thresh == Get(role, "threshold")       signed == Get(envelope, "signed")
      signatures == Get(envelope, "signatures")
  IN  CASE ~IsObject(roles) \/ ~IsObject(keys) -> "PARSE"
        [] ~IsObject(role) -> "NO_ROLE"
        [] ~IsArray(keyids) \/ ~IsNumber(thresh) -> "PARSE"
        [] ~IsObject(signed) \/ ~IsArray(signatures) -> "PARSE"
        [] ~(/\ thresh[2] > 0
             /\ ValidCount(keys, keyids, signatures, Canonical(signed)) >= thresh[2])
             -> "THRESHOLD"
        [] OTHER -> Gates(signed, now, min)

UptaneVerifyRole(root, name, envelope, now, min) ==
  MapErr(VerifyRole(root, name, envelope, now, min))

\* aktualino_uptane_canonical_json, into a buffer of `cap' bytes.
UptaneCanonicalJson(v, cap) ==
  LET text == Canonical(v)
  IN  IF v = Missing THEN [err |-> "ESP_ERR_INVALID_ARG", text |-> <<>>]
      ELSE IF Len(text) + 1 > cap THEN [err |-> "ESP_ERR_INVALID_SIZE", text |-> <<>>]
      ELSE [err |-> "ESP_OK", text |-> text]

-----------------------------------------------------------------------------
\* hwid_matches: any of the three shapes of a target's custom object.
HwidMatches(custom, hwid) ==
  LET is(v) == IsString(v) /\ v[2] = hwid
      listed == Get(custom, "hardwareIds")
      ecus   == Get(custom, "ecuIdentifiers")
  IN  \/ is(Get(custom, "hardwareIdentifier"))
      \/ IsArray(listed) /\ \E i \in DOMAIN listed[2] : is(listed[2][i])
      \/ IsObject(ecus) /\ \E i \in DOMAIN ecus[2] : is(Get(ecus[2][i][2], "hardwareId"))

\* A target's length and SHA-256, as both repositories write them.
Pinned(t) ==
  LET length == Get(t, "length")
      hashes == Get(t, "hashes")
      sha    == Get(hashes, "sha256")
  IN  IF ~IsNumber(length) \/ ~IsObject(hashes) \/ ~IsString(sha) THEN Missing
      ELSE <<"pin", length[2], sha[2]>>

NoTarget == [filepath |-> <<>>, length |-> 0, sha256 |-> <<>>, version |-> 0]
Failed(rc) == [rc |-> rc, target |-> NoTarget]

\* akt_select_target: the first target for the hardware id decides.
SelectTarget(targets, hwid) ==
  LET all == Get(targets, "targets")
      i   == SelectInSeq(all[2], LAMBDA item : HwidMatches(Get(item[2], "custom"), hwid))
      pin == Pinned(all[2][i][2])
      ver == Get(Get(all[2][i][2], "custom"), "version")
  IN  IF ~IsObject(all) THEN Failed("PARSE")
      ELSE IF i = 0 THEN Failed("NO_TARGET")
      ELSE IF \/ pin = Missing
              \/ \E j \in DOMAIN all[2][i][1] : all[2][i][1][j] = ".."
              \/ ~IsDigest(pin[3])
           THEN Failed("PARSE")
      ELSE [rc |-> "OK",
            target |-> [filepath |-> all[2][i][1], length |-> pin[2],
                        sha256 |-> HexDecode(pin[3]),
                        version |-> IF IsNumber(ver) THEN ver[2] ELSE 0]]

UptaneSelectTarget(targets, hwid) ==
  LET s == SelectTarget(targets, hwid) IN [err |-> MapErr(s.rc), target |-> s.target]

\* Mutant: the hash alone is compared.
ImageTargetMatchesHash(image, dir) ==
  LET t   == GetText(Get(image, "targets"), dir.filepath)
      pin == Pinned(t)
  IN  CASE ~IsObject(t) -> "NO_TARGET"
        [] pin = Missing -> "PARSE"
        [] ~IsDigest(pin[3]) -> "PARSE"
        [] HexDecode(pin[3]) # dir.sha256 -> "CROSSREPO"
        [] OTHER -> "OK"

\* akt_image_target_matches: the Image repository cosigns the Director's choice.
ImageTargetMatches(image, dir) ==
  LET targets == Get(image, "targets")
      t   == GetText(targets, dir.filepath)
      pin == Pinned(t)
  IN  CASE ~IsObject(targets) -> "PARSE"
        [] ~IsObject(t) -> "NO_TARGET"
        [] pin = Missing -> "PARSE"
        [] pin[2] # dir.length -> "CROSSREPO"
        [] ~IsDigest(pin[3]) -> "PARSE"
        [] HexDecode(pin[3]) # dir.sha256 -> "CROSSREPO"
        [] OTHER -> "OK"

\* map_akt_err: what the orchestrator hands on.
MapAktErr(rc) == IF rc = "PARSE" THEN "ESP_FAIL" ELSE MapErr(rc)

\* aktualino_core_crosscheck_target past the chain of the Image repository: the
\* poll's result is a target again, without its version.
CrosscheckTarget(image, res) ==
  MapAktErr(ImageTargetMatches(image, [NoTarget EXCEPT !.filepath = res.filepath,
                                         !.length = res.length, !.sha256 = res.sha256]))

\* akt_verify_meta_link: `file' is what was served under the name `key'; a
\* negative version is not pinned.
VerifyMetaLink(referrer, key, file, size, version) ==
  LET meta  == Get(referrer, "meta")
      entry == Get(meta, key)
      pin   == Pinned(entry)
      ver   == Get(entry, "version")
  IN  CASE ~IsObject(meta) \/ ~IsObject(entry) \/ pin = Missing -> "PARSE"
        [] pin[2] # size -> "CROSSREPO"
        [] ~IsDigest(pin[3]) -> "PARSE"
        [] HexDecode(pin[3]) # Sha256(file) -> "CROSSREPO"
        [] version >= 0 /\ (IF IsNumber(ver) THEN ver[2] ELSE -1) # version -> "CROSSREPO"
        [] OTHER -> "OK"

-----------------------------------------------------------------------------
\* akt_targets_correlation_id: empty for its NO_TARGET.
CorrelationId(targets) ==
  LET cid == Get(Get(targets, "custom"), "correlationId")
  IN  IF IsString(cid) THEN cid[2] ELSE <<>>

\* sign_envelope: one Ed25519 signature over the canonical text.
SignEnvelope(signed, pair) ==
  <<"obj", <<Field("signatures", <<"arr", <<
               <<"obj", <<Field("keyid", <<"str", KeyId(pair)>>),
                          Field("method", Word("ed25519")),
                          Field("sig", <<"str", Base64Encode(
                             SignEd25519(pair, Canonical(signed)))>>)>> >> >> >>),
             Field("signed", signed)>> >>

\* build_installation_report; its constant texts are left out.
BuildInstallationReport(cid, ecu, success) ==
  LET result == <<"obj", <<Field("code", Word(IF success THEN "OK" ELSE "INSTALL_FAILED")),
                           Field("success", <<"bool", success>>)>> >>
      item   == <<"obj", <<Field("ecu", <<"str", ecu>>), Field("result", result)>> >>
      report == <<"obj", <<Field("correlation_id", <<"str", cid>>),
                           Field("items", <<"arr", <<item>> >>),
                           Field("result", result)>> >>
  IN  <<"obj", <<Field("content_type", Word("installationReport")),
                 Field("report", report)>> >>

\* build_ecu_manifest_env.
BuildEcuManifest(ecu, installed, attacks, pair) ==
  LET hashes == <<"obj", <<Field("sha256", <<"str", HexEncode(installed.sha256)>>)>> >>
      finfo  == <<"obj", <<Field("hashes", hashes),
                           Field("length", <<"num", installed.length>>)>> >>
      img    == <<"obj", <<Field("filepath", <<"str", installed.filepath>>),
                           Field("fileinfo", finfo)>> >>
  IN  SignEnvelope(<<"obj", <<Field("installed_image", img),
                              Field("ecu_serial", <<"str", ecu>>),
                              Field("attacks_detected", <<"str", attacks>>)>> >>, pair)

\* Mutant: the primary's assignment is reported whenever there is one.
ReportOfPrimary(primary, cid, success, sec) ==
  IF cid # <<>> THEN BuildInstallationReport(cid, primary, success)
  ELSE IF sec.present /\ sec.cid # <<>>
       THEN BuildInstallationReport(sec.cid, sec.ecu, sec.success)
       ELSE <<"null">>

\* The installation report of a manifest: the secondary's install if it has
\* one to report, else the primary's, else none.
ReportOf(primary, cid, success, sec) ==
  IF sec.present /\ sec.cid # <<>>
  THEN BuildInstallationReport(sec.cid, sec.ecu, sec.success)
  ELSE IF cid # <<>> THEN BuildInstallationReport(cid, primary, success)
  ELSE <<"null">>

\* akt_build_manifest_ex; `sec' is the optional secondary.
BuildManifestEx(primary, installed, attacks, cid, success, sec, pair) ==
  LET evm == <<<<primary, BuildEcuManifest(primary, installed, attacks, pair)>> >>
             \o IF sec.present
                THEN <<<<sec.ecu, BuildEcuManifest(sec.ecu, sec.installed, sec.attacks, pair)>> >>
                ELSE <<>>
  IN  SignEnvelope(
        <<"obj", <<Field("primary_ecu_serial", <<"str", primary>>),
                   Field("ecu_version_manifests", <<"obj", evm>>),
                   Field("installation_report", ReportOf(primary, cid, success, sec))>> >>,
        pair)

NoSecondary == [present |-> FALSE, ecu |-> <<>>, installed |-> NoTarget, attacks |-> <<>>,
                cid |-> <<>>, success |-> TRUE]

\* akt_build_manifest_report and akt_build_manifest: no secondary, no report.
BuildManifestReport(primary, installed, attacks, cid, success, pair) ==
  BuildManifestEx(primary, installed, attacks, cid, success, NoSecondary, pair)
BuildManifest(primary, installed, attacks, pair) ==
  BuildManifestReport(primary, installed, attacks, <<>>, TRUE, pair)

=============================================================================
