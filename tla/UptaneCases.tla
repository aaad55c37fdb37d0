---------------------------- MODULE UptaneCases ----------------------------
(***************************************************************************)
(* The Uptane library called on every small document of five families: one *)
(* behaviour picks a call, makes it and stops.  A call carries what its    *)
(* documents were made from, and the properties compare the answer with    *)
(* that, never with the documents.                                         *)
(***************************************************************************)
EXTENDS UptaneDocs

\* Two Ed25519 keys and an RSA key, under the key ids a, b and r.
PubOf == [a |-> [i \in 1 .. DigestBytes |-> IF i = 1 THEN 1 ELSE 24 + i],
          b |-> [i \in 1 .. DigestBytes |-> IF i = 1 THEN 2 ELSE 257 - i],
          r |-> <<"pem">>]
MethodOf == [a |-> "ed25519", b |-> "ed25519", r |-> "rsassa-pss-sha256"]

Object(fields) == <<"obj", [i \in DOMAIN fields |-> Field(fields[i][1], fields[i][2])]>>
With(fields, w, v) == [i \in DOMAIN fields |-> IF fields[i][1] = w THEN <<w, v>> ELSE fields[i]]
SeqsTo(S, n) == UNION {[1 .. m -> S] : m \in 0 .. n}

KeyObject(k) ==
  Object(<<<<"keytype", Word(IF k = "r" THEN "RSA" ELSE IF k = "a" THEN "ED25519" ELSE "ed25519")>>,
           <<"keyval", Object(<<<<"public", <<"str",
              IF k = "r" THEN PubOf[k] ELSE HexEncode(PubOf[k])>> >> >>)>> >>)
RootFields(keyids, threshold) ==
  LET role == Object(<<<<"keyids", <<"arr", [i \in DOMAIN keyids |-> Word(keyids[i])]>> >>,
                       <<"threshold", <<"num", threshold>> >> >>)
  IN  << <<"roles", Object(<<<<"targets", role>> >>)>>,
         <<"keys", Object(<<<<"a", KeyObject("a")>>, <<"b", KeyObject("b")>>,
                            <<"r", KeyObject("r")>> >>)>> >>

\* A date as the metadata writes it, from its year, month, day and hour.
Decimal(n, weight) == HexDigits[1 + ((n \div weight) % 10)]
DateText(d) ==
  <<Decimal(d[1], 1000), Decimal(d[1], 100), Decimal(d[1], 10), Decimal(d[1], 1), "-",
    Decimal(d[2], 10), Decimal(d[2], 1), "-", Decimal(d[3], 10), Decimal(d[3], 1), "T",
    Decimal(d[4], 10), Decimal(d[4], 1), ":", "0", "0", ":", "0", "0", "Z">>
SignedFields(version, exp) ==
  << <<"version", <<"num", version>> >>, <<"expires", <<"str", exp>> >>,
     <<"_type", Word("Targets")>> >>

\* What an entry of `signatures' was made from: the key id it names, the key
\* that signed, and the document it signed - this one, this one with its
\* fields in another order, or another version of it.
Entry(kid, by, what) == [keyid |-> kid, by |-> by, what |-> what]
SignatureText(e, fields) ==
  LET doc == CASE e.what = "same" -> fields
               [] e.what = "reordered" -> Reverse(fields)
               [] OTHER -> With(fields, "version", <<"num", 7>>)
  IN  IF e.what = "garbled" THEN <<"!">>
      ELSE SignatureOf(MethodOf[e.by], PubOf[e.by], Canonical(Object(doc)))
Envelope(entries, fields) ==
  Object(<<<<"signatures", <<"arr", [i \in DOMAIN entries |->
              Object(<<<<"keyid", Word(entries[i].keyid)>>,
                       <<"sig", <<"str", SignatureText(entries[i], fields)>> >> >>)]>> >>,
           <<"signed", Object(fields)>> >>)

Noon == <<2026, 1, 31, 12>>
RoleCall(keyids, threshold, entries, version, exp, now, min) ==
  [family |-> "role", keyids |-> keyids, threshold |-> threshold, entries |-> entries,
   version |-> version, exp |-> exp, now |-> now, min |-> min]

\* Who signed what.
SignatureCalls ==
  {RoleCall(ks, t, es, 2, Noon, Unknown, 2) :
     ks \in {<<"a">>, <<"a", "b">>, <<"b", "r">>},
     t \in 0 .. 2,
     es \in SeqsTo({Entry(k, by, w) : k \in {"a", "b"}, by \in {"a", "b"},
                                      w \in {"same", "reordered", "other", "garbled"}}
                   \cup {Entry("r", "r", "same"), Entry("r", "a", "same")}, 2)}

\* When it expires and which version it is: around the ends of months, years
\* and centuries.
Dates == {<<y, m, d, 0>> : y \in {1999, 2000, 2023, 2024, 2100}, m \in {2, 3}, d \in {1, 28}}
         \cup {<<y, 2, 29, h>> : y \in {2000, 2024}, h \in {0, 23}}
         \cup {<<y, 12, 31, 23>> : y \in {1999, 2099}} \cup {<<2100, 1, 1, 0>>}
GateCalls ==
  {RoleCall(<<"a">>, 1, <<Entry("a", "a", "same")>>, 2, e, n, 2) : e \in Dates, n \in Dates}
  \cup {RoleCall(<<"a">>, 1, <<Entry("a", "a", "same")>>, v, Noon, Noon, m) :
          v \in 1 .. 3, m \in 0 .. 3}
  \cup {RoleCall(<<"a">>, 1, <<Entry("a", "a", "same")>>, v, Noon, Unknown, m) :
          v \in 1 .. 3, m \in 0 .. 3}

\* Reference: days since 1970-01-01, counted year by year and month by month.
Leap(y) == y % 4 = 0 /\ (y % 100 # 0 \/ y % 400 = 0)
MonthDays(y, m) ==
  CASE m = 2 -> IF Leap(y) THEN 29 ELSE 28 [] m \in {4, 6, 9, 11} -> 30 [] OTHER -> 31
DayNumber(d) ==
  LET year[y \in 1970 .. d[1]] ==
        IF y = 1970 THEN 0 ELSE year[y - 1] + IF Leap(y - 1) THEN 366 ELSE 365
      month[m \in 1 .. d[2]] ==
        IF m = 1 THEN year[d[1]] ELSE month[m - 1] + MonthDays(d[1], m - 1)
  IN  month[d[2]] + d[3] - 1
Instant(d) == <<DayNumber(d), d[4] * 3600>>

-----------------------------------------------------------------------------
\* A root and an envelope that would be accepted, but for the piece at `path',
\* which is dropped or replaced by w.  A path names fields; an array is entered
\* at its first element.
Made(fields) ==
  LET i == SelectInSeq(fields, LAMBDA f : f[2] = Missing)
  IN  Object(IF i = 0 THEN fields ELSE RemoveAt(fields, i))
BrokenRoot(path, w) ==
  LET at(here, v) == IF path = here THEN w ELSE v
      role == Made(<<<<"keyids", at(<<"roles", "targets", "keyids">>, <<"arr", <<Word("a")>> >>)>>,
                     <<"threshold", at(<<"roles", "targets", "threshold">>, <<"num", 1>>)>> >>)
      val  == Made(<<<<"public", at(<<"keys", "a", "keyval", "public">>,
                                    <<"str", HexEncode(PubOf.a)>>)>> >>)
      key  == Made(<<<<"keytype", at(<<"keys", "a", "keytype">>, Word("ED25519"))>>,
                     <<"keyval", at(<<"keys", "a", "keyval">>, val)>> >>)
  IN  Made(<<<<"roles", at(<<"roles">>, Made(<<<<"targets", at(<<"roles", "targets">>, role)>> >>))>>,
             <<"keys", at(<<"keys">>, Made(<<<<"a", at(<<"keys", "a">>, key)>>,
                                             <<"b", KeyObject("b")>> >>))>> >>)
BrokenEnvelope(path, w) ==
  LET at(here, v) == IF path = here THEN w ELSE v
      signed == Made(<<<<"version", at(<<"signed", "version">>, <<"num", 2>>)>>,
                       <<"expires", at(<<"signed", "expires">>, <<"str", DateText(Noon)>>)>>,
                       <<"_type", Word("Targets")>> >>)
      sig   == SignatureOf(MethodOf.a, PubOf.a, Canonical(signed))
      entry == Made(<<<<"keyid", at(<<"signatures", "keyid">>, Word("a"))>>,
                      <<"sig", at(<<"signatures", "sig">>, <<"str", sig>>)>> >>)
  IN  Made(<<<<"signatures", at(<<"signatures">>, <<"arr", <<entry>> >>)>>,
             <<"signed", at(<<"signed">>, signed)>> >>)

RootPaths == {<<"roles">>, <<"keys">>, <<"roles", "targets">>, <<"roles", "targets", "keyids">>,
              <<"roles", "targets", "threshold">>, <<"keys", "a">>, <<"keys", "a", "keytype">>,
              <<"keys", "a", "keyval">>, <<"keys", "a", "keyval", "public">>}
EnvelopePaths == {<<"signed">>, <<"signatures">>, <<"signatures", "keyid">>,
                  <<"signatures", "sig">>, <<"signed", "expires">>, <<"signed", "version">>}
Public == <<"keys", "a", "keyval", "public">>
Expires == <<"signed", "expires">>
\* Pieces of no type a document needs, and texts that are no key and no date.
Blanks == {Missing, <<"null">>, <<"bool", TRUE>>}
Undigested ==
  LET hex == HexEncode(PubOf.a)
  IN  {Tail(hex), Tail(Tail(hex)), Append(Tail(hex), "g"), hex \o <<"0", "0">>}
MonthThirteen == <<"2", "1", "0", "0", "-", "1", "3", "-", "0", "1", "T", "0", ":", "0", ":", "0">>
Undated == {<<>>, <<"n", "e", "v", "e", "r">>, <<"2", "1", "0", "0">>, MonthThirteen}
BrokenPieces ==
  {<<p, w>> : p \in RootPaths \cup EnvelopePaths, w \in Blanks}
  \cup {<<Public, <<"str", t>> >> : t \in Undigested}
  \cup {<<Expires, <<"str", t>> >> : t \in Undated}
  \cup {<< <<"keys", "a", "keytype">>, Word(w)>> : w \in {"RSA", "ecPrime256v1"}}
Whole == <<<<>>, Missing>>
BrokenCalls == {[family |-> "broken", path |-> b[1], by |-> b[2]] : b \in BrokenPieces \cup {Whole}}

-----------------------------------------------------------------------------
\* Pairs of documents to serialise.
Leaves == {<<"null">>, <<"bool", TRUE>>, <<"bool", FALSE>>, <<"num", 0>>, <<"num", 12>>, <<"num", -1>>}
          \cup {<<"str", t>> : t \in {<<>>, <<"a">>, <<"\"">>, <<"\\">>, <<"LF">>, <<"SOH">>,
                  <<"\\", "n">>, <<"\\", "\"">>, <<"1", "2">>, <<"n", "u", "l", "l">>,
                  <<"a", "\"", ",", "\"", "a">>}}
Keys == {<<"a">>, <<"b">>, <<"a", "b">>, <<"\"">>}
ArraysOf(S) == {<<"arr", s>> : s \in SeqsTo(S, 2)}
ObjectsOf(S) == {<<"obj", s>> : s \in {t \in SeqsTo(Keys \X S, 2) :
                   \A i, j \in DOMAIN t : t[i][1] = t[j][1] => i = j}}
Few == {<<"num", 1>>, <<"str", <<"a">> >>}
Inner == {<<"obj", << <<k, <<"num", 1>> >>, <<l, <<"num", 2>> >> >> >> :
             k \in {<<"a">>, <<"b">>}, l \in {<<"c">>, <<"a", "b">>}}
Documents == Leaves \cup {<<"arr", <<l>> >> : l \in Leaves} \cup ArraysOf(Few) \cup ObjectsOf(Few)
             \cup {<<"arr", <<d>> >> : d \in Inner} \cup {<<"obj", << <<<<"a">>, d>> >> >> : d \in Inner}
             \cup {<<"obj", Reverse(d[2])>> : d \in Inner} \cup Inner
TextCalls == {[family |-> "text", one |-> d, two |-> e] : d \in Documents, e \in Documents}

\* What the documents are written with besides what the serialiser writes, and
\* how deep they nest.
ASSUME CasesAssumption ==
  /\ {"LF", "SOH", "c", "version", "expires", "_type", "Targets", "T", "Z"} \subseteq Characters
  /\ Nesting >= 2

\* The signatures under these keys over these texts are made by one of them
\* over one of them only, as long as nobody forges one: Ed25519 and RSA-PSS.
KeysTried == {<<MethodOf[k], PubOf[k]>> : k \in {"a", "b", "r"}}
             \cup {<<MethodOf.r, HexEncode(PubOf.a)>>}
TextsSigned == {Canonical(Object(SignedFields(v, DateText(d)))) : v \in {1, 2, 3, 7}, d \in Dates \cup {Noon}}
ASSUME SignatureAssumption ==
  \A k, l \in KeysTried, s, t \in TextsSigned :
    /\ SignatureOf(k[1], k[2], s) = SignatureOf(l[1], l[2], t) => k = l /\ s = t
    /\ SignatureOf(k[1], k[2], s) \notin {<<"!">>, Missing}

-----------------------------------------------------------------------------
\* Digests as they are written, and the file they are of (0: not a digest).
Upper(hex) == [i \in DOMAIN hex |-> HexUpper[1 + HexVal(hex[i])]]
ShaTexts == [h1 |-> HexEncode(Sha256(1)), H1 |-> Upper(HexEncode(Sha256(1))),
             h2 |-> HexEncode(Sha256(10)), H2 |-> Upper(HexEncode(Sha256(10))),
             short |-> Tail(Tail(HexEncode(Sha256(1)))), odd |-> Tail(HexEncode(Sha256(1)))]
FileOf == [h1 |-> 1, H1 |-> 1, h2 |-> 10, H2 |-> 10, short |-> 0, odd |-> 0]

PinFields(length, sha) ==
  << <<"length", <<"num", length>> >>,
     <<"hashes", Object(<<<<"sha256", <<"str", ShaTexts[sha]>> >> >>)>> >>
Custom(shape) ==
  CASE shape = "identifier" -> Object(<<<<"hardwareIdentifier", Word("ours")>> >>)
    [] shape = "list" -> Object(<<<<"hardwareIds", <<"arr", <<Word("theirs"), Word("ours")>> >> >> >>)
    [] shape = "ecus" -> Object(<<<<"ecuIdentifiers", Object(<<
                           <<"s1", Object(<<<<"hardwareId", Word("theirs")>> >>)>>,
                           <<"s2", Object(<<<<"hardwareId", Word("ours")>> >>)>> >>)>> >>)
    [] shape = "other" -> Object(<<<<"hardwareIdentifier", Word("theirs")>> >>)
    [] shape = "none" -> <<"null">>
Ours == {"identifier", "list", "ecus"}
Target(path, shape, length, sha) == [path |-> path, shape |-> shape, length |-> length, sha |-> sha]
TargetsDoc(ts, custom) ==
  Object(<<<<"targets", <<"obj", [i \in DOMAIN ts |->
     <<ts[i].path, Object(PinFields(ts[i].length, ts[i].sha)
                          \o << <<"custom", Custom(ts[i].shape)>> >>)>>]>> >>,
           <<"custom", custom>> >>)

Paths == {<<"p">>, <<"q">>}
ImageSides == {<<>>} \cup {<<Target(p, "none", l, s)>> :
                             p \in Paths, l \in 1 .. 2, s \in {"h1", "H2", "short"}}
OneTarget == {<<Target(p, h, l, s)>> : p \in Paths \cup {<<"..", "/", "p">>},
                h \in Ours \cup {"other", "none"}, l \in 1 .. 2, s \in {"h1", "H1", "h2", "short", "odd"}}
TwoTargets == {<<Target(p, h, 1, s), Target(q, g, l, t)>> :
                 p \in Paths, h \in {"other", "list"}, s \in {"h1", "short"},
                 q \in Paths, g \in {"ecus", "none"}, l \in 1 .. 2, t \in {"h1", "h2"}}
CosignCalls == {[family |-> "cosign", director |-> d, image |-> i] :
                  d \in {<<>>} \cup OneTarget \cup TwoTargets, i \in ImageSides}

LinkCalls == {[family |-> "link", sha |-> s, length |-> l, version |-> v,
               file |-> f, size |-> z, ref |-> r] :
                s \in {"h1", "H1", "h2", "H2", "short", "odd"}, l \in 10 .. 11, v \in 0 .. 2,
                f \in {1, 10}, z \in 10 .. 11, r \in -1 .. 2}

\* An assignment's correlation id as the Director may write it, and the text
\* it stands for.
CidShapes == {"absent", "number", "empty", "set"}
CidCustom(c) ==
  CASE c = "absent" -> Object(<<>>)
    [] c = "number" -> Object(<<<<"correlationId", <<"num", 1>> >> >>)
    [] c = "empty" -> Object(<<<<"correlationId", <<"str", <<>> >> >> >>)
    [] c = "set" -> Object(<<<<"correlationId", Word("urn1")>> >>)
Secondaries ==
  {NoSecondary} \cup {[present |-> TRUE, ecu |-> <<"ecu2">>, attacks |-> <<>>, cid |-> c, success |-> ok,
                       installed |-> [NoTarget EXCEPT !.sha256 = Sha256(10), !.filepath = <<"script">>]] :
                        c \in {<<>>, <<"urn2">>}, ok \in BOOLEAN}
ReportCalls == {[family |-> "report", cid |-> c, success |-> ok, sec |-> s, file |-> f] :
                  c \in CidShapes, ok \in BOOLEAN, s \in Secondaries, f \in {1, 10}}

-----------------------------------------------------------------------------
VARIABLES call, out
vars == <<call, out>>

Pending == [err |-> "pending"]
Is(family) == out = Pending /\ call.family = family /\ UNCHANGED call

Init ==
  /\ \/ call \in SignatureCalls \/ call \in GateCalls \/ call \in BrokenCalls \/ call \in TextCalls
     \/ call \in CosignCalls \/ call \in LinkCalls \/ call \in ReportCalls
  /\ out = Pending

VerifyARole ==
  /\ Is("role")
  /\ out' = [err |-> UptaneVerifyRole(Object(RootFields(call.keyids, call.threshold)), "targets",
               Envelope(call.entries, SignedFields(call.version, DateText(call.exp))),
               IF call.now = Unknown THEN Unknown ELSE Instant(call.now), call.min)]

VerifyABrokenRole ==
  /\ Is("broken")
  /\ out' = [err |-> UptaneVerifyRole(BrokenRoot(call.path, call.by), "targets",
               BrokenEnvelope(call.path, call.by), Instant(<<2024, 2, 29, 0>>), 2)]

SerialiseTwo ==
  /\ Is("text")
  /\ out' = [err |-> "done", one |-> UptaneCanonicalJson(call.one, 64),
             two |-> UptaneCanonicalJson(call.two, 64)]

SelectAndCosign ==
  /\ Is("cosign")
  /\ LET chosen == UptaneSelectTarget(TargetsDoc(call.director, Object(<<>>)), <<"ours">>)
     IN  out' = [err |-> chosen.err, target |-> chosen.target,
                 match |-> IF chosen.err = "ESP_OK"
                           THEN CrosscheckTarget(TargetsDoc(call.image, <<"null">>), chosen.target)
                           ELSE "not asked"]

CheckALink ==
  /\ Is("link")
  /\ out' = [err |-> VerifyMetaLink(
       Object(<<<<"meta", Object(<<<<"snapshot.json", Object(PinFields(call.length, call.sha)
          \o IF call.version = 0 THEN <<>> ELSE << <<"version", <<"num", call.version>> >> >>)>> >>)>> >>),
       "snapshot.json", call.file, call.size, call.ref)]

Installed(file) == [NoTarget EXCEPT !.filepath = <<"p">>, !.length = 1, !.sha256 = Sha256(file)]
Report ==
  /\ Is("report")
  /\ LET cid == CorrelationId(TargetsDoc(<<>>, CidCustom(call.cid)))
     IN  out' = [err |-> "done", manifest |->
           IF call.sec.present
           THEN BuildManifestEx(<<"ecu1">>, Installed(call.file), <<>>, cid, call.success, call.sec, PubOf.a)
           ELSE IF cid = <<>> THEN BuildManifest(<<"ecu1">>, Installed(call.file), <<>>, PubOf.a)
           ELSE BuildManifestReport(<<"ecu1">>, Installed(call.file), <<>>, cid, call.success, PubOf.a)]

Next == VerifyARole \/ VerifyABrokenRole \/ SerialiseTwo \/ SelectAndCosign \/ CheckALink \/ Report

Spec == Init /\ [][Next]_vars

-----------------------------------------------------------------------------
Answered(family) == call.family = family /\ out # Pending

\* SAFETY.  akt_verify_role reads its documents right: an envelope is accepted
\* only when as many of the role's keys as the threshold asks for (at least
\* one) signed this very document, in whatever order its fields were written,
\* it expires after `now' by the calendar, and its version is no older than
\* asked; and it is refused only when one of these fails, as long as no key id
\* has two entries.  A document that is accepted whole is refused with any of
\* its pieces missing, of another type or malformed.
Signed(kid) == \E i \in DOMAIN call.entries :
                 call.entries[i].keyid = kid /\ call.entries[i].by = kid
                 /\ call.entries[i].what \in {"same", "reordered"}
Deserved ==
  /\ call.threshold > 0
  /\ Cardinality({i \in DOMAIN call.keyids : Signed(call.keyids[i])}) >= call.threshold
  /\ call.now # Unknown => ~NotAfter(Instant(call.exp), Instant(call.now))
  /\ call.version >= call.min
OneEntryEach == \A i, j \in DOMAIN call.entries :
                  call.entries[i].keyid = call.entries[j].keyid => i = j
AcceptsExactly ==
  /\ Answered("role") => /\ out.err = "ESP_OK" => Deserved
                         /\ Deserved /\ OneEntryEach => out.err = "ESP_OK"
  /\ Answered("broken") => (out.err = "ESP_OK" <=> call.path = <<>>)

\* SAFETY.  The canonical text decides what a signature covers: two documents
\* have one text exactly when they say the same, whatever the order of their
\* fields, so that nothing else carries the signature of either
\* (akt_canonical.c: escaping, separators and the key sort).
CanonicalDecides ==
  Answered("text") =>
    /\ out.one.err = "ESP_OK" /\ out.two.err = "ESP_OK"
    /\ out.one.text = out.two.text <=> Meaning(call.one) = Meaning(call.two)

\* SAFETY.  What is installed is what both repositories pin: the Director's
\* choice is its first target for our hardware, and it is installed exactly
\* when the Image repository has a target of the same path, length and digest,
\* in either case of its hexadecimal; a link of the Image repository's chain
\* holds exactly for the pinned file, in its pinned size and version.
Chosen == {i \in DOMAIN call.director : /\ call.director[i].shape \in Ours
                                         /\ \A j \in 1 .. i - 1 : call.director[j].shape \notin Ours}
Agreed(d) == \E i \in DOMAIN call.image : /\ call.image[i].path = d.path
                                           /\ call.image[i].length = d.length
                                           /\ FileOf[call.image[i].sha] = FileOf[d.sha]
PinsAreExact ==
  /\ Answered("cosign") =>
       LET good == {i \in Chosen : /\ FileOf[call.director[i].sha] # 0
                                   /\ call.director[i].path \in Paths}
       IN  /\ out.err = "ESP_OK" <=> good # {}
           /\ \A i \in good : /\ out.target.filepath = call.director[i].path
                              /\ out.target.sha256 = Sha256(FileOf[call.director[i].sha])
                              /\ out.match = "ESP_OK" <=> Agreed(call.director[i])
  /\ Answered("link") =>
       (out.err = "OK" <=> /\ FileOf[call.sha] = call.file /\ call.length = call.size
                           /\ call.ref < 0 \/ (call.version # 0 /\ call.ref = call.version))

\* SAFETY.  A manifest tells the server about the right ECU: it and each ECU's
\* part verify under the ECU key by the method they name, every part is filed
\* under the serial it signs, and the installation report - there exactly when
\* one of the ECUs has an assignment to answer for - names an ECU of the
\* manifest with that ECU's own assignment and result.
Verifies(env) ==
  LET sig == Get(env, "signatures")[2][1]
  IN  /\ Get(sig, "keyid")[2] = KeyId(PubOf.a)
      /\ CryptoVerify(MethodFromStr(Get(sig, "method")[2]), PubOf.a, Get(sig, "sig")[2],
                      Canonical(Get(env, "signed"))) = "ESP_OK"
ReportScoped ==
  Answered("report") =>
    LET signed == Get(out.manifest, "signed")
        parts  == Get(signed, "ecu_version_manifests")[2]
        ir     == Get(signed, "installation_report")
        report == Get(ir, "report")
        ofPrimary == call.cid = "set"
        ofSecondary == call.sec.present /\ call.sec.cid # <<>>
        ecu    == Get(Get(report, "items")[2][1], "ecu")[2]
    IN  /\ Verifies(out.manifest)
        /\ {parts[i][1] : i \in DOMAIN parts}
             = {<<"ecu1">>} \cup (IF call.sec.present THEN {<<"ecu2">>} ELSE {})
        /\ \A i \in DOMAIN parts :
             /\ Verifies(parts[i][2])
             /\ Get(Get(parts[i][2], "signed"), "ecu_serial")[2] = parts[i][1]
        /\ ir = <<"null">> <=> ~ofPrimary /\ ~ofSecondary
        /\ ir # <<"null">> =>
             /\ ecu = IF ofSecondary THEN <<"ecu2">> ELSE <<"ecu1">>
             /\ Get(report, "correlation_id")[2] = IF ofSecondary THEN call.sec.cid ELSE <<"urn1">>
             /\ Get(Get(report, "result"), "success")[2]
                  = IF ofSecondary THEN call.sec.success ELSE call.success

=============================================================================
