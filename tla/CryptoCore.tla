----------------------------- MODULE CryptoCore -----------------------------
(***************************************************************************)
(* Keys, digests, signatures and their text forms: akt_crypto.c and its    *)
(* wrapper aktualino_crypto.c.  Cryptography is symbolic: a signature is a *)
(* text that stands for the method, the key and the signed text, and it    *)
(* verifies under exactly those.  Ed25519 keys and digests are sequences   *)
(* of DigestBytes bytes (32 in the code), as hexadecimal text is decoded;  *)
(* a file is a number below 15.                                            *)
(***************************************************************************)
EXTENDS Json, TLC

CONSTANTS DigestBytes,
          SignatureOf(_, _, _)  \* of a method, a key and a text

ASSUME CryptoAssumption == DigestBytes \in 1 .. 32

HexDigits == <<"0", "1", "2", "3", "4", "5", "6", "7", "8", "9", "a", "b", "c", "d", "e", "f">>
HexUpper  == <<"0", "1", "2", "3", "4", "5", "6", "7", "8", "9", "A", "B", "C", "D", "E", "F">>

\* hexval: either case; -1 for anything else.
HexVal(c) ==
  IF \E i \in 1 .. 16 : c \in {HexDigits[i], HexUpper[i]}
  THEN (CHOOSE i \in 1 .. 16 : c \in {HexDigits[i], HexUpper[i]}) - 1 ELSE -1

\* akt_hex_decode succeeds and fills all the bytes of a digest or a key: it
\* refuses an odd number of digits, too many and a foreign character, and its
\* callers fewer bytes.
IsDigest(hex) == /\ Len(hex) % 2 = 0 /\ Len(hex) \div 2 = DigestBytes
                 /\ \A i \in DOMAIN hex : HexVal(hex[i]) >= 0
HexDecode(hex) ==
  [i \in 1 .. Len(hex) \div 2 |-> HexVal(hex[2 * i - 1]) * 16 + HexVal(hex[2 * i])]

HexEncode(bytes) ==
  [i \in 1 .. 2 * Len(bytes) |->
     LET b == bytes[(i + 1) \div 2]
     IN  HexDigits[1 + (IF i % 2 = 1 THEN b \div 16 ELSE b % 16)]]

Sha256(file) == [i \in 1 .. DigestBytes |-> 16 * file + i]

\* The key id of a raw Ed25519 key: the digest of its SubjectPublicKeyInfo.
KeyId(pk) == <<ToString(<<"keyid", pk>>)>>

SignEd25519(pair, text) == SignatureOf("ed25519", pair, text)

VerifyEd25519(pk, text, sig) ==
  Len(pk) = DigestBytes /\ sig = SignatureOf("ed25519", pk, text)
VerifyRsaPss(pem, text, sig) == sig = SignatureOf("rsassa-pss-sha256", pem, text)

\* base64: the text of a signature; "!" stands for a text that is not base64.
Base64Decode(text) == IF text = <<"!">> THEN Missing ELSE text
Base64Encode(sig) == sig

Methods == {"ed25519", "rsassa-pss-sha256"}
MethodFromStr(text) ==
  IF \E m \in Methods : text = <<m>> THEN CHOOSE m \in Methods : text = <<m>> ELSE "unknown"
MethodToStr(m) == <<m>>

\* akt_verify, dispatched on the `method' of a signature.
Verify(method, key, text, sig) ==
  CASE MethodFromStr(method) = "ed25519" -> VerifyEd25519(key, text, sig)
    [] MethodFromStr(method) = "rsassa-pss-sha256" -> VerifyRsaPss(key, text, sig)
    [] OTHER -> FALSE

\* aktualino_crypto_verify: the same behind an enum and an error code.
CryptoVerify(method, key, sig, text) ==
  IF Verify(MethodToStr(method), key, text, sig) THEN "ESP_OK" ELSE "ESP_ERR_INVALID_CRC"

VerifyWithPubkey(key, text, sig) ==
  CASE key.method = "ed25519" -> VerifyEd25519(key.pub, text, sig)
    [] key.method = "rsassa-pss-sha256" -> VerifyRsaPss(key.pub, text, sig)
    [] OTHER -> FALSE

\* strcasecmp, of the only two names it is asked about.
SameButCase(text, name) ==
  \/ name = "ED25519" /\ text \in {<<"ED25519">>, <<"ed25519">>, <<"Ed25519">>}
  \/ name = "RSA" /\ text \in {<<"RSA">>, <<"rsa">>}

Refused == [method |-> "refused", pub |-> <<>>]

\* akt_parse_tuf_key; "refused" is its -1.
ParseTufKey(key) ==
  LET kt  == Get(key, "keytype")
      val == Get(key, "keyval")
      pub == Get(val, "public")
  IN  IF ~IsString(kt) \/ ~IsObject(val) \/ ~IsString(pub) THEN Refused
      ELSE IF SameButCase(kt[2], "ED25519")
           THEN IF ~IsDigest(pub[2]) THEN Refused
                ELSE [method |-> "ed25519", pub |-> HexDecode(pub[2])]
           ELSE IF SameButCase(kt[2], "RSA")
                THEN [method |-> "rsassa-pss-sha256", pub |-> pub[2]]
                ELSE Refused

=============================================================================
