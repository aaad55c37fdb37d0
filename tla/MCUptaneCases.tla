--------------------------- MODULE MCUptaneCases ---------------------------
(***************************************************************************)
(* The calls of UptaneCases, over the symbols their documents are made of. *)
(***************************************************************************)
EXTENDS UptaneCases

\* The characters and the names the documents use, in byte order.
ByteOrder ==
  <<"SOH", "BS", "HT", "LF", "FF", "CR", "ESC", "\"", ",", "-",
    "0", "1", "2", "3", "4", "5", "6", "7", "8", "9", ":", "T", "Targets", "Z", "[", "\\", "]", "_type",
    "a", "attacks_detected", "b", "c", "code", "content_type", "correlation_id", "e", "ecu",
    "ecu1", "ecu2", "ecu_serial", "ecu_version_manifests", "expires", "f", "fileinfo", "filepath",
    "hashes", "installation_report", "installed_image", "items", "keyid", "l", "length", "method",
    "n", "primary_ecu_serial", "r", "report", "result", "s", "sha256", "sig", "signatures", "signed",
    "success", "t", "u", "version", "{", "}">>
\* A signature is a symbol that names what it is of.
SignatureSymbol(method, key, text) == <<ToString(<<method, key, text>>)>>

=============================================================================
