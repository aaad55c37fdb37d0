----------------------------- MODULE RoleVerify -----------------------------
(***************************************************************************)
(* The pure checks every piece of Uptane metadata goes through             *)
(* (akt_uptane.c), over abstract documents:                                *)
(*   a root is     [keys: the key ids it defines,                          *)
(*                  roles: role |-> [keyids: sequence, threshold: number]] *)
(*   an envelope is [signatures: sequence of [keyid, valid],               *)
(*                  ver: number, exp: time or None if absent or malformed] *)
(* A signature is `valid' when it verifies, with the key its keyid names,  *)
(* over the canonical bytes of this very envelope.  Documents that lack a  *)
(* mandatory field are left out; they are refused as PARSE.                *)
(***************************************************************************)
EXTENDS Integers, Sequences, FiniteSets

CONSTANT None

Codes == {"OK", "NO_ROLE", "THRESHOLD", "PARSE", "EXPIRED", "ROLLBACK"}

\* find_sig: the first signature entry for the key id is the one looked at.
Carries(env, k) ==
  \E i \in DOMAIN env.signatures :
    /\ env.signatures[i].keyid = k /\ env.signatures[i].valid
    /\ \A j \in 1 .. i - 1 : env.signatures[j].keyid # k

\* Mutant: any signature that verifies counts, whoever may sign the role.
AnySignature(root, role, env) ==
  Cardinality({i \in DOMAIN env.signatures : env.signatures[i].valid
                 /\ env.signatures[i].keyid \in root.keys})

\* The entries of the role's keyids list that carry a valid signature.
ValidCount(root, role, env) ==
  LET keyids == root.roles[role].keyids
  IN  Cardinality({i \in DOMAIN keyids : keyids[i] \in root.keys /\ Carries(env, keyids[i])})

\* Mutant: the version must have grown.
VerifyRoleStrictVersion(root, role, env, now, min) ==
  CASE role \notin DOMAIN root.roles -> "NO_ROLE"
    [] ~(root.roles[role].threshold > 0
         /\ ValidCount(root, role, env) >= root.roles[role].threshold) -> "THRESHOLD"
    [] now # 0 /\ env.exp = None -> "PARSE"
    [] now # 0 /\ env.exp <= now -> "EXPIRED"
    [] env.ver <= min -> "ROLLBACK"
    [] OTHER -> "OK"

\* Mutant: no expiry gate.
VerifyRoleNoExpiry(root, role, env, now, min) ==
  CASE role \notin DOMAIN root.roles -> "NO_ROLE"
    [] ~(root.roles[role].threshold > 0
         /\ ValidCount(root, role, env) >= root.roles[role].threshold) -> "THRESHOLD"
    [] env.ver < min -> "ROLLBACK"
    [] OTHER -> "OK"

\* Mutant: no version gate.
VerifyRoleNoVersion(root, role, env, now, min) ==
  CASE role \notin DOMAIN root.roles -> "NO_ROLE"
    [] ~(root.roles[role].threshold > 0
         /\ ValidCount(root, role, env) >= root.roles[role].threshold) -> "THRESHOLD"
    [] now # 0 /\ env.exp = None -> "PARSE"
    [] now # 0 /\ env.exp <= now -> "EXPIRED"
    [] OTHER -> "OK"

\* akt_verify_role; now = 0 skips the expiry.
VerifyRole(root, role, env, now, min) ==
  CASE role \notin DOMAIN root.roles -> "NO_ROLE"
    [] ~(root.roles[role].threshold > 0
         /\ ValidCount(root, role, env) >= root.roles[role].threshold) -> "THRESHOLD"
    [] now # 0 /\ env.exp = None -> "PARSE"
    [] now # 0 /\ env.exp <= now -> "EXPIRED"
    [] env.ver < min -> "ROLLBACK"
    [] OTHER -> "OK"

-----------------------------------------------------------------------------
\* Reference: the different keys of the role that signed the envelope.
Signers(root, role, env) ==
  {k \in root.keys : /\ \E i \in DOMAIN root.roles[role].keyids : root.roles[role].keyids[i] = k
                     /\ Carries(env, k)}

=============================================================================
