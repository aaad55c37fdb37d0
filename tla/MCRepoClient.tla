---------------------------- MODULE MCRepoClient ----------------------------
(***************************************************************************)
(* Small instances of RepoClient: two or three roots that hand the keys    *)
(* over, and four that keep them.                                          *)
(***************************************************************************)
EXTENDS RepoClient

\* Root 2 replaces the root key by two and needs both; root 3 drops the first of
\* them, and new role keys come with it.
HandoverRootKeys == <<<<"a">>, <<"b", "c">>, <<"c">>>>
HandoverThreshold == <<1, 2, 1>>
HandoverRoleKeys == <<<<"k">>, <<"k">>, <<"l">>>>

\* Root 2 replaces the role keys.
NewRoleKeys == <<<<"k">>, <<"l">>>>
TwoRootKeys == <<<<"a">>, <<"a", "b">>>>
TwoThreshold == <<1, 2>>

\* Four roots with the same keys: only the dates change.
RenewedRootKeys == <<<<"a">>, <<"a">>, <<"a">>, <<"a">>>>
RenewedThreshold == <<1, 1, 1, 1>>
RenewedRoleKeys == <<<<"k">>, <<"k">>, <<"k">>, <<"k">>>>

\* One root.
OneRootKeys == <<<<"a">>>>
OneThreshold == <<1>>
OneRoleKeys == <<<<"k">>>>
=============================================================================
