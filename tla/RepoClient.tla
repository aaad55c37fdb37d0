----------------------------- MODULE RepoClient -----------------------------
(***************************************************************************)
(* The device's side of one Uptane repository: the trust anchor, the root  *)
(* rotation walk, the three roles with their versions in NVS, and (Image   *)
(* repo only) the hash chain over the served bytes; poll after poll, with  *)
(* power loss in between.  Both repositories run this code, each on its    *)
(* own NVS keys: Chained tells them apart.                                 *)
(*                                                                         *)
(* The repository publishes roots and releases.  What a GET returns is any *)
(* file it ever published for that role, or nothing: caches, retries and   *)
(* releases made between two GETs of one poll.                             *)
(***************************************************************************)
EXTENDS Naturals, Sequences, FiniteSets

CONSTANTS
  Chained,       \* TRUE: Image repo, FALSE: Director
  RootKeys,      \* root version |-> the key ids of its root role, a sequence
  RootThreshold, \* root version |-> its root-role threshold
  RoleKeys,      \* root version |-> the key ids of its other roles, a sequence
  Oversized,     \* roots whose envelope does not fit ROOT_READ_CAP (8 KiB)
  RootLife,      \* time from a root's publication to its expiry
  TimestampLife, \* the same for a timestamp ...
  FileLife,      \* ... and for snapshot and targets
  Seeded,        \* TRUE: provisioning stored root 1, FALSE: it is embedded
  MaxReleases,   \* bound on releases
  MaxTime,       \* bound on time
  None,          \* no file
  Faults         \* the faults the environment may inject

FaultKinds == {"nvs",        \* an NVS write fails
               "misplaced",  \* some other root is served as N.root.json
               "bad_clock"}  \* SNTP steps the clock below the sanity floor

MaxRoot == Len(RootKeys)
Roles == {"timestamp", "snapshot", "targets"}

\* Times.  The clock starts at the sanity floor; any time below it is BadTime.
Floor == 2
BadTime == 1

ASSUME RepoClientAssumption ==
  /\ Chained \in BOOLEAN /\ Seeded \in BOOLEAN
  /\ MaxRoot \in Nat \ {0}
  /\ DOMAIN RoleKeys = 1 .. MaxRoot /\ DOMAIN RootThreshold = 1 .. MaxRoot
  /\ RootThreshold \in [1 .. MaxRoot -> Nat \ {0}]
  /\ \A v \in 1 .. MaxRoot : IsFiniteSet(DOMAIN RootKeys[v])
  /\ Oversized \subseteq 2 .. MaxRoot
  /\ RootLife \in Nat \ {0} /\ FileLife \in Nat \ {0} /\ TimestampLife \in Nat \ {0}
  /\ MaxReleases \in Nat \ {0} /\ MaxTime \in Nat /\ MaxTime >= Floor
  /\ Faults \subseteq FaultKinds

VARIABLES
  time,      \* the true time
  skewed,    \* the device's clock is below the floor
  roots,     \* repository: when root 1, 2, ... was published
  releases,  \* repository: the releases published, oldest first
  nroot,     \* NVS: the version of the trusted root; 0: none stored
  nver,      \* NVS: the stored version of each role; 0: none
  pc,        \* RAM: the step of the poll
  now,       \* RAM: the time of this poll
  root,      \* RAM: the version of the root this poll verifies against
  link,      \* RAM: the next link of the root walk
  latest,    \* RAM: the version the server's root.json claims
  held,      \* RAM: the file fetched and verified for each role
  last       \* history: the files of the last accepted poll, or None

repository == <<time, roots, releases>>
poll == <<pc, now, root, link, latest, held>>
vars == <<time, skewed, roots, releases, nroot, nver, pc, now, root, link,
          latest, held, last>>

V == INSTANCE RoleVerify

-----------------------------------------------------------------------------
(* The repository. *)

\* Root v.  Every root after the first carries the signatures of its own keys
\* and of its predecessor's.
RootKeyids(v) == {RootKeys[v][i] : i \in DOMAIN RootKeys[v]}
RoleKeyids(v) == {RoleKeys[v][i] : i \in DOMAIN RoleKeys[v]}

RootDoc(v) ==
  [keys |-> RootKeyids(v) \cup RoleKeyids(v),
   roles |-> [r \in Roles \cup {"root"} |->
                IF r = "root" THEN [keyids |-> RootKeys[v], threshold |-> RootThreshold[v]]
                              ELSE [keyids |-> RoleKeys[v], threshold |-> 1]]]

Signed(keyids) == [i \in DOMAIN keyids |-> [keyid |-> keyids[i], valid |-> TRUE]]

RootEnvelope(v) ==
  [signatures |-> Signed(IF v = 1 THEN RootKeys[1] ELSE RootKeys[v] \o RootKeys[v - 1]),
   ver |-> v, exp |-> roots[v] + RootLife]

\* A file of another role, with the file whose bytes it pins (None: it pins none).
File(ver, by, pins) == [ver |-> ver, exp |-> time + FileLife, by |-> by, pins |-> pins]
Timestamp(ver, by, pins) == [File(ver, by, pins) EXCEPT !.exp = time + TimestampLife]

FileEnvelope(f) ==
  [signatures |-> Signed(RoleKeys[f.by]), ver |-> f.ver, exp |-> f.exp]

Newest == releases[Len(releases)]

FirstRelease ==
  LET tgt == [ver |-> 1, exp |-> Floor + FileLife, by |-> 1, pins |-> None]
      snap == [ver |-> 1, exp |-> Floor + FileLife, by |-> 1, pins |-> tgt]
      ts == [ver |-> 1, exp |-> Floor + TimestampLife, by |-> 1, pins |-> snap]
  IN  [timestamp |-> ts, snapshot |-> snap, targets |-> tgt]

\* A release of these targets and snapshot, under a timestamp with the next version.
Issue(snap, tgt) ==
  /\ Len(releases) < MaxReleases
  /\ releases' = Append(releases,
       [timestamp |-> Timestamp(Newest.timestamp.ver + 1, Len(roots), snap),
        snapshot |-> snap, targets |-> tgt])
  /\ UNCHANGED <<time, skewed, roots, nroot, nver, poll, last>>

\* Snapshot and targets issued now, with these versions.
SnapshotOf(ver, tgt) == File(ver, Len(roots), tgt)
TargetsOf(ver) == File(ver, Len(roots), None)

\* New targets: all three files are issued with the next version.
PublishTargets ==
  LET tgt == TargetsOf(Newest.targets.ver + 1)
  IN  Issue(SnapshotOf(Newest.snapshot.ver + 1, tgt), tgt)

\* The same targets and snapshot, signed again with the versions they had.
Resign ==
  LET tgt == TargetsOf(Newest.targets.ver)
  IN  Issue(SnapshotOf(Newest.snapshot.ver, tgt), tgt)

\* Only the timestamp is issued again.
Refresh == Issue(Newest.snapshot, Newest.targets)

PublishRoot ==
  /\ Len(roots) < MaxRoot
  /\ roots' = Append(roots, time)
  /\ UNCHANGED <<time, skewed, releases, nroot, nver, poll, last>>

Tick ==
  /\ time < MaxTime
  /\ time' = time + 1
  /\ UNCHANGED <<skewed, roots, releases, nroot, nver, poll, last>>

\* What GET <role>.json may return besides an error.
Servable(role) == {releases[i][role] : i \in DOMAIN releases}

\* What GET <i>.root.json may return besides an error.
ServableRoots(i) ==
  IF "misplaced" \in Faults THEN 1 .. Len(roots) ELSE {i} \cap (1 .. Len(roots))

-----------------------------------------------------------------------------
(* The device. *)

Init ==
  /\ time = Floor /\ skewed = FALSE
  /\ roots = <<Floor>> /\ releases = <<FirstRelease>>
  /\ nroot = IF Seeded THEN 1 ELSE 0
  /\ nver = [r \in Roles |-> 0]
  /\ pc = "boot" /\ now = 0 /\ root = 0 /\ link = 0 /\ latest = 0
  /\ held = [r \in Roles |-> None]
  /\ last = None

\* RAM starts over.
PowerLoss ==
  /\ pc # "boot"
  /\ pc' = "boot" /\ now' = 0 /\ root' = 0 /\ link' = 0 /\ latest' = 0
  /\ held' = [r \in Roles |-> None]
  /\ UNCHANGED <<repository, skewed, nroot, nver, last>>

Clock == IF skewed THEN BadTime ELSE time

\* SNTP keeps polling in the background and steps the clock.
ClockSteps ==
  /\ "bad_clock" \in Faults
  /\ skewed' = TRUE
  /\ UNCHANGED <<repository, nroot, nver, poll, last>>

\* The stored root can be read back.
Readable == nroot # 0 /\ nroot \notin Oversized

\* trust_anchor_init_repo with a root in NVS: it must verify against itself;
\* now = 0, so its expiry does not matter.
AnchorStored ==
  /\ pc = "boot" /\ Readable
  /\ pc' = IF V!VerifyRole(RootDoc(nroot), "root", RootEnvelope(nroot), 0, 0) = "OK"
           THEN "idle" ELSE "parked"
  /\ UNCHANGED <<repository, skewed, nroot, nver, now, root, link, latest, held, last>>

\* ... without one it can read: the embedded root, root 1, is verified and pinned.
AnchorEmbedded ==
  /\ pc = "boot" /\ ~Readable
  /\ \/ /\ V!VerifyRole(RootDoc(1), "root", RootEnvelope(1), Clock, 0) = "OK"
        /\ nroot' = 1 /\ pc' = "idle"
     \/ /\ V!VerifyRole(RootDoc(1), "root", RootEnvelope(1), Clock, 0) # "OK"
           \/ "nvs" \in Faults
        /\ pc' = "parked" /\ UNCHANGED nroot
  /\ UNCHANGED <<repository, skewed, nver, now, root, link, latest, held, last>>

\* The poll loop's time gate: below the floor, SNTP is tried again and the
\* clock is read again, whether or not that helped.
BeginPoll ==
  /\ pc = "idle"
  /\ \/ skewed' = FALSE /\ now' = time
     \/ skewed /\ now' = BadTime /\ UNCHANGED skewed
  /\ pc' = "walk" /\ root' = nroot
  /\ UNCHANGED <<repository, nroot, nver, link, latest, held, last>>

\* The end of a poll, however it ends.
Leave ==
  /\ pc' = "idle" /\ now' = 0 /\ root' = 0 /\ link' = 0 /\ latest' = 0
  /\ held' = [r \in Roles |-> None]

\* walk_root_rotation starts from the root in NVS.
RootUnreadable ==
  /\ pc = "walk" /\ ~Readable /\ Leave
  /\ UNCHANGED <<repository, skewed, nroot, nver, last>>

\* root.json only tells how far to walk.  No answer, and a version not above
\* the trusted one, leave the trusted root in use.
LearnLatest(v) ==
  /\ pc = "walk" /\ Readable
  /\ IF v > root
     THEN pc' = "link" /\ link' = root + 1 /\ latest' = v
     ELSE pc' = "timestamp" /\ UNCHANGED <<link, latest>>
  /\ UNCHANGED <<repository, skewed, nroot, nver, now, root, held, last>>

LatestUnknown ==
  /\ pc = "walk" /\ Readable
  /\ pc' = "timestamp"
  /\ UNCHANGED <<repository, skewed, nroot, nver, now, root, link, latest, held, last>>

\* Mutant: a link may be a root of any version.
LinkVerifiesAnyVersion(v) ==
  /\ V!VerifyRole(RootDoc(root), "root", RootEnvelope(v), now, 0) = "OK"
  /\ V!VerifyRole(RootDoc(v), "root", RootEnvelope(v), now, 0) = "OK"

\* Mutant: a link need only be signed by itself.
LinkVerifiesItself(v) ==
  V!VerifyRole(RootDoc(v), "root", RootEnvelope(v), now, link) = "OK"

\* A link: signed by the root trusted so far and by itself.
LinkVerifies(v) ==
  /\ V!VerifyRole(RootDoc(root), "root", RootEnvelope(v), now, link) = "OK"
  /\ V!VerifyRole(RootDoc(v), "root", RootEnvelope(v), now, link) = "OK"

\* Mutant: what is stored is the number of the next link.
AdoptLinkStoresNext(v) ==
  /\ pc = "link" /\ LinkVerifies(v)
  /\ root' = v
  /\ nroot' = link + 1
  /\ link' = link + 1
  /\ pc' = IF link = latest THEN "timestamp" ELSE "link"
  /\ UNCHANGED <<repository, skewed, nver, now, latest, held, last>>

\* Adopt the link: it is stored (a failure is ignored) and used.
AdoptLink(v) ==
  /\ pc = "link" /\ LinkVerifies(v)
  /\ root' = v
  /\ nroot' = v \/ ("nvs" \in Faults /\ UNCHANGED nroot)
  /\ link' = link + 1
  /\ pc' = IF link = latest THEN "timestamp" ELSE "link"
  /\ UNCHANGED <<repository, skewed, nver, now, latest, held, last>>

\* A link that cannot be fetched or does not verify ends the poll; the links
\* adopted before it stay.
LinkFails ==
  /\ pc = "link" /\ Leave
  /\ UNCHANGED <<repository, skewed, nroot, nver, last>>

NextRole == [timestamp |-> "snapshot", snapshot |-> "targets", targets |-> "chain"]

\* Mutant: files are verified against the root on flash.
FileVerifiesStored(role, f) ==
  V!VerifyRole(RootDoc(nroot), role, FileEnvelope(f), now, nver[role]) = "OK"

FileVerifies(role, f) ==
  V!VerifyRole(RootDoc(root), role, FileEnvelope(f), now, nver[role]) = "OK"

\* Mutant: the version is not stored.
VerifyFileNotStored(role, f) ==
  /\ pc = role /\ FileVerifies(role, f)
  /\ held' = [held EXCEPT ![role] = f]
  /\ pc' = NextRole[role]
  /\ UNCHANGED <<repository, skewed, nroot, nver, now, root, link, latest, last>>

\* verify_role_fetch: the version is stored (a failure is ignored) as soon as
\* this file verifies, before the files that depend on it are even fetched.
VerifyFile(role, f) ==
  /\ pc = role /\ FileVerifies(role, f)
  /\ nver' = [nver EXCEPT ![role] = f.ver] \/ ("nvs" \in Faults /\ UNCHANGED nver)
  /\ held' = [held EXCEPT ![role] = f]
  /\ pc' = NextRole[role]
  /\ UNCHANGED <<repository, skewed, nroot, now, root, link, latest, last>>

FileFails ==
  /\ pc \in Roles /\ Leave
  /\ UNCHANGED <<repository, skewed, nroot, nver, last>>

\* Mutant: only the first link of the chain is followed.
ChainHoldsHalf == held["timestamp"].pins = held["snapshot"]

\* akt_verify_meta_link, twice: length, SHA-256 and version of the raw bytes.
ChainHolds ==
  /\ held["timestamp"].pins = held["snapshot"]
  /\ held["snapshot"].pins = held["targets"]

VerifyChain ==
  /\ pc = "chain" /\ (Chained => ChainHolds)
  /\ pc' = "accepted"
  /\ UNCHANGED <<repository, skewed, nroot, nver, now, root, link, latest, held, last>>

ChainFails ==
  /\ pc = "chain" /\ Chained /\ ~ChainHolds /\ Leave
  /\ UNCHANGED <<repository, skewed, nroot, nver, last>>

\* The targets are used, and the poll ends.
EndPoll ==
  /\ pc = "accepted" /\ Leave
  /\ last' = held
  /\ UNCHANGED <<repository, skewed, nroot, nver>>

-----------------------------------------------------------------------------
\* The application thread, whatever the server answers.
Device ==
  \/ AnchorStored \/ AnchorEmbedded \/ BeginPoll \/ RootUnreadable
  \/ \E v \in 1 .. Len(roots) : LearnLatest(v)
  \/ LatestUnknown
  \/ \E v \in ServableRoots(link) : AdoptLink(v)
  \/ LinkFails
  \/ \E role \in Roles : \E f \in Servable(role) : VerifyFile(role, f)
  \/ FileFails \/ VerifyChain \/ ChainFails \/ EndPoll

Environment ==
  \/ PublishTargets \/ Resign \/ Refresh
  \/ PublishRoot \/ Tick \/ ClockSteps

Next == Device \/ Environment \/ PowerLoss

Spec == Init /\ [][Next]_vars

\* The thread runs while the board is powered; nothing else is assumed fair.
FairSpec == Spec /\ WF_vars(Device)

-----------------------------------------------------------------------------
(* Properties *)

Files(pinned) == [ver: Nat, exp: Nat, by: 1 .. MaxRoot, pins: pinned]
TargetsFiles == Files({None})
SnapshotFiles == Files(TargetsFiles)
TimestampFiles == Files(SnapshotFiles)
Release == [timestamp: TimestampFiles, snapshot: SnapshotFiles, targets: TargetsFiles]
Held == [timestamp: TimestampFiles \cup {None}, snapshot: SnapshotFiles \cup {None},
         targets: TargetsFiles \cup {None}]

RepositoryTypeOK ==
  /\ time \in Floor .. MaxTime
  /\ roots \in Seq(Nat) /\ Len(roots) \in 1 .. MaxRoot
  /\ releases \in Seq(Release) /\ Len(releases) \in 1 .. MaxReleases

Phases == {"boot", "parked", "idle", "walk", "link", "timestamp", "snapshot", "targets",
           "chain", "accepted"}

ClientTypeOK ==
  /\ skewed \in BOOLEAN
  /\ nroot \in 0 .. Len(roots) /\ nver \in [Roles -> Nat]
  /\ pc \in Phases
  /\ now \in {0, BadTime} \cup (Floor .. MaxTime)
  /\ root \in 0 .. Len(roots) /\ link \in Nat /\ latest \in 0 .. Len(roots)
  /\ held \in Held /\ last \in Held \cup {None}

\* TYPE INVARIANT: the values of the repository's and the client's variables.
TypeOK == RepositoryTypeOK /\ ClientTypeOK

\* SAFETY.  What the chain over the raw bytes is for: the three files an
\* accepted poll used were published together, however the files of different
\* releases were mixed on the way.
OneRelease ==
  Chained /\ pc = "accepted" => \E i \in DOMAIN releases : releases[i] = held

\* SAFETY.  What the expiry of the short-lived timestamp is for: the Image repo's
\* targets are accepted after newer ones were published only while the timestamp
\* that published those is itself unexpired.
BoundedStaleness ==
  Chained /\ pc = "accepted" =>
    \A i \in DOMAIN releases :
      releases[i].targets.ver > held.targets.ver => releases[i].timestamp.exp > now

\* SAFETY.  Rollback protection: no poll accepts a file older than the one of
\* that role an earlier poll accepted, whatever power losses and failed polls
\* came in between.
AcceptedNeverOlder ==
  pc = "accepted" /\ last # None => \A r \in Roles : held[r].ver >= last[r].ver

\* SAFETY.  The root walk, whatever is served at N.root.json: each link takes
\* the trusted root to at least its version, and the roles are verified against
\* a root no older than the one the walk set out for.
WalkArrives ==
  /\ pc = "link" => root >= link - 1
  /\ pc \in Roles \cup {"chain", "accepted"} => root >= latest

\* SAFETY.  Key rotation revokes: what a poll has verified so far carries a key
\* that the root it trusts names for the role, whichever root the file was
\* published under and whatever files and roots are served.
NoRevokedKey ==
  pc \in Roles \cup {"chain", "accepted"} =>
    \A r \in Roles : held[r] # None => RoleKeyids(held[r].by) \cap RoleKeyids(root) # {}

\* ACTION.  Rollback protection on flash: the version stored for a role never goes
\* down; neither does the trusted root, as long as a stored root can be read back
\* and no root is served under the number of another.
VersionsNeverGoBack == [][\A r \in Roles : nver'[r] >= nver[r]]_nver
RootNeverGoesBack == [][nroot' >= nroot]_nroot

\* ACTION.  Trust is handed over, never seized: the poll moves to another root
\* only if as many different root keys of the one it trusted signed it as that
\* one asks for, and as many of its own as it asks for itself.
TrustIsHandedOver ==
  [][pc = "link" /\ root' # 0 =>
       \A r \in {root, root'} :
         Cardinality(V!Signers(RootDoc(r), "root", RootEnvelope(root'))) >= RootThreshold[r]]_root

\* ACTION.  A poll ends, whatever is served: every one of its steps leaves fewer
\* to do, where the walk counts the links up to the root it set out for.
StepsLeft ==
  CASE pc = "walk" -> MaxRoot + 6   [] pc = "link" -> latest - link + 6
    [] pc = "timestamp" -> 5        [] pc = "snapshot" -> 4
    [] pc = "targets" -> 3          [] pc = "chain" -> 2
    [] pc = "accepted" -> 1         [] OTHER -> 0
Polling == pc \in {"walk", "link", "chain", "accepted"} \cup Roles
PollsEnd == [][Polling => StepsLeft' \in Nat /\ StepsLeft' < StepsLeft]_poll

\* ACTION.  core.h: "On later boots the persisted (possibly rotation-advanced)
\* root is loaded": a start does not replace the root an earlier one stored.
PersistedRootIsUsed == [][pc = "boot" /\ nroot # 0 => nroot' = nroot]_nroot

\* The device's step when every GET returns the newest file.
Honest ==
  \/ AnchorStored \/ AnchorEmbedded \/ BeginPoll \/ RootUnreadable
  \/ LearnLatest(Len(roots))
  \/ pc = "link" /\ AdoptLink(link)
  \/ pc = "link" /\ ~LinkVerifies(link) /\ LinkFails
  \/ \E role \in Roles :
       \/ VerifyFile(role, Newest[role])
       \/ pc = role /\ ~FileVerifies(role, Newest[role]) /\ FileFails
  \/ VerifyChain \/ ChainFails \/ EndPoll

\* The newest release and the newest root are unexpired, agree on the keys, and
\* the clock is right.
Fresh ==
  /\ ~skewed
  /\ roots[Len(roots)] + RootLife > time
  /\ \A r \in Roles : /\ Newest[r].exp > time
                      /\ RoleKeys[Newest[r].by] = RoleKeys[Len(roots)]

\* From some time on the server answers with its newest files, publishes nothing
\* new, and power is steady.
Calm == <>[][Honest]_vars

\* LIVENESS.  Whatever a past of stale answers, half-finished polls and power
\* losses left in NVS, it does not lock the device out: it comes to accept the
\* newest targets, again and again.
CatchesUp ==
  Calm /\ <>[]Fresh => []<>(pc = "accepted" /\ held.targets = Newest.targets)

=============================================================================
