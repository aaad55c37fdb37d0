-------------------------- MODULE RepoClient_proofs --------------------------
(***************************************************************************)
(* Theorems about RepoClient for every history of roots and releases.      *)
(***************************************************************************)
EXTENDS RepoClient, FiniteSetTheorems, TLAPS

\* Publishing: what a step of the repository adds.
Publishes == PublishTargets \/ Resign \/ Refresh

LEMMA Append1 ==
  ASSUME NEW S, NEW s \in Seq(S), NEW e \in S
  PROVE  /\ Append(s, e) \in Seq(S)
         /\ Len(Append(s, e)) = Len(s) + 1
         /\ \A i \in DOMAIN s : Append(s, e)[i] = s[i]
         /\ Append(s, e)[Len(s) + 1] = e
         /\ DOMAIN Append(s, e) = DOMAIN s \cup {Len(s) + 1}
  OBVIOUS

LEMMA NewestRelease == TypeOK => Newest \in Release /\ Len(releases) \in DOMAIN releases
  BY DEF TypeOK, RepositoryTypeOK, Newest

\* Every release is consistent: its files pin one another.
PinsInv ==
  \A i \in DOMAIN releases : /\ releases[i].timestamp.pins = releases[i].snapshot
                             /\ releases[i].snapshot.pins = releases[i].targets

\* What a release adds is of the right types.
LEMMA PublishType ==
  ASSUME TypeOK, PinsInv, Publishes
  PROVE  \E r \in Release :
           /\ releases' = Append(releases, r)
           /\ r.timestamp.pins = r.snapshot /\ r.snapshot.pins = r.targets
           /\ r.timestamp.ver = Newest.timestamp.ver + 1
           /\ r.targets.ver >= Newest.targets.ver
           /\ r.timestamp.exp = time + TimestampLife
<1>1. /\ Len(roots) \in 1 .. MaxRoot /\ time \in Nat
      /\ TimestampLife \in Nat /\ FileLife \in Nat
      /\ Newest.targets \in TargetsFiles /\ Newest.snapshot \in SnapshotFiles
      /\ Newest.timestamp \in TimestampFiles
  BY RepoClientAssumption, NewestRelease DEF TypeOK, RepositoryTypeOK, Release, Floor
<1>2. /\ Newest.targets.ver \in Nat /\ Newest.snapshot.ver \in Nat
      /\ Newest.timestamp.ver \in Nat
  BY <1>1 DEF TargetsFiles, SnapshotFiles, TimestampFiles, Files
<1>3. ASSUME NEW v \in Nat
      PROVE  TargetsOf(v) \in TargetsFiles /\ TargetsOf(v).ver = v
  BY <1>1 DEF TargetsOf, File, TargetsFiles, Files
<1>4. ASSUME NEW v \in Nat, NEW tgt \in TargetsFiles
      PROVE  SnapshotOf(v, tgt) \in SnapshotFiles /\ SnapshotOf(v, tgt).pins = tgt
  BY <1>1 DEF SnapshotOf, File, SnapshotFiles, Files
<1>5. ASSUME NEW tgt \in TargetsFiles, NEW snap \in SnapshotFiles, Issue(snap, tgt),
             snap.pins = tgt, tgt.ver >= Newest.targets.ver
      PROVE  \E r \in Release :
               /\ releases' = Append(releases, r)
               /\ r.timestamp.pins = r.snapshot /\ r.snapshot.pins = r.targets
               /\ r.timestamp.ver = Newest.timestamp.ver + 1
               /\ r.targets.ver >= Newest.targets.ver
               /\ r.timestamp.exp = time + TimestampLife
  <2> DEFINE ts == Timestamp(Newest.timestamp.ver + 1, Len(roots), snap)
             r == [timestamp |-> ts, snapshot |-> snap, targets |-> tgt]
  <2>1. /\ ts \in TimestampFiles /\ ts.pins = snap
        /\ ts.ver = Newest.timestamp.ver + 1 /\ ts.exp = time + TimestampLife
    BY <1>1, <1>2 DEF Timestamp, File, TimestampFiles, Files
  <2>2. r \in Release
    BY <2>1 DEF Release
  <2>3. QED
    BY <1>5, <2>1, <2>2 DEF Issue
<1>6. CASE PublishTargets
  <2> DEFINE tgt == TargetsOf(Newest.targets.ver + 1)
  <2>1. tgt \in TargetsFiles /\ tgt.ver >= Newest.targets.ver
    BY <1>2, <1>3
  <2>2. QED
    BY <1>2, <1>4, <1>5, <1>6, <2>1 DEF PublishTargets
<1>7. CASE Resign
  <2> DEFINE tgt == TargetsOf(Newest.targets.ver)
  <2>1. tgt \in TargetsFiles /\ tgt.ver >= Newest.targets.ver
    BY <1>2, <1>3
  <2>2. QED
    BY <1>2, <1>4, <1>5, <1>7, <2>1 DEF Resign
<1>8. CASE Refresh
  <2>1. Newest.snapshot.pins = Newest.targets
    BY NewestRelease DEF PinsInv, Newest
  <2>2. QED
    BY <1>1, <1>2, <1>5, <1>8, <2>1 DEF Refresh
<1>9. QED
  BY <1>6, <1>7, <1>8 DEF Publishes

-----------------------------------------------------------------------------
(* Type correctness. *)

LEMMA Constants ==
  /\ MaxRoot \in Nat \ {0} /\ MaxTime \in Nat /\ MaxTime >= Floor
  /\ TimestampLife \in Nat /\ FileLife \in Nat /\ MaxReleases \in Nat \ {0}
  BY RepoClientAssumption

LEMMA FirstReleaseType ==
  /\ FirstRelease \in Release
  /\ FirstRelease.timestamp.pins = FirstRelease.snapshot
  /\ FirstRelease.snapshot.pins = FirstRelease.targets
  /\ FirstRelease.timestamp.exp = Floor + TimestampLife
<1> DEFINE tgt == [ver |-> 1, exp |-> Floor + FileLife, by |-> 1, pins |-> None]
           snap == [ver |-> 1, exp |-> Floor + FileLife, by |-> 1, pins |-> tgt]
           ts == [ver |-> 1, exp |-> Floor + TimestampLife, by |-> 1, pins |-> snap]
<1>1. FirstRelease = [timestamp |-> ts, snapshot |-> snap, targets |-> tgt]
  BY DEF FirstRelease
<1>2. tgt \in TargetsFiles
  BY Constants DEF TargetsFiles, Files, Floor
<1>3. snap \in SnapshotFiles /\ snap.pins = tgt
  BY <1>2, Constants DEF SnapshotFiles, Files, Floor
<1>4. ts \in TimestampFiles /\ ts.pins = snap /\ ts.exp = Floor + TimestampLife
  BY <1>3, Constants DEF TimestampFiles, Files, Floor
<1>5. QED
  BY <1>1, <1>2, <1>3, <1>4 DEF Release

LEMMA NothingHeld == [r \in Roles |-> None] \in Held
  BY DEF Held, Roles

LEMMA TypeInit == Init => TypeOK
<1> SUFFICES ASSUME Init PROVE TypeOK
  OBVIOUS
<1>1. time \in Floor .. MaxTime
  BY Constants DEF Init, Floor
<1>2. roots = <<Floor>> /\ releases = <<FirstRelease>>
  BY DEF Init
<1>3. /\ roots \in Seq(Nat) /\ Len(roots) = 1 /\ 1 \in 1 .. MaxRoot
      /\ releases \in Seq(Release) /\ Len(releases) = 1 /\ 1 \in 1 .. MaxReleases
  BY <1>2, Constants, FirstReleaseType DEF Floor
<1>4. ClientTypeOK
  <2>1. /\ skewed = FALSE /\ nroot \in {0, 1} /\ nver = [r \in Roles |-> 0]
        /\ pc = "boot" /\ now = 0 /\ root = 0 /\ link = 0 /\ latest = 0
        /\ held = [r \in Roles |-> None] /\ last = None
    BY DEF Init
  <2>2. nver \in [Roles -> Nat]
    BY <2>1
  <2>3. held \in Held
    BY <2>1, NothingHeld
  <2>4. pc \in Phases
    BY <2>1 DEF Phases
  <2>5. nroot \in 0 .. Len(roots)
    BY <1>3, <2>1
  <2>6. root \in 0 .. Len(roots) /\ link \in Nat /\ latest \in 0 .. Len(roots)
    BY <1>3, <2>1
  <2>7. skewed \in BOOLEAN /\ now \in {0, BadTime} /\ last \in Held \cup {None}
    BY <2>1
  <2>8. QED
    BY <2>2, <2>3, <2>4, <2>5, <2>6, <2>7 DEF ClientTypeOK
<1>5. QED
  BY <1>1, <1>3, <1>4 DEF TypeOK, RepositoryTypeOK

\* The steps of the device leave the repository alone.
LEMMA OtherSteps ==
  Device \/ ClockSteps \/ PowerLoss \/ UNCHANGED vars => UNCHANGED repository
  BY DEF Device, AnchorStored, AnchorEmbedded, BeginPoll, RootUnreadable, LearnLatest, LatestUnknown,
     AdoptLink, LinkFails, VerifyFile, FileFails, VerifyChain, ChainFails, EndPoll,
     ClockSteps, PowerLoss, vars, repository

LEMMA RepositoryTypeStep == TypeOK /\ PinsInv /\ [Next]_vars => RepositoryTypeOK'
<1> SUFFICES ASSUME TypeOK, PinsInv, [Next]_vars PROVE RepositoryTypeOK'
  OBVIOUS
<1> USE Constants DEF TypeOK, RepositoryTypeOK
<1>1. CASE Publishes
  <2>1. /\ Len(releases) < MaxReleases /\ UNCHANGED <<time, roots>>
        /\ \E r \in Release : releases' = Append(releases, r)
    BY <1>1, PublishType DEF Publishes, PublishTargets, Resign, Refresh, Issue
  <2>2. releases' \in Seq(Release) /\ Len(releases') \in 1 .. MaxReleases
    BY <2>1
  <2>3. QED
    BY <2>1, <2>2
<1>2. CASE PublishRoot
  <2>1. time \in Nat
    BY DEF Floor
  <2>2. roots' \in Seq(Nat) /\ Len(roots') \in 1 .. MaxRoot
    BY <1>2, <2>1 DEF PublishRoot
  <2>3. QED
    BY <1>2, <2>2 DEF PublishRoot
<1>3. CASE Tick
  BY <1>3 DEF Tick, Floor
<1>4. CASE UNCHANGED repository
  BY <1>4 DEF repository
<1>5. QED
  BY <1>1, <1>2, <1>3, <1>4, OtherSteps DEF Next, Environment, Publishes

LEMMA ClientTypeStep == TypeOK /\ PinsInv /\ [Next]_vars => ClientTypeOK'
<1> SUFFICES ASSUME TypeOK, PinsInv, [Next]_vars PROVE ClientTypeOK'
  OBVIOUS
<1> USE NothingHeld DEF TypeOK, ClientTypeOK
<1>1. CASE Publishes \/ PublishRoot \/ Tick \/ ClockSteps
  <2>1. Len(roots) \in Nat /\ Len(roots') \in Nat /\ Len(roots') >= Len(roots)
    BY <1>1 DEF Publishes, PublishTargets, Resign, Refresh, Issue, PublishRoot, Tick,
       ClockSteps, repository, RepositoryTypeOK
  <2>2. UNCHANGED <<nroot, nver, poll, last>> /\ skewed' \in BOOLEAN
    BY <1>1 DEF Publishes, PublishTargets, Resign, Refresh, Issue, PublishRoot, Tick, ClockSteps
  <2>3. QED
    BY <2>1, <2>2 DEF poll
<1>2. ASSUME UNCHANGED repository
      PROVE  UNCHANGED <<time, roots, releases>> /\ Len(roots) \in Nat \ {0}
  BY <1>2 DEF repository, RepositoryTypeOK
<1>3. CASE PowerLoss
  BY <1>2, <1>3 DEF PowerLoss, Phases
<1>4. CASE AnchorStored \/ AnchorEmbedded
  BY <1>2, <1>4 DEF AnchorStored, AnchorEmbedded, Phases
<1>5. CASE BeginPoll
  <2>1. time \in Floor .. MaxTime
    BY DEF RepositoryTypeOK
  <2>2. QED
    BY <1>2, <1>5, <2>1 DEF BeginPoll, Phases
<1>6. CASE LatestUnknown \/ \E v \in 1 .. Len(roots) : LearnLatest(v)
  BY <1>2, <1>6 DEF LearnLatest, LatestUnknown, Phases
<1>7. ASSUME NEW v \in ServableRoots(link), AdoptLink(v) PROVE ClientTypeOK'
  <2>1. v \in 1 .. Len(roots)
    BY DEF ServableRoots
  <2>2. QED
    BY <1>2, <1>7, <2>1 DEF AdoptLink, Phases
<1>8. CASE RootUnreadable \/ LinkFails \/ FileFails \/ ChainFails
  BY <1>2, <1>8 DEF RootUnreadable, LinkFails, FileFails, ChainFails, Leave, Phases
<1>9. ASSUME NEW role \in Roles, NEW f \in Servable(role), VerifyFile(role, f)
      PROVE ClientTypeOK'
  <2>1. PICK i \in DOMAIN releases : f = releases[i][role]
    BY DEF Servable
  <2>2. releases[i] \in Release
    BY DEF RepositoryTypeOK
  <2>3. f.ver \in Nat
    BY <2>1, <2>2 DEF Roles, Release, TimestampFiles, SnapshotFiles, TargetsFiles, Files
  <2>4. [held EXCEPT ![role] = f] \in Held
    BY <2>1, <2>2 DEF Roles, Release, Held
  <2>5. NextRole[role] \in Phases
    BY DEF Roles, NextRole, Phases
  <2>6. QED
    BY <1>2, <1>9, <2>3, <2>4, <2>5 DEF VerifyFile
<1>10. CASE VerifyChain \/ EndPoll
  BY <1>2, <1>10 DEF VerifyChain, EndPoll, Leave, Phases
<1>11. CASE UNCHANGED vars
  BY <1>11 DEF vars
<1>12. QED
  BY <1>1, <1>3, <1>4, <1>5, <1>6, <1>7, <1>8, <1>9, <1>10, <1>11
     DEF Next, Device, Environment, Publishes

\* Type correctness of the client and the repository.
THEOREM TypeCorrect == Spec => [](TypeOK /\ PinsInv)
<1>1. Init => PinsInv
  BY FirstReleaseType DEF Init, PinsInv
<1>2. TypeOK /\ PinsInv /\ [Next]_vars => PinsInv'
  <2> SUFFICES ASSUME TypeOK, PinsInv, [Next]_vars PROVE PinsInv'
    OBVIOUS
  <2>1. CASE Publishes
    <3>1. PICK r \in Release : /\ releases' = Append(releases, r)
                               /\ r.timestamp.pins = r.snapshot /\ r.snapshot.pins = r.targets
      BY <2>1, PublishType
    <3>2. releases \in Seq(Release)
      BY DEF TypeOK, RepositoryTypeOK
    <3>3. QED
      BY <3>1, <3>2, Append1 DEF PinsInv
  <2>2. CASE UNCHANGED releases
    BY <2>2 DEF PinsInv
  <2>3. QED
    BY <2>1, <2>2, OtherSteps DEF Next, Environment, Publishes, PublishRoot, Tick, repository
<1>3. QED
  BY TypeInit, RepositoryTypeStep, ClientTypeStep, <1>1, <1>2, PTL DEF Spec, TypeOK

-----------------------------------------------------------------------------
(* The chain: an accepted poll of the Image repo used one release. *)

After == {"snapshot", "targets", "chain", "accepted"}

\* Once the timestamp is held it is one of a release, unexpired at this poll's
\* time, and what is accepted has passed the chain.
ChainInv ==
  /\ pc \notin {"boot", "parked", "idle"} => now # 0
  /\ pc \in After => /\ \E i \in DOMAIN releases : held["timestamp"] = releases[i].timestamp
                     /\ held["timestamp"].exp > now
  /\ pc = "accepted" /\ Chained => ChainHolds

\* A file that verifies is no older than the stored version and has not expired.
LEMMA Verified ==
  ASSUME TypeOK, NEW role \in Roles, NEW f, f.ver \in Nat, f.exp \in Nat, FileVerifies(role, f)
  PROVE  f.ver >= nver[role] /\ (now # 0 => f.exp > now)
<1>1. nver[role] \in Nat /\ now \in Nat
  BY Constants DEF TypeOK, ClientTypeOK, BadTime, Floor
<1>2. FileEnvelope(f).ver = f.ver /\ FileEnvelope(f).exp = f.exp
  BY DEF FileEnvelope
<1>3. /\ ~(FileEnvelope(f).ver < nver[role])
      /\ ~(now # 0 /\ FileEnvelope(f).exp <= now)
  BY DEF FileVerifies, V!VerifyRole
<1>4. QED
  BY <1>1, <1>2, <1>3

\* What can be served is well formed.
LEMMA ServableType ==
  ASSUME TypeOK, NEW role \in Roles, NEW f \in Servable(role)
  PROVE  /\ f.ver \in Nat /\ f.exp \in Nat /\ [held EXCEPT ![role] = f][role] = f
         /\ \E i \in DOMAIN releases : f = releases[i][role]
         /\ \A r \in Roles \ {role} : [held EXCEPT ![role] = f][r] = held[r]
<1>1. PICK i \in DOMAIN releases : f = releases[i][role]
  BY DEF Servable
<1>2. releases[i] \in Release
  BY DEF TypeOK, RepositoryTypeOK
<1>3. f.ver \in Nat /\ f.exp \in Nat
  BY <1>1, <1>2 DEF Roles, Release, TimestampFiles, SnapshotFiles, TargetsFiles, Files
<1>4. DOMAIN held = Roles
  BY DEF TypeOK, ClientTypeOK, Held, Roles
<1>5. QED
  BY <1>1, <1>3, <1>4

LEMMA ChainStep == TypeOK /\ PinsInv /\ ChainInv /\ [Next]_vars => ChainInv'
<1> SUFFICES ASSUME TypeOK, PinsInv, ChainInv, [Next]_vars PROVE ChainInv'
  OBVIOUS
<1>1. ASSUME UNCHANGED <<pc, now, held>>, \A i \in DOMAIN releases :
               i \in DOMAIN releases' /\ releases'[i] = releases[i]
      PROVE ChainInv'
  BY <1>1 DEF ChainInv, ChainHolds, After
<1>2. CASE Publishes
  <2>1. UNCHANGED poll
    BY <1>2 DEF Publishes, PublishTargets, Resign, Refresh, Issue
  <2>2. PICK r \in Release : releases' = Append(releases, r)
    BY <1>2, PublishType
  <2>3. releases \in Seq(Release)
    BY DEF TypeOK, RepositoryTypeOK
  <2>4. QED
    BY <1>1, <2>1, <2>2, <2>3, Append1 DEF poll
<1>3. CASE PublishRoot \/ Tick \/ ClockSteps \/ UNCHANGED vars
  BY <1>1, <1>3 DEF PublishRoot, Tick, ClockSteps, vars, poll, repository
<1>4. CASE PowerLoss \/ AnchorStored \/ AnchorEmbedded
  BY <1>4 DEF PowerLoss, AnchorStored, AnchorEmbedded, ChainInv, After
<1>5. CASE BeginPoll
  BY <1>5 DEF BeginPoll, ChainInv, After, TypeOK, RepositoryTypeOK, Floor, BadTime
<1>6. CASE LatestUnknown \/ \E v \in 1 .. Len(roots) : LearnLatest(v)
  BY <1>6 DEF LearnLatest, LatestUnknown, ChainInv, After
<1>7. ASSUME NEW v \in ServableRoots(link), AdoptLink(v) PROVE ChainInv'
  BY <1>7 DEF AdoptLink, ChainInv, After
<1>8. CASE RootUnreadable \/ LinkFails \/ FileFails \/ ChainFails \/ EndPoll
  BY <1>8 DEF RootUnreadable, LinkFails, FileFails, ChainFails, EndPoll, Leave, ChainInv, After
<1>9. ASSUME NEW role \in Roles, NEW f \in Servable(role), VerifyFile(role, f)
      PROVE ChainInv'
  <2>1. /\ pc = role /\ FileVerifies(role, f) /\ UNCHANGED <<releases, now>>
        /\ held' = [held EXCEPT ![role] = f] /\ pc' = NextRole[role]
    BY <1>9 DEF VerifyFile, repository
  <2>2. now # 0 /\ pc' \in {"snapshot", "targets", "chain"}
    BY <2>1 DEF ChainInv, NextRole, Roles
  <2>3. CASE role = "timestamp"
    <3>1. /\ held'["timestamp"] = f /\ f.exp > now
          /\ \E i \in DOMAIN releases : f = releases[i].timestamp
      BY <2>1, <2>2, <2>3, Verified, ServableType
    <3>2. QED
      BY <2>1, <2>2, <3>1 DEF ChainInv
  <2>4. CASE role # "timestamp"
    <3>1. held'["timestamp"] = held["timestamp"] /\ pc \in After
      BY <2>1, <2>4, ServableType DEF Roles, After
    <3>2. QED
      BY <2>1, <2>2, <3>1 DEF ChainInv
  <2>5. QED
    BY <2>3, <2>4
<1>10. CASE VerifyChain
  BY <1>10 DEF VerifyChain, ChainInv, ChainHolds, After, repository
<1>11. QED
  BY <1>2, <1>3, <1>4, <1>5, <1>6, <1>7, <1>8, <1>9, <1>10
     DEF Next, Device, Environment, Publishes

\* An accepted poll of the Image repo used the three files of one release.
THEOREM ConsistentRelease == Spec => []OneRelease
<1>1. Init => ChainInv
  BY DEF Init, ChainInv, After
<1>2. TypeOK /\ PinsInv /\ ChainInv => OneRelease
  <2> SUFFICES ASSUME TypeOK, PinsInv, ChainInv, Chained, pc = "accepted"
               PROVE  \E i \in DOMAIN releases : releases[i] = held
    BY DEF OneRelease
  <2>1. PICK i \in DOMAIN releases : held["timestamp"] = releases[i].timestamp
    BY DEF ChainInv, After
  <2>2. /\ held["snapshot"] = releases[i].snapshot
        /\ held["targets"] = releases[i].targets
    BY <2>1 DEF ChainInv, ChainHolds, PinsInv
  <2>3. releases[i] \in Release /\ held \in Held
    BY DEF TypeOK, RepositoryTypeOK, ClientTypeOK
  <2>4. releases[i] = held
    BY <2>1, <2>2, <2>3 DEF Release, Held
  <2>5. QED
    BY <2>4
<1>3. QED
  BY <1>1, <1>2, ChainStep, TypeCorrect, PTL DEF Spec

-----------------------------------------------------------------------------
(* Staleness: releases are ordered, so an unexpired timestamp bounds the age. *)

\* Later releases have later timestamps and no older targets.
OrderInv ==
  /\ \A i \in DOMAIN releases : releases[i].timestamp.exp <= time + TimestampLife
  /\ \A i, j \in DOMAIN releases :
       i < j => /\ releases[i].timestamp.exp <= releases[j].timestamp.exp
                /\ releases[i].targets.ver <= releases[j].targets.ver

LEMMA ReleaseNumbers ==
  ASSUME TypeOK, NEW i \in DOMAIN releases
  PROVE  /\ releases[i].timestamp.exp \in Nat /\ releases[i].targets.ver \in Nat
         /\ i \in Nat /\ i <= Len(releases)
<1>1. releases[i] \in Release
  BY DEF TypeOK, RepositoryTypeOK
<1>2. releases[i].timestamp \in TimestampFiles /\ releases[i].targets \in TargetsFiles
  BY <1>1 DEF Release
<1>3. releases[i].timestamp.exp \in Nat /\ releases[i].targets.ver \in Nat
  BY <1>2 DEF TimestampFiles, TargetsFiles, Files
<1>4. QED
  BY <1>3 DEF TypeOK, RepositoryTypeOK

LEMMA OrderStep == TypeOK /\ PinsInv /\ OrderInv /\ [Next]_vars => OrderInv'
<1> SUFFICES ASSUME TypeOK, PinsInv, OrderInv, [Next]_vars PROVE OrderInv'
  OBVIOUS
<1>1. time \in Nat /\ TimestampLife \in Nat
  BY Constants DEF TypeOK, RepositoryTypeOK, Floor
<1>2. CASE Publishes
  <2>1. PICK r \in Release :
          /\ releases' = Append(releases, r) /\ r.targets.ver >= Newest.targets.ver
          /\ r.timestamp.exp = time + TimestampLife
    BY <1>2, PublishType
  <2>2. time' = time
    BY <1>2 DEF Publishes, PublishTargets, Resign, Refresh, Issue
  <2> DEFINE n == Len(releases)
  <2>3. /\ \A i \in DOMAIN releases : releases'[i] = releases[i]
        /\ releases'[n + 1] = r /\ DOMAIN releases' = DOMAIN releases \cup {n + 1}
        /\ n \in Nat /\ DOMAIN releases = 1 .. n /\ n \in DOMAIN releases
    BY <2>1, Append1, NewestRelease DEF TypeOK, RepositoryTypeOK
  <2>4. r.targets \in TargetsFiles
    BY DEF Release
  <2>5. r.targets.ver \in Nat /\ r.targets.ver >= releases[n].targets.ver
    BY <2>1, <2>4 DEF TargetsFiles, Files, Newest
  <2>6. \A i \in DOMAIN releases : releases[i].targets.ver <= r.targets.ver
    <3> SUFFICES ASSUME NEW i \in DOMAIN releases
                 PROVE  releases[i].targets.ver <= r.targets.ver
      OBVIOUS
    <3>1. i = n \/ releases[i].targets.ver <= releases[n].targets.ver
      BY <2>3 DEF OrderInv
    <3>2. releases[i].targets.ver \in Nat /\ releases[n].targets.ver \in Nat
      BY <2>3, ReleaseNumbers
    <3>3. QED
      BY <2>5, <3>1, <3>2
  <2>7. \A i \in DOMAIN releases' : releases'[i].timestamp.exp <= time + TimestampLife
    BY <1>1, <2>1, <2>3 DEF OrderInv
  <2>8. ASSUME NEW i \in DOMAIN releases', NEW j \in DOMAIN releases', i < j
        PROVE  /\ releases'[i].timestamp.exp <= releases'[j].timestamp.exp
               /\ releases'[i].targets.ver <= releases'[j].targets.ver
    <3>1. i \in DOMAIN releases
      BY <2>3, <2>8
    <3>2. CASE j \in DOMAIN releases
      BY <2>3, <2>8, <3>1, <3>2 DEF OrderInv
    <3>3. CASE j = n + 1
      BY <2>1, <2>3, <2>6, <3>1, <3>3 DEF OrderInv
    <3>4. QED
      BY <2>3, <3>2, <3>3
  <2>9. QED
    BY <2>2, <2>7, <2>8 DEF OrderInv
<1>3. CASE UNCHANGED releases /\ (time' = time \/ time' = time + 1)
  <2>1. \A i \in DOMAIN releases : releases[i].timestamp.exp <= time' + TimestampLife
    BY <1>1, <1>3, ReleaseNumbers DEF OrderInv
  <2>2. QED
    BY <1>3, <2>1 DEF OrderInv
<1>4. QED
  BY <1>2, <1>3, OtherSteps
     DEF Next, Environment, Publishes, PublishRoot, Tick, ClockSteps, repository

\* The Image repo's targets are accepted after newer ones were published only
\* while the timestamp that published those is unexpired.
THEOREM Staleness == Spec => []BoundedStaleness
<1>1. Init => OrderInv
  BY FirstReleaseType, Constants DEF Init, OrderInv, Floor
<1>2. TypeOK /\ PinsInv /\ ChainInv /\ OrderInv => BoundedStaleness
  <2> SUFFICES ASSUME TypeOK, PinsInv, ChainInv, OrderInv, Chained, pc = "accepted",
                      NEW i \in DOMAIN releases,
                      releases[i].targets.ver > held.targets.ver
               PROVE  releases[i].timestamp.exp > now
    BY DEF BoundedStaleness
  <2>1. PICK k \in DOMAIN releases : held["timestamp"] = releases[k].timestamp
    BY DEF ChainInv, After
  <2>2. held["targets"] = releases[k].targets /\ releases[k].timestamp.exp > now
    BY <2>1 DEF ChainInv, ChainHolds, PinsInv, After
  <2>3. /\ releases[i].targets.ver \in Nat /\ releases[k].targets.ver \in Nat
        /\ releases[i].timestamp.exp \in Nat /\ releases[k].timestamp.exp \in Nat
        /\ i \in Nat /\ k \in Nat /\ now \in Nat
    BY ReleaseNumbers, Constants DEF TypeOK, ClientTypeOK, BadTime, Floor
  <2>4. releases[i].targets.ver > releases[k].targets.ver
    BY <2>2
  <2>5. k < i
    BY <2>3, <2>4 DEF OrderInv
  <2>6. releases[k].timestamp.exp <= releases[i].timestamp.exp
    BY <2>5 DEF OrderInv
  <2>7. QED
    BY <2>2, <2>3, <2>6
<1>3. Init => ChainInv
  BY DEF Init, ChainInv, After
<1>4. QED
  BY <1>1, <1>2, <1>3, ChainStep, OrderStep, TypeCorrect, PTL DEF Spec

-----------------------------------------------------------------------------
(* Rollback protection, as long as NVS takes the writes. *)

VersionInv ==
  /\ last # None => \A r \in Roles : last[r].ver \in Nat /\ nver[r] >= last[r].ver
  /\ pc \in After => held["timestamp"].ver = nver["timestamp"]
  /\ pc \in {"targets", "chain", "accepted"} => held["snapshot"].ver = nver["snapshot"]
  /\ pc \in {"chain", "accepted"} => held["targets"].ver = nver["targets"]

LEMMA VersionStep ==
  ASSUME "nvs" \notin Faults
  PROVE  TypeOK /\ VersionInv /\ [Next]_vars => VersionInv'
<1> SUFFICES ASSUME TypeOK, VersionInv, [Next]_vars PROVE VersionInv'
  OBVIOUS
<1>1. ASSUME UNCHANGED <<nver, last>>, UNCHANGED <<pc, held>> \/ pc' \notin After
      PROVE  VersionInv'
  BY <1>1 DEF VersionInv, After
<1>2. CASE Environment \/ UNCHANGED vars
  BY <1>1, <1>2 DEF Environment, PublishTargets, Resign, Refresh, Issue, PublishRoot, Tick,
     ClockSteps, vars, poll
<1>3. CASE PowerLoss \/ AnchorStored \/ AnchorEmbedded \/ BeginPoll \/ LatestUnknown
  BY <1>1, <1>3 DEF PowerLoss, AnchorStored, AnchorEmbedded, BeginPoll, LatestUnknown, After
<1>4. CASE \E v \in 1 .. Len(roots) : LearnLatest(v)
  BY <1>1, <1>4 DEF LearnLatest, After
<1>5. CASE \E v \in ServableRoots(link) : AdoptLink(v)
  BY <1>1, <1>5 DEF AdoptLink, After
<1>6. CASE RootUnreadable \/ LinkFails \/ FileFails \/ ChainFails
  BY <1>1, <1>6 DEF RootUnreadable, LinkFails, FileFails, ChainFails, Leave, After
<1>7. ASSUME NEW role \in Roles, NEW f \in Servable(role), VerifyFile(role, f)
      PROVE VersionInv'
  <2>1. /\ pc = role /\ FileVerifies(role, f) /\ last' = last
        /\ held' = [held EXCEPT ![role] = f] /\ pc' = NextRole[role]
        /\ nver' = [nver EXCEPT ![role] = f.ver]
    BY <1>7 DEF VerifyFile
  <2>2. f.ver >= nver[role] /\ f.ver \in Nat /\ nver \in [Roles -> Nat]
    BY <2>1, Verified, ServableType DEF TypeOK, ClientTypeOK
  <2>3. last' # None => \A r \in Roles : last'[r].ver \in Nat /\ nver'[r] >= last'[r].ver
    <3> SUFFICES ASSUME last # None, NEW r \in Roles
                 PROVE  last[r].ver \in Nat /\ nver'[r] >= last[r].ver
      BY <2>1
    <3>1. last[r].ver \in Nat /\ nver[r] >= last[r].ver /\ nver[r] \in Nat
      BY <2>2 DEF VersionInv
    <3>2. nver'[r] = IF r = role THEN f.ver ELSE nver[r]
      BY <2>1, <2>2
    <3>3. QED
      BY <2>2, <3>1, <3>2
  <2>4. /\ held'[role] = f /\ nver'[role] = f.ver
        /\ \A r \in Roles \ {role} : held'[r] = held[r] /\ nver'[r] = nver[r]
    BY <2>1, <2>2, ServableType
  <2>5. QED
    BY <2>1, <2>3, <2>4 DEF VersionInv, NextRole, Roles, After
<1>8. CASE VerifyChain
  BY <1>8 DEF VerifyChain, VersionInv, After
<1>9. CASE EndPoll
  <2>1. /\ pc = "accepted" /\ pc' = "idle" /\ last' = held /\ nver' = nver
    BY <1>9 DEF EndPoll, Leave
  <2>2. nver \in [Roles -> Nat]
    BY DEF TypeOK, ClientTypeOK
  <2>3. \A r \in Roles : held[r].ver \in Nat /\ nver[r] >= held[r].ver
    BY <2>1, <2>2 DEF VersionInv, After, Roles
  <2>4. QED
    BY <2>1, <2>3 DEF VersionInv, After
<1>10. QED
  BY <1>2, <1>3, <1>4, <1>5, <1>6, <1>7, <1>8, <1>9 DEF Next, Device

\* Without failing NVS writes no poll accepts a file older than an earlier one.
THEOREM NeverOlder == "nvs" \notin Faults => (Spec => []AcceptedNeverOlder)
<1> SUFFICES ASSUME "nvs" \notin Faults PROVE Spec => []AcceptedNeverOlder
  OBVIOUS
<1>1. Init => VersionInv
  BY DEF Init, VersionInv, After
<1>2. VersionInv => AcceptedNeverOlder
  BY DEF VersionInv, AcceptedNeverOlder, After, Roles
<1>3. QED
  BY <1>1, <1>2, VersionStep, TypeCorrect, PTL DEF Spec

-----------------------------------------------------------------------------
(* The root walk arrives where it set out for. *)

Verifying == Roles \cup {"chain", "accepted"}

\* WalkArrives, made inductive: a walk starts at the stored root, one that is under
\* way has not passed its end, and a poll that is not walking has no end to arrive at.
WalkInv ==
  /\ pc \in {"boot", "parked", "idle", "walk"} => latest = 0
  /\ pc = "walk" => root = nroot
  /\ pc = "link" => root # 0 /\ root >= link - 1 /\ link <= latest
  /\ pc \in Verifying => root >= latest

\* A link that verifies is no older than the one that was asked for.
LEMMA LinkVersion ==
  ASSUME TypeOK, NEW v \in Nat, LinkVerifies(v)
  PROVE  v >= link
<1>1. RootEnvelope(v).ver = v
  BY DEF RootEnvelope
<1>2. ~(RootEnvelope(v).ver < link)
  BY DEF LinkVerifies, V!VerifyRole
<1>3. QED
  BY <1>1, <1>2 DEF TypeOK, ClientTypeOK

LEMMA WalkStep == TypeOK /\ WalkInv /\ [Next]_vars => WalkInv'
<1> SUFFICES ASSUME TypeOK, WalkInv, [Next]_vars PROVE WalkInv'
  OBVIOUS
<1>1. root \in Nat /\ link \in Nat /\ latest \in Nat
  BY DEF TypeOK, ClientTypeOK, RepositoryTypeOK
<1>2. CASE Environment \/ UNCHANGED vars
  BY <1>2 DEF Environment, PublishTargets, Resign, Refresh, Issue, PublishRoot, Tick,
     ClockSteps, vars, poll, WalkInv
<1>3. CASE PowerLoss \/ AnchorStored \/ AnchorEmbedded \/ BeginPoll
  BY <1>3 DEF PowerLoss, AnchorStored, AnchorEmbedded, BeginPoll, WalkInv, Verifying, Roles
<1>4. CASE LatestUnknown
  BY <1>1, <1>4 DEF LatestUnknown, WalkInv, Verifying
<1>5. ASSUME NEW v \in 1 .. Len(roots), LearnLatest(v) PROVE WalkInv'
  <2>1. v \in Nat
    BY DEF TypeOK, RepositoryTypeOK
  <2>2. CASE v > root
    BY <1>1, <1>5, <2>1, <2>2 DEF LearnLatest, Readable, WalkInv, Verifying, Roles
  <2>3. CASE ~(v > root)
    BY <1>1, <1>5, <2>3 DEF LearnLatest, WalkInv, Verifying
  <2>4. QED
    BY <2>2, <2>3
<1>6. ASSUME NEW v \in ServableRoots(link), AdoptLink(v) PROVE WalkInv'
  <2>1. v \in Nat \ {0}
    BY DEF ServableRoots
  <2>2. v >= link
    BY <1>6, <2>1, LinkVersion DEF AdoptLink
  <2>3. /\ pc = "link" /\ root' = v /\ link' = link + 1 /\ latest' = latest
        /\ pc' = IF link = latest THEN "timestamp" ELSE "link"
    BY <1>6 DEF AdoptLink
  <2>4. QED
    BY <1>1, <2>1, <2>2, <2>3 DEF WalkInv, Verifying, Roles
<1>7. CASE RootUnreadable \/ LinkFails \/ FileFails \/ ChainFails \/ EndPoll
  BY <1>7 DEF RootUnreadable, LinkFails, FileFails, ChainFails, EndPoll, Leave, WalkInv,
     Verifying, Roles
<1>8. ASSUME NEW role \in Roles, NEW f \in Servable(role), VerifyFile(role, f)
      PROVE WalkInv'
  BY <1>8 DEF VerifyFile, NextRole, WalkInv, Verifying, Roles
<1>9. CASE VerifyChain
  BY <1>9 DEF VerifyChain, WalkInv, Verifying, Roles
<1>10. QED
  BY <1>2, <1>3, <1>4, <1>5, <1>6, <1>7, <1>8, <1>9 DEF Next, Device

\* Each link takes the trusted root to at least its version, and the roles are
\* verified against a root no older than the one the walk set out for.
THEOREM WalkCompletes == Spec => []WalkArrives
<1>1. Init => WalkInv
  BY DEF Init, WalkInv, Verifying, Roles
<1>2. WalkInv => WalkArrives
  BY DEF WalkInv, WalkArrives, Verifying
<1>3. QED
  BY <1>1, <1>2, WalkStep, TypeCorrect, PTL DEF Spec

-----------------------------------------------------------------------------
(* A poll ends: every step of it leaves fewer to do. *)

\* Walking or verifying, a step of the device brings the end of the poll nearer.
LEMMA PollStep ==
  TypeOK /\ WalkInv /\ Polling /\ [Next]_vars
    => UNCHANGED poll \/ (StepsLeft' \in Nat /\ StepsLeft' < StepsLeft)
<1> SUFFICES ASSUME TypeOK, WalkInv, Polling, [Next]_vars
             PROVE  UNCHANGED poll \/ (StepsLeft' \in Nat /\ StepsLeft' < StepsLeft)
  OBVIOUS
<1>1. root \in Nat /\ link \in Nat /\ latest \in Nat /\ MaxRoot \in Nat /\ Len(roots) <= MaxRoot
  BY Constants DEF TypeOK, ClientTypeOK, RepositoryTypeOK
<1>2. StepsLeft \in Nat
  BY <1>1 DEF StepsLeft, WalkInv
<1>3. CASE Environment \/ UNCHANGED vars
  BY <1>3 DEF Environment, PublishTargets, Resign, Refresh, Issue, PublishRoot, Tick,
     ClockSteps, vars, poll
<1>4. CASE PowerLoss \/ LinkFails \/ FileFails \/ ChainFails \/ EndPoll \/ RootUnreadable
  <2>1. StepsLeft' = 0
    BY <1>4 DEF PowerLoss, LinkFails, FileFails, ChainFails, EndPoll, RootUnreadable, Leave,
       StepsLeft
  <2>2. StepsLeft > 0
    BY <1>1 DEF Polling, StepsLeft, WalkInv, Roles
  <2>3. QED
    BY <1>2, <2>1, <2>2
<1>5. CASE AnchorStored \/ AnchorEmbedded \/ BeginPoll
  BY <1>5 DEF AnchorStored, AnchorEmbedded, BeginPoll, Polling, Roles
<1>6. CASE LatestUnknown
  BY <1>1, <1>6 DEF LatestUnknown, StepsLeft
<1>7. ASSUME NEW v \in 1 .. Len(roots), LearnLatest(v)
      PROVE  StepsLeft' \in Nat /\ StepsLeft' < StepsLeft
  <2>1. v \in Nat /\ v <= MaxRoot /\ StepsLeft = MaxRoot + 6
    BY <1>1, <1>7 DEF TypeOK, RepositoryTypeOK, LearnLatest, StepsLeft
  <2>2. CASE v > root
    <3>1. StepsLeft' = v - (root + 1) + 6
      BY <1>7, <2>2 DEF LearnLatest, StepsLeft
    <3>2. QED
      BY <1>1, <2>1, <2>2, <3>1
  <2>3. CASE ~(v > root)
    BY <1>1, <1>7, <2>1, <2>3 DEF LearnLatest, StepsLeft
  <2>4. QED
    BY <2>2, <2>3
<1>8. ASSUME NEW v \in ServableRoots(link), AdoptLink(v)
      PROVE  StepsLeft' \in Nat /\ StepsLeft' < StepsLeft
  <2>1. /\ pc = "link" /\ link' = link + 1 /\ latest' = latest
        /\ pc' = IF link = latest THEN "timestamp" ELSE "link"
    BY <1>8 DEF AdoptLink
  <2>2. link <= latest /\ StepsLeft = latest - link + 6
    BY <2>1 DEF WalkInv, StepsLeft
  <2>3. CASE link = latest
    BY <1>1, <2>1, <2>2, <2>3 DEF StepsLeft
  <2>4. CASE link # latest
    <3>1. StepsLeft' = latest - (link + 1) + 6
      BY <2>1, <2>4 DEF StepsLeft
    <3>2. QED
      BY <1>1, <2>2, <2>4, <3>1
  <2>5. QED
    BY <2>3, <2>4
<1>9. ASSUME NEW role \in Roles, NEW f \in Servable(role), VerifyFile(role, f)
      PROVE  StepsLeft' \in Nat /\ StepsLeft' < StepsLeft
  BY <1>9 DEF VerifyFile, NextRole, StepsLeft, Roles
<1>10. CASE VerifyChain
  BY <1>10 DEF VerifyChain, StepsLeft
<1>11. QED
  BY <1>3, <1>4, <1>5, <1>6, <1>7, <1>8, <1>9, <1>10 DEF Next, Device

\* Whatever is served, a poll has at most MaxRoot + 6 steps left when it begins and
\* fewer after each.
THEOREM EveryPollEnds == Spec => PollsEnd
<1>1. Init => WalkInv
  BY DEF Init, WalkInv, Verifying, Roles
<1>2. TypeOK /\ WalkInv /\ [Next]_vars
        => [Polling => StepsLeft' \in Nat /\ StepsLeft' < StepsLeft]_poll
  BY PollStep
<1>3. QED
  BY <1>1, <1>2, WalkStep, TypeCorrect, PTL DEF Spec, PollsEnd

-----------------------------------------------------------------------------
(* What is stored never goes back. *)

\* The only step that stores a role's version has compared it with the stored one.
THEOREM StoredVersionsGrow == Spec => VersionsNeverGoBack
<1>1. TypeOK /\ [Next]_vars => [\A r \in Roles : nver'[r] >= nver[r]]_nver
  <2> SUFFICES ASSUME TypeOK, [Next]_vars, nver' # nver
               PROVE  \A r \in Roles : nver'[r] >= nver[r]
    OBVIOUS
  <2>1. PICK role \in Roles : \E f \in Servable(role) : VerifyFile(role, f)
    BY DEF Next, Device, Environment, PublishTargets, Resign, Refresh, Issue, PublishRoot, Tick,
       ClockSteps, PowerLoss, AnchorStored, AnchorEmbedded, BeginPoll, RootUnreadable, LearnLatest,
       LatestUnknown, AdoptLink, LinkFails, FileFails, VerifyChain, ChainFails, EndPoll, vars
  <2>2. PICK f \in Servable(role) : VerifyFile(role, f)
    BY <2>1
  <2>3. nver \in [Roles -> Nat] /\ f.ver \in Nat
    BY ServableType DEF TypeOK, ClientTypeOK
  <2>4. f.ver >= nver[role]
    BY <2>2, Verified, ServableType DEF VerifyFile
  <2>5. nver' = [nver EXCEPT ![role] = f.ver]
    BY <2>2 DEF VerifyFile
  <2>6. QED
    BY <2>3, <2>4, <2>5
<1>2. QED
  BY <1>1, TypeCorrect, PTL DEF Spec, VersionsNeverGoBack

\* The stored root lies below the link that is asked for.
StoredInv == pc = "link" => nroot < link

LEMMA StoredStep ==
  ASSUME "misplaced" \notin Faults
  PROVE  TypeOK /\ WalkInv /\ StoredInv /\ [Next]_vars => StoredInv'
<1> SUFFICES ASSUME TypeOK, WalkInv, StoredInv, [Next]_vars PROVE StoredInv'
  OBVIOUS
<1>1. nroot \in Nat /\ root \in Nat /\ link \in Nat
  BY DEF TypeOK, ClientTypeOK, RepositoryTypeOK
<1>2. CASE Environment \/ UNCHANGED vars
  BY <1>2 DEF Environment, PublishTargets, Resign, Refresh, Issue, PublishRoot, Tick,
     ClockSteps, vars, poll, StoredInv
<1>3. CASE PowerLoss \/ AnchorStored \/ AnchorEmbedded \/ BeginPoll \/ LatestUnknown
  BY <1>3 DEF PowerLoss, AnchorStored, AnchorEmbedded, BeginPoll, LatestUnknown, StoredInv
<1>4. ASSUME NEW v \in 1 .. Len(roots), LearnLatest(v) PROVE StoredInv'
  BY <1>1, <1>4 DEF LearnLatest, StoredInv, WalkInv
<1>5. ASSUME NEW v \in ServableRoots(link), AdoptLink(v) PROVE StoredInv'
  BY <1>1, <1>5 DEF AdoptLink, StoredInv, ServableRoots
<1>6. CASE RootUnreadable \/ LinkFails \/ FileFails \/ ChainFails \/ EndPoll
  BY <1>6 DEF RootUnreadable, LinkFails, FileFails, ChainFails, EndPoll, Leave, StoredInv
<1>7. ASSUME NEW role \in Roles, NEW f \in Servable(role), VerifyFile(role, f)
      PROVE StoredInv'
  BY <1>7 DEF VerifyFile, NextRole, StoredInv, Roles
<1>8. CASE VerifyChain
  BY <1>8 DEF VerifyChain, StoredInv
<1>9. QED
  BY <1>2, <1>3, <1>4, <1>5, <1>6, <1>7, <1>8 DEF Next, Device

\* The stored root never goes back, even if NVS writes fail, as long as every root
\* is served under its own number and can be read back: a root under a wrong number
\* may be newer than the link asked for, and the next link then older than it.
THEOREM StoredRootGrows ==
  "misplaced" \notin Faults /\ Oversized = {} => (Spec => RootNeverGoesBack)
<1> SUFFICES ASSUME "misplaced" \notin Faults, Oversized = {} PROVE Spec => RootNeverGoesBack
  OBVIOUS
<1>1. Init => StoredInv
  BY DEF Init, StoredInv
<1>2. TypeOK /\ StoredInv /\ [Next]_vars => [nroot' >= nroot]_nroot
  <2> SUFFICES ASSUME TypeOK, StoredInv, [Next]_vars, nroot' # nroot PROVE nroot' >= nroot
    OBVIOUS
  <2>1. nroot \in Nat /\ link \in Nat
    BY DEF TypeOK, ClientTypeOK, RepositoryTypeOK
  <2>2. AnchorEmbedded \/ \E v \in ServableRoots(link) : AdoptLink(v)
    BY DEF Next, Device, Environment, PublishTargets, Resign, Refresh, Issue, PublishRoot, Tick,
       ClockSteps, PowerLoss, AnchorStored, BeginPoll, RootUnreadable, LearnLatest, VerifyFile,
       LatestUnknown, LinkFails, FileFails, VerifyChain, ChainFails, EndPoll, vars
  <2>3. CASE AnchorEmbedded
    BY <2>1, <2>3 DEF AnchorEmbedded, Readable
  <2>4. CASE \E v \in ServableRoots(link) : AdoptLink(v)
    BY <2>1, <2>4 DEF AdoptLink, ServableRoots, StoredInv
  <2>5. QED
    BY <2>2, <2>3, <2>4
<1>3. Init => WalkInv
  BY DEF Init, WalkInv, Verifying, Roles
<1>4. QED
  BY <1>1, <1>2, <1>3, WalkStep, StoredStep, TypeCorrect, PTL DEF Spec, RootNeverGoesBack

-----------------------------------------------------------------------------
(* Counting signatures counts signers. *)

\* RoleVerify counts with the same cardinality.
LEMMA SameCount == ASSUME NEW S PROVE V!Cardinality(S) = Cardinality(S)
  BY Zenon DEF V!Cardinality, Cardinality

\* Where no key id is listed twice, a role's threshold is met by that many
\* different keys.
LEMMA EnoughSigners ==
  ASSUME NEW rt, NEW role, NEW env, NEW t, NEW min,
         IsFiniteSet(DOMAIN rt.roles[role].keyids),
         \A i, j \in DOMAIN rt.roles[role].keyids :
           rt.roles[role].keyids[i] = rt.roles[role].keyids[j] => i = j,
         V!VerifyRole(rt, role, env, t, min) = "OK"
  PROVE  Cardinality(V!Signers(rt, role, env)) >= rt.roles[role].threshold
<1> DEFINE keyids == rt.roles[role].keyids
           counted == {i \in DOMAIN keyids : keyids[i] \in rt.keys /\ V!Carries(env, keyids[i])}
           signers == V!Signers(rt, role, env)
           f == [i \in counted |-> keyids[i]]
<1>1. Cardinality(counted) >= rt.roles[role].threshold
  <2>1. V!ValidCount(rt, role, env) >= rt.roles[role].threshold
    BY DEF V!VerifyRole
  <2>2. V!ValidCount(rt, role, env) = Cardinality(counted)
    BY SameCount, Zenon DEF V!ValidCount
  <2>3. QED
    BY <2>1, <2>2
<1>2. IsFiniteSet(counted)
  BY FS_Subset
<1>3. f \in Surjection(counted, signers)
  <2>1. f \in [counted -> signers]
    BY DEF V!Signers
  <2>2. \A k \in signers : \E i \in counted : f[i] = k
    BY DEF V!Signers
  <2>3. QED
    BY <2>1, <2>2 DEF Surjection
<1>4. f \in Injection(counted, signers)
  BY <1>3 DEF Surjection, Injection, IsInjective
<1>5. Cardinality(signers) = Cardinality(counted)
  BY <1>2, <1>3, <1>4, FS_Surjection
<1>6. QED
  BY <1>1, <1>5

\* Which the roots of this repository are to obey (akt_uptane.c counts entries).
DistinctKeyids ==
  \A v \in 1 .. MaxRoot : \A i, j \in DOMAIN RootKeys[v] :
    RootKeys[v][i] = RootKeys[v][j] => i = j

LEMMA RootRole ==
  ASSUME NEW v
  PROVE  /\ RootDoc(v).roles["root"].keyids = RootKeys[v]
         /\ RootDoc(v).roles["root"].threshold = RootThreshold[v]
  BY DEF RootDoc

\* The poll moves to another root only with the consent of as many keys of the
\* one it trusted as that one demands, and of its own: no step of the walk is
\* taken on one signature counted twice.
THEOREM TrustIsNotSeized == DistinctKeyids => (Spec => TrustIsHandedOver)
<1> SUFFICES ASSUME DistinctKeyids PROVE Spec => TrustIsHandedOver
  OBVIOUS
<1> DEFINE Consent(r, v) ==
      Cardinality(V!Signers(RootDoc(r), "root", RootEnvelope(v))) >= RootThreshold[r]
<1>1. TypeOK /\ WalkInv /\ [Next]_vars
        => [pc = "link" /\ root' # 0 => \A r \in {root, root'} : Consent(r, root')]_root
  <2> SUFFICES ASSUME TypeOK, WalkInv, [Next]_vars, root' # root, pc = "link", root' # 0
               PROVE  \A r \in {root, root'} : Consent(r, root')
    OBVIOUS
  <2>1. PICK v \in ServableRoots(link) : AdoptLink(v)
    BY DEF Next, Device, Environment, PublishTargets, Resign, Refresh, Issue, PublishRoot, Tick,
       ClockSteps, PowerLoss, AnchorStored, AnchorEmbedded, BeginPoll, RootUnreadable, LearnLatest,
       VerifyFile, LatestUnknown, LinkFails, FileFails, VerifyChain, ChainFails, EndPoll, Leave,
       Roles, vars, poll
  <2>2. root' = v /\ LinkVerifies(v)
    BY <2>1 DEF AdoptLink
  <2>3. v \in 1 .. MaxRoot /\ root \in 1 .. MaxRoot
    <3>1. Len(roots) \in Nat /\ Len(roots) <= MaxRoot /\ v \in 1 .. Len(roots)
      BY Constants DEF TypeOK, RepositoryTypeOK, ServableRoots
    <3>2. root \in 0 .. Len(roots) /\ root # 0
      BY DEF TypeOK, ClientTypeOK, WalkInv
    <3>3. QED
      BY <3>1, <3>2, Constants
  <2>4. ASSUME NEW r \in {root, v}
        PROVE  Consent(r, v)
    <3>1. IsFiniteSet(DOMAIN RootKeys[r])
      BY <2>3, RepoClientAssumption
    <3>2. V!VerifyRole(RootDoc(r), "root", RootEnvelope(v), now, link) = "OK"
      BY <2>2 DEF LinkVerifies
    <3>3. QED
      BY <2>3, <3>1, <3>2, EnoughSigners, RootRole DEF DistinctKeyids
  <2>5. QED
    BY <2>2, <2>4
<1>2. Init => WalkInv
  BY DEF Init, WalkInv, Verifying, Roles
<1>3. QED
  BY <1>1, <1>2, WalkStep, TypeCorrect, PTL DEF Spec, TrustIsHandedOver

-----------------------------------------------------------------------------
(* Revocation: no file is held that no key of the trusted root signed. *)

\* An accepted file shares a key with the role the trusted root defines.
LEMMA SharesAKey ==
  ASSUME NEW role \in Roles, NEW f, FileVerifies(role, f)
  PROVE  RoleKeyids(f.by) \cap RoleKeyids(root) # {}
<1> DEFINE rt == RootDoc(root)
           env == FileEnvelope(f)
           keyids == rt.roles[role].keyids
           counted == {i \in DOMAIN keyids : keyids[i] \in rt.keys /\ V!Carries(env, keyids[i])}
<1>1. rt.roles[role].keyids = RoleKeys[root] /\ rt.roles[role].threshold = 1
  BY DEF RootDoc, Roles
<1>2. V!ValidCount(rt, role, env) >= 1
  <2>1. V!ValidCount(rt, role, env) >= rt.roles[role].threshold
    BY DEF FileVerifies, V!VerifyRole
  <2>2. QED
    BY <1>1, <2>1
<1>3. V!ValidCount(rt, role, env) = Cardinality(counted)
  BY SameCount, Zenon DEF V!ValidCount
<1>4. counted # {}
  BY <1>2, <1>3, FS_EmptySet
<1>5. PICK i \in counted : TRUE
  BY <1>4
<1>6. PICK j \in DOMAIN env.signatures : env.signatures[j].keyid = keyids[i]
  BY <1>5 DEF V!Carries
<1>7. env.signatures[j].keyid = RoleKeys[f.by][j] /\ j \in DOMAIN RoleKeys[f.by]
  BY <1>6 DEF FileEnvelope, Signed
<1>8. QED
  BY <1>1, <1>5, <1>6, <1>7 DEF RoleKeyids

\* Nothing is held before the walk has ended, and the root is the same from then on.
RevokedInv == pc \notin Verifying => held = [r \in Roles |-> None]

LEMMA RevokedStep ==
  TypeOK /\ RevokedInv /\ NoRevokedKey /\ [Next]_vars => RevokedInv' /\ NoRevokedKey'
<1> SUFFICES ASSUME TypeOK, RevokedInv, NoRevokedKey, [Next]_vars
             PROVE  RevokedInv' /\ NoRevokedKey'
  OBVIOUS
<1>1. ASSUME UNCHANGED <<root, held>>, pc \in Verifying => pc' \in Verifying
      PROVE  RevokedInv' /\ NoRevokedKey'
  <2>1. CASE pc \in Verifying
    BY <1>1, <2>1 DEF RevokedInv, NoRevokedKey, Verifying
  <2>2. CASE pc \notin Verifying
    BY <1>1, <2>2 DEF RevokedInv, NoRevokedKey, Verifying
  <2>3. QED
    BY <2>1, <2>2
<1>2. CASE Environment \/ UNCHANGED vars
  BY <1>1, <1>2 DEF Environment, PublishTargets, Resign, Refresh, Issue, PublishRoot, Tick,
     ClockSteps, vars, poll
<1>3. ASSUME held' = [r \in Roles |-> None]
      PROVE  RevokedInv' /\ NoRevokedKey'
  BY <1>3 DEF RevokedInv, NoRevokedKey, Verifying
<1>4. CASE PowerLoss \/ RootUnreadable \/ LinkFails \/ FileFails \/ ChainFails \/ EndPoll
  BY <1>3, <1>4 DEF PowerLoss, RootUnreadable, LinkFails, FileFails, ChainFails, EndPoll, Leave
<1>5. CASE \/ AnchorStored \/ AnchorEmbedded \/ BeginPoll \/ LatestUnknown
           \/ \E v \in 1 .. Len(roots) : LearnLatest(v)
           \/ \E v \in ServableRoots(link) : AdoptLink(v)
  <2>1. pc \notin Verifying /\ held' = held
    BY <1>5 DEF AnchorStored, AnchorEmbedded, BeginPoll, LatestUnknown, LearnLatest, AdoptLink,
       Verifying, Roles
  <2>2. QED
    BY <1>3, <2>1 DEF RevokedInv
<1>6. ASSUME NEW role \in Roles, NEW f \in Servable(role), VerifyFile(role, f)
      PROVE  RevokedInv' /\ NoRevokedKey'
  <2>1. /\ pc = role /\ FileVerifies(role, f) /\ root' = root
        /\ held' = [held EXCEPT ![role] = f] /\ pc' = NextRole[role]
    BY <1>6 DEF VerifyFile
  <2>2. pc \in Verifying /\ pc' \in Verifying
    BY <2>1 DEF Verifying, NextRole, Roles
  <2>3. ASSUME NEW r \in Roles, held'[r] # None
        PROVE  RoleKeyids(held'[r].by) \cap RoleKeyids(root) # {}
    <3>1. CASE r = role
      BY <2>1, <3>1, ServableType, SharesAKey
    <3>2. CASE r # role
      <4>1. held'[r] = held[r]
        BY <2>1, <3>2, ServableType
      <4>2. QED
        BY <2>2, <2>3, <4>1 DEF NoRevokedKey, Verifying
    <3>3. QED
      BY <3>1, <3>2
  <2>4. QED
    BY <2>1, <2>2, <2>3 DEF RevokedInv, NoRevokedKey
<1>7. CASE VerifyChain
  BY <1>1, <1>7 DEF VerifyChain, Verifying
<1>8. QED
  BY <1>2, <1>4, <1>5, <1>6, <1>7 DEF Next, Device

\* Rotation revokes: a file that only keys without a place in the trusted root
\* signed is never used, whichever root it was published under.
THEOREM RotationRevokes == Spec => []NoRevokedKey
<1>1. Init => RevokedInv /\ NoRevokedKey
  BY DEF Init, RevokedInv, NoRevokedKey, Verifying, Roles
<1>2. QED
  BY <1>1, RevokedStep, TypeCorrect, PTL DEF Spec

=============================================================================
