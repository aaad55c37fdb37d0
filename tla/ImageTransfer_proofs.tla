------------------------ MODULE ImageTransfer_proofs ------------------------
(***************************************************************************)
(* For every target, slot size and number of redirects: a transfer gives   *)
(* back all it allocated, and it implements the one-step download of       *)
(* SlotInstall.  The inductive invariant says what may be held at each     *)
(* point, and that as long as no error was seen the digest is of exactly   *)
(* the bytes in the slot.                                                  *)
(***************************************************************************)
EXTENDS ImageTransfer, TLAPS

Leg == {"open", "headers", "redirect", "reopen", "buffer", "close"}
HeldInv ==
  /\ pc \in {"begin", "verify", "stage", "flip"} => held \subseteq {"creds"}
  /\ pc \in {"init", "streamed"} => held \subseteq {"creds", "session"}
  /\ pc \in Leg => held \subseteq {"creds", "session", "client", "location", "url"}
  /\ pc = "reopen" => "client" \notin held
  /\ pc = "done" => held = {}

Opening == {"init", "open", "headers", "redirect", "reopen", "buffer"}
DataInv ==
  /\ pc \in Opening => slot = Erased
  /\ pc \in {"begin"} \cup Opening => sha = <<>>
  /\ pc \in {"read", "verify"} => sha = slot
  /\ pc \in {"close", "streamed"} /\ err = "OK" => sha = slot
  /\ pc \in {"stage", "flip"} => slot = Target
  /\ boot = "slot" => pc = "done"
  /\ pc \notin {"flip", "done"} => staged = "no"

USE TransferAssumption

\* What a slot may hold, said with Seq.
LEMMA Bounded == \A s : s \in BoundedSeq(Chunks, Capacity) <=> s \in Seq(Chunks) /\ Len(s) <= Capacity
<1>1. ASSUME NEW s, s \in BoundedSeq(Chunks, Capacity) PROVE s \in Seq(Chunks) /\ Len(s) <= Capacity
  BY <1>1 DEF BoundedSeq, SeqOf
<1>2. ASSUME NEW s \in Seq(Chunks), Len(s) <= Capacity PROVE s \in BoundedSeq(Chunks, Capacity)
  <2>1. Len(s) \in 0 .. Capacity
    BY <1>2
  <2>2. s \in [1 .. Len(s) -> Chunks]
    OBVIOUS
  <2> QED BY <2>1, <2>2 DEF BoundedSeq, SeqOf
<1> QED BY <1>1, <1>2

\* The type invariant in two halves: the bytes, and everything else.
Bytes == slot \in Seq(Chunks) /\ sha \in Seq(Chunks) /\ Len(slot) <= Capacity
Scalars ==
  /\ boot \in {"running", "slot"} /\ staged \in {"no", "torn", "yes"}
  /\ got \in Nat /\ hops \in Nat /\ status \in Statuses /\ err \in {"OK", "FAIL"}
  /\ pc \in {"begin", "init", "open", "headers", "redirect", "reopen", "buffer", "read", "close",
             "streamed", "verify", "stage", "flip", "done"}
  /\ held \subseteq {"creds", "session", "client", "location", "url", "buffer"}

LEMMA TypeHalves == TypeOK <=> Bytes /\ Scalars
BY DEF TypeOK, Bytes, Scalars

LEMMA NoBytes == <<>> \in Seq(Chunks) /\ Len(<<>>) <= Capacity
OBVIOUS

LEMMA OneMore == ASSUME NEW s \in Seq(Chunks), NEW c \in Chunks
                 PROVE Append(s, c) \in Seq(Chunks) /\ Len(Append(s, c)) = Len(s) + 1
OBVIOUS

\* Each action keeps the bytes within the slot.
LEMMA BytesStep == Bytes /\ [Next]_vars => Bytes'
<1> SUFFICES ASSUME Bytes, [Next]_vars PROVE Bytes'
  OBVIOUS
<1> USE DEF Bytes, flash, ram, GiveUp, StreamFails
<1>1. CASE OtaBegin BY NoBytes, <1>1 DEF OtaBegin, Erased
<1>2. CASE ClientInit BY <1>2 DEF ClientInit
<1>3. CASE Open BY <1>3 DEF Open
<1>4. CASE Headers BY <1>4 DEF Headers
<1>5. CASE Follow BY <1>5 DEF Follow
<1>6. CASE Reopen BY <1>6 DEF Reopen
<1>7. CASE Buffer BY <1>7 DEF Buffer
<1>8. ASSUME NEW c \in Chunks, ReadChunk(c) PROVE Bytes'
  <2>1. Len(slot) < Capacity /\ slot' = Append(slot, c) /\ sha' = Append(sha, c)
    BY <1>8 DEF ReadChunk
  <2> QED BY <2>1, OneMore
<1>9. ASSUME NEW c \in Chunks, SinkFails(c) PROVE Bytes'
  <2>1. sha' = sha /\ (slot' = slot \/ (Len(slot) < Capacity /\ slot' = Append(slot, c)))
    BY <1>9 DEF SinkFails
  <2> QED BY <2>1, OneMore
<1>10. CASE BodyEnds BY <1>10 DEF BodyEnds
<1>11. CASE ReadFails BY <1>11 DEF ReadFails
<1>12. CASE CloseStream BY <1>12 DEF CloseStream
<1>13. CASE Abort BY <1>13 DEF Abort
<1>14. CASE OtaEnd BY <1>14 DEF OtaEnd
<1>15. CASE Verify BY <1>15 DEF Verify
<1>16. CASE Stage BY <1>16 DEF Stage
<1>17. CASE SetBoot BY <1>17 DEF SetBoot
<1>18. CASE PowerLoss BY <1>18 DEF PowerLoss
<1>19. CASE Again BY NoBytes, <1>19 DEF Again
<1>20. CASE UNCHANGED vars BY <1>20 DEF vars
<1> QED BY <1>1, <1>2, <1>3, <1>4, <1>5, <1>6, <1>7, <1>8, <1>9, <1>10, <1>11, <1>12, <1>13,
           <1>14, <1>15, <1>16, <1>17, <1>18, <1>19, <1>20 DEF Next, Transfer

\* Each action keeps the rest of the types.
LEMMA ScalarsStep == Scalars /\ [Next]_vars => Scalars'
<1> SUFFICES ASSUME Scalars, [Next]_vars PROVE Scalars'
  OBVIOUS
<1> USE DEF Scalars, flash, ram, GiveUp, StreamFails, Statuses
<1>1. CASE OtaBegin BY <1>1 DEF OtaBegin
<1>2. CASE ClientInit BY <1>2 DEF ClientInit
<1>3. CASE Open BY <1>3 DEF Open
<1>4. CASE Headers BY <1>4 DEF Headers
<1>5. CASE Follow
  <2>1. hops' \in Nat BY <1>5 DEF Follow
  <2>2. held' \subseteq held \cup {"url"} BY <1>5 DEF Follow
  <2>3. pc' \in {"reopen", "streamed"} /\ err' \in {"OK", "FAIL"} BY <1>5 DEF Follow
  <2>4. UNCHANGED <<boot, staged, got, status>> BY <1>5 DEF Follow
  <2> QED BY <2>1, <2>2, <2>3, <2>4
<1>6. CASE Reopen BY <1>6 DEF Reopen
<1>7. CASE Buffer BY <1>7 DEF Buffer
<1>8. ASSUME NEW c \in Chunks, ReadChunk(c) PROVE Scalars' BY <1>8 DEF ReadChunk
<1>9. ASSUME NEW c \in Chunks, SinkFails(c) PROVE Scalars' BY <1>9 DEF SinkFails
<1>10. CASE BodyEnds BY <1>10 DEF BodyEnds
<1>11. CASE ReadFails BY <1>11 DEF ReadFails
<1>12. CASE CloseStream BY <1>12 DEF CloseStream
<1>13. CASE Abort BY <1>13 DEF Abort
<1>14. CASE OtaEnd BY <1>14 DEF OtaEnd
<1>15. CASE Verify BY <1>15 DEF Verify
<1>16. CASE Stage BY <1>16 DEF Stage
<1>17. CASE SetBoot BY <1>17 DEF SetBoot
<1>18. CASE PowerLoss BY <1>18 DEF PowerLoss
<1>19. CASE Again BY <1>19 DEF Again
<1>20. CASE UNCHANGED vars BY <1>20 DEF vars
<1> QED BY <1>1, <1>2, <1>3, <1>4, <1>5, <1>6, <1>7, <1>8, <1>9, <1>10, <1>11, <1>12, <1>13,
           <1>14, <1>15, <1>16, <1>17, <1>18, <1>19, <1>20 DEF Next, Transfer

LEMMA TypeStep == TypeOK /\ [Next]_vars => TypeOK'
<1>1. Bytes' /\ Scalars' => TypeOK' BY DEF TypeOK, Bytes, Scalars
<1> QED BY <1>1, TypeHalves, BytesStep, ScalarsStep

\* What is held where: each exit's cleanup list is long enough.
LEMMA HeldStep == TypeOK /\ HeldInv /\ [Next]_vars => HeldInv'
<1> SUFFICES ASSUME TypeOK, HeldInv, [Next]_vars PROVE HeldInv'
  OBVIOUS
<1> USE DEF HeldInv, Leg, flash, ram, GiveUp, StreamFails
<1>0. held \subseteq {"creds", "session", "client", "location", "url", "buffer"}
  BY DEF TypeOK
<1>1. CASE OtaBegin BY <1>1 DEF OtaBegin
<1>2. CASE ClientInit BY <1>2 DEF ClientInit
<1>3. CASE Open BY <1>3 DEF Open
<1>4. CASE Headers BY <1>4 DEF Headers
<1>5. CASE Follow BY <1>5 DEF Follow
<1>6. CASE Reopen BY <1>6 DEF Reopen
<1>7. CASE Buffer BY <1>7 DEF Buffer
<1>8. ASSUME NEW c \in Chunks, ReadChunk(c) PROVE HeldInv' BY <1>8 DEF ReadChunk
<1>9. ASSUME NEW c \in Chunks, SinkFails(c) PROVE HeldInv' BY <1>0, <1>9 DEF SinkFails
<1>10. CASE BodyEnds BY <1>0, <1>10 DEF BodyEnds
<1>11. CASE ReadFails BY <1>0, <1>11 DEF ReadFails
<1>12. CASE CloseStream BY <1>12 DEF CloseStream
<1>13. CASE Abort BY <1>13 DEF Abort
<1>14. CASE OtaEnd BY <1>14 DEF OtaEnd
<1>15. CASE Verify BY <1>15 DEF Verify
<1>16. CASE Stage BY <1>16 DEF Stage
<1>17. CASE SetBoot BY <1>17 DEF SetBoot
<1>18. CASE PowerLoss BY <1>18 DEF PowerLoss
<1>19. CASE Again BY <1>19 DEF Again
<1>20. CASE UNCHANGED vars BY <1>20 DEF vars
<1> QED BY <1>1, <1>2, <1>3, <1>4, <1>5, <1>6, <1>7, <1>8, <1>9, <1>10, <1>11, <1>12, <1>13,
           <1>14, <1>15, <1>16, <1>17, <1>18, <1>19, <1>20 DEF Next, Transfer

\* The digest and the slot agree until something fails.
LEMMA DataStep == TypeOK /\ DataInv /\ [Next]_vars => DataInv'
<1> SUFFICES ASSUME TypeOK, DataInv, [Next]_vars PROVE DataInv'
  OBVIOUS
<1> USE DEF DataInv, Opening, flash, ram, GiveUp, StreamFails, Erased
<1>1. CASE OtaBegin BY <1>1 DEF OtaBegin
<1>2. CASE ClientInit BY <1>2 DEF ClientInit
<1>3. CASE Open BY <1>3 DEF Open
<1>4. CASE Headers BY <1>4 DEF Headers
<1>5. CASE Follow BY <1>5 DEF Follow
<1>6. CASE Reopen BY <1>6 DEF Reopen
<1>7. CASE Buffer BY <1>7 DEF Buffer
<1>8. ASSUME NEW c \in Chunks, ReadChunk(c) PROVE DataInv' BY <1>8 DEF ReadChunk
<1>9. ASSUME NEW c \in Chunks, SinkFails(c) PROVE DataInv' BY <1>9 DEF SinkFails
<1>10. CASE BodyEnds BY <1>10 DEF BodyEnds
<1>11. CASE ReadFails BY <1>11 DEF ReadFails
<1>12. CASE CloseStream BY <1>12 DEF CloseStream
<1>13. CASE Abort BY <1>13 DEF Abort
<1>14. CASE OtaEnd BY <1>14 DEF OtaEnd
<1>15. CASE Verify BY <1>15 DEF Verify
<1>16. CASE Stage BY <1>16 DEF Stage
<1>17. CASE SetBoot BY <1>17 DEF SetBoot
<1>18. CASE PowerLoss BY <1>18 DEF PowerLoss
<1>19. CASE Again BY <1>19 DEF Again
<1>20. CASE UNCHANGED vars BY <1>20 DEF vars
<1> QED BY <1>1, <1>2, <1>3, <1>4, <1>5, <1>6, <1>7, <1>8, <1>9, <1>10, <1>11, <1>12, <1>13,
           <1>14, <1>15, <1>16, <1>17, <1>18, <1>19, <1>20 DEF Next, Transfer

TransferInv == TypeOK /\ HeldInv /\ DataInv

\* The inductive invariant: what may be held at each point of the transfer, and
\* that the digest is of the bytes in the slot.
THEOREM Invariance == Spec => []TransferInv
<1>1. Init => TransferInv
  <2> SUFFICES ASSUME Init PROVE TransferInv
    OBVIOUS
  <2>1. TypeOK BY Bounded DEF Init, TypeOK, Statuses
  <2>2. HeldInv BY DEF Init, HeldInv, Leg
  <2>3. DataInv BY DEF Init, DataInv, Opening
  <2> QED BY <2>1, <2>2, <2>3 DEF TransferInv
<1>2. TransferInv /\ [Next]_vars => TransferInv'
  BY TypeStep, HeldStep, DataStep DEF TransferInv
<1> QED BY <1>1, <1>2, PTL DEF Spec

\* A transfer that ended has given everything back.
THEOREM ReleasesAll == Spec => []GivesBack
<1>1. TransferInv => GivesBack BY DEF TransferInv, HeldInv, GivesBack
<1> QED BY <1>1, Invariance, PTL

\* One step of a transfer is a step of the one-step download, or none of it.
LEMMA StepRefines == TransferInv /\ TransferInv' /\ [Next]_vars => [Abstract!Next]_(Abstract!vars)
<1> SUFFICES ASSUME TransferInv, TransferInv', [Next]_vars PROVE [Abstract!Next]_(Abstract!vars)
  OBVIOUS
<1>0. slot \in BoundedSeq(Chunks, Capacity) /\ boot \in {"running", "slot"}
  BY Bounded DEF TransferInv, TypeOK
<1> USE DEF Arriving, Abstract!vars, flash, ram, GiveUp, StreamFails, Erased
\* The transfer ends: whatever is in the slot was downloaded in one step.
<1>1. ASSUME pc \in Arriving, pc' = "done", UNCHANGED flash PROVE Abstract!Next
  <2>1. Abstract!Download(slot) BY <1>1 DEF Abstract!Download
  <2> QED BY <1>0, <2>1 DEF Abstract!Next
\* It goes on: the slot still counts as erased.
<1>2. ASSUME pc \in Arriving, pc' \in Arriving, UNCHANGED <<boot, staged>>
      PROVE UNCHANGED Abstract!vars
  BY <1>2
<1>3. CASE OtaBegin
  <2>1. CASE pc' = "init"
    <3>1. boot = "running" BY <1>0, <1>3 DEF OtaBegin, TransferInv, DataInv
    <3> QED BY <1>3, <2>1, <3>1 DEF OtaBegin, Abstract!Next, Abstract!Begin
  <2>2. CASE pc' = "done" BY <1>3, <2>2 DEF OtaBegin
  <2> QED BY <1>3, <2>1, <2>2 DEF OtaBegin
<1>4. ASSUME \/ ClientInit \/ Open \/ Headers \/ Follow \/ Reopen \/ Buffer \/ BodyEnds \/ ReadFails
             \/ CloseStream \/ \E c \in Chunks : ReadChunk(c) \/ SinkFails(c)
      PROVE UNCHANGED Abstract!vars
  <2>1. pc \in Arriving /\ pc' \in Arriving /\ UNCHANGED <<boot, staged>>
    BY <1>4 DEF ClientInit, Open, Headers, Follow, Reopen, Buffer, BodyEnds, ReadFails, CloseStream,
                ReadChunk, SinkFails
  <2> QED BY <1>2, <2>1
<1>5. CASE Abort
  <2>1. pc \in Arriving /\ pc' = "done" /\ UNCHANGED flash BY <1>5 DEF Abort
  <2> QED BY <1>1, <2>1
<1>6. CASE OtaEnd
  <2>1. pc \in Arriving /\ pc' \in {"verify", "done"} /\ UNCHANGED flash BY <1>6 DEF OtaEnd
  <2> QED BY <1>1, <1>2, <2>1
<1>7. CASE Verify
  <2>1. pc \in Arriving /\ pc' \in {"stage", "done"} /\ UNCHANGED flash BY <1>7 DEF Verify
  <2>2. CASE pc' = "stage"
    <3>1. slot = Target BY <1>7, <2>2 DEF Verify, TransferInv, DataInv
    <3>2. Abstract!Download(slot) BY <2>1, <2>2, <3>1 DEF Abstract!Download
    <3> QED BY <1>0, <3>2 DEF Abstract!Next
  <2> QED BY <1>1, <2>1, <2>2
<1>8. CASE Stage
  <2>1. Abstract!Stage BY <1>8 DEF Stage, Abstract!Stage
  <2> QED BY <2>1 DEF Abstract!Next
<1>9. CASE SetBoot
  <2>1. Abstract!Activate BY <1>9 DEF SetBoot, Abstract!Activate
  <2> QED BY <2>1 DEF Abstract!Next
\* A power loss is the end of whichever step it interrupts.
<1>10. CASE PowerLoss
  <2>1. pc' = "done" /\ UNCHANGED flash /\ pc # "done" BY <1>10 DEF PowerLoss
  <2>2. CASE pc \in Arriving BY <1>1, <2>1, <2>2
  <2>3. CASE pc = "stage"
    <3>1. staged = "no" BY <2>3 DEF TransferInv, DataInv
    <3>2. Abstract!Stage BY <2>1, <2>3, <3>1 DEF Abstract!Stage
    <3> QED BY <3>2 DEF Abstract!Next
  <2>4. CASE pc = "flip"
    <3>1. staged \in {"no", "torn", "yes"} BY DEF TransferInv, TypeOK
    <3>2. Abstract!Activate BY <2>1, <2>4, <3>1 DEF Abstract!Activate
    <3> QED BY <3>2 DEF Abstract!Next
  <2>5. CASE pc = "begin" BY <2>1, <2>5
  <2> QED BY <2>1, <2>2, <2>3, <2>4, <2>5 DEF TransferInv, TypeOK
<1>11. CASE Again
  <2>1. Abstract!Resolve BY <1>11 DEF Again, Abstract!Resolve
  <2> QED BY <2>1 DEF Abstract!Next
<1>12. CASE UNCHANGED vars
  BY <1>12 DEF vars
<1> QED BY <1>3, <1>4, <1>5, <1>6, <1>7, <1>8, <1>9, <1>10, <1>11, <1>12 DEF Next, Transfer

\* The read-by-read transfer implements the one-step download: however it goes,
\* only exactly the target is recorded and booted.
THEOREM Refines == Spec => ImplementsInstall
<1>1. Init => Abstract!Init
  BY DEF Init, Abstract!Init, Arriving
<1> QED BY <1>1, Invariance, StepRefines, PTL DEF Spec, ImplementsInstall, Abstract!Spec

-----------------------------------------------------------------------------
(* A transfer is over after a number of steps known when it begins. *)

\* As many redirects are followed as are allowed.
HopsInv == pc \in {"begin", "init", "open", "headers", "redirect", "reopen"} => hops <= MaxRedirects

LEMMA HopsStep == TypeOK /\ HopsInv /\ [Next]_vars => HopsInv'
<1> SUFFICES ASSUME TypeOK, HopsInv, [Next]_vars PROVE HopsInv'
  OBVIOUS
<1>0. hops \in Nat /\ MaxRedirects \in Nat
  BY DEF TypeOK
<1> USE DEF HopsInv, GiveUp, StreamFails
<1>1. CASE OtaBegin BY <1>1 DEF OtaBegin
<1>2. CASE ClientInit BY <1>2 DEF ClientInit, flash
<1>3. CASE Open BY <1>3 DEF Open, flash
<1>4. CASE Headers BY <1>4 DEF Headers, flash
<1>5. CASE Follow
  <2>1. CASE pc' = "reopen"
    BY <1>0, <1>5, <2>1 DEF Follow
  <2>2. CASE pc' = "streamed"
    BY <2>2
  <2> QED BY <1>5, <2>1, <2>2 DEF Follow
<1>6. CASE Reopen BY <1>6 DEF Reopen, flash
<1>7. CASE pc' \notin {"begin", "init", "open", "headers", "redirect", "reopen"}
  BY <1>7
<1>8. CASE Again BY <1>8 DEF Again
<1>9. CASE UNCHANGED vars BY <1>9 DEF vars
<1>10. CASE \/ Buffer \/ BodyEnds \/ ReadFails \/ CloseStream \/ Abort \/ OtaEnd \/ Verify \/ Stage
            \/ SetBoot \/ PowerLoss \/ \E c \in Chunks : ReadChunk(c) \/ SinkFails(c)
  <2>1. pc' \notin {"begin", "init", "open", "headers", "redirect", "reopen"}
    BY <1>10 DEF Buffer, BodyEnds, ReadFails, CloseStream, Abort, OtaEnd, Verify, Stage, SetBoot,
                 PowerLoss, ReadChunk, SinkFails
  <2> QED BY <1>7, <2>1
<1> QED BY <1>1, <1>2, <1>3, <1>4, <1>5, <1>6, <1>8, <1>9, <1>10 DEF Next, Transfer

\* Every step of a transfer leaves fewer to do.
LEMMA CountStep ==
  TypeOK /\ DataInv /\ HopsInv /\ HopsInv' /\ pc # "done" /\ [Next]_vars
    => UNCHANGED vars \/ (StepsLeft' \in Nat /\ StepsLeft' < StepsLeft)
<1> SUFFICES ASSUME TypeOK, DataInv, HopsInv, HopsInv', pc # "done", Next
             PROVE  StepsLeft' \in Nat /\ StepsLeft' < StepsLeft
  OBVIOUS
<1>0. /\ hops \in Nat /\ MaxRedirects \in Nat /\ Capacity \in Nat /\ slot \in Seq(Chunks)
      /\ Len(slot) \in Nat /\ Len(slot) <= Capacity
  BY DEF TypeOK
<1> USE DEF StepsLeft, BodySteps, HopsInv, GiveUp, StreamFails
<1>1. CASE OtaBegin
  <2>1. pc = "begin" /\ hops <= MaxRedirects /\ StepsLeft = Capacity + 12 + 4 * (MaxRedirects - hops)
    BY <1>1 DEF OtaBegin
  <2>2. CASE pc' = "init"
    <3>1. StepsLeft' = Capacity + 11 + 4 * (MaxRedirects - hops) BY <1>1, <2>1, <2>2 DEF OtaBegin
    <3> HIDE DEF StepsLeft
    <3> QED BY <1>0, <2>1, <3>1
  <2>3. CASE pc' = "done"
    <3>1. StepsLeft' = 0 BY <2>3
    <3> HIDE DEF StepsLeft
    <3> QED BY <1>0, <2>1, <3>1
  <2> QED BY <1>1, <2>2, <2>3 DEF OtaBegin
<1>2. CASE ClientInit BY <1>0, <1>2 DEF ClientInit, flash
<1>3. CASE Open BY <1>0, <1>3 DEF Open, flash
<1>4. CASE Headers
  <2>1. pc = "headers" /\ hops <= MaxRedirects /\ StepsLeft = Capacity + 9 + 4 * (MaxRedirects - hops)
    BY <1>4 DEF Headers
  <2>2. CASE pc' = "redirect"
    <3>1. StepsLeft' = Capacity + 8 + 4 * (MaxRedirects - hops) BY <1>4, <2>1, <2>2 DEF Headers
    <3> HIDE DEF StepsLeft
    <3> QED BY <1>0, <2>1, <3>1
  <2>3. CASE pc' = "buffer"
    <3>1. StepsLeft' = Capacity + 7 BY <2>3
    <3> HIDE DEF StepsLeft
    <3> QED BY <1>0, <2>1, <3>1
  <2> QED BY <1>4, <2>2, <2>3 DEF Headers
<1>5. CASE Follow
  <2>1. pc = "redirect" /\ hops' = hops + 1 /\ StepsLeft = Capacity + 8 + 4 * (MaxRedirects - hops)
    BY <1>5 DEF Follow
  <2>2. CASE pc' = "reopen"
    <3>1. StepsLeft' = Capacity + 11 + 4 * (MaxRedirects - (hops + 1))
      BY <1>0, <2>1, <2>2
    <3> QED BY <1>0, <2>1, <2>2, <3>1
  <2>3. CASE pc' = "streamed"
    BY <1>0, <2>1, <2>3
  <2> QED BY <1>5, <2>2, <2>3 DEF Follow
<1>6. CASE Reopen BY <1>0, <1>6 DEF Reopen, flash
<1>7. CASE Buffer
  <2>1. slot = <<>> /\ slot' = slot /\ Len(slot) = 0
    BY <1>7 DEF Buffer, flash, DataInv, Opening, Erased
  <2> QED BY <1>0, <1>7, <2>1 DEF Buffer
<1>8. ASSUME NEW c \in Chunks, ReadChunk(c) PROVE StepsLeft' \in Nat /\ StepsLeft' < StepsLeft
  <2>1. /\ Len(slot) < Capacity /\ pc = "read" /\ pc' = "read"
        /\ Len(slot') = Len(slot) + 1
    BY <1>0, <1>8, OneMore DEF ReadChunk
  <2>2. StepsLeft' = Capacity - Len(slot') + 6 /\ StepsLeft = Capacity - Len(slot) + 6
    BY <2>1
  <2> QED BY <1>0, <2>1, <2>2
<1>9. ASSUME NEW c \in Chunks, SinkFails(c) PROVE StepsLeft' \in Nat /\ StepsLeft' < StepsLeft
  BY <1>0, <1>9 DEF SinkFails
<1>10. CASE BodyEnds BY <1>0, <1>10 DEF BodyEnds
<1>11. CASE ReadFails BY <1>0, <1>11 DEF ReadFails
<1>12. CASE CloseStream BY <1>12 DEF CloseStream
<1>13. CASE Abort BY <1>13 DEF Abort
<1>14. CASE OtaEnd BY <1>14 DEF OtaEnd
<1>15. CASE Verify BY <1>15 DEF Verify
<1>16. CASE Stage BY <1>16 DEF Stage
<1>17. CASE SetBoot BY <1>17 DEF SetBoot
<1>18. CASE PowerLoss
  <2>1. StepsLeft > 0
    <3>1. pc \in {"begin", "init", "open", "headers", "redirect", "reopen"} => MaxRedirects - hops \in Nat
      BY <1>0
    <3>2. CASE pc = "begin" BY <1>0, <3>1, <3>2
    <3>3. CASE pc = "init" BY <1>0, <3>1, <3>3
    <3>4. CASE pc = "open" BY <1>0, <3>1, <3>4
    <3>5. CASE pc = "headers" BY <1>0, <3>1, <3>5
    <3>6. CASE pc = "redirect" BY <1>0, <3>1, <3>6
    <3>7. CASE pc = "reopen" BY <1>0, <3>1, <3>7
    <3>8. CASE pc \in {"buffer", "read"} BY <1>0, <3>8
    <3>9. CASE pc \in {"close", "streamed", "verify", "stage", "flip"} BY <3>9
    <3> QED BY <3>2, <3>3, <3>4, <3>5, <3>6, <3>7, <3>8, <3>9 DEF TypeOK
  <2>2. StepsLeft' = 0 BY <1>18 DEF PowerLoss
  <2> QED BY <2>1, <2>2
<1>19. CASE Again BY <1>19 DEF Again
<1> QED BY <1>1, <1>2, <1>3, <1>4, <1>5, <1>6, <1>7, <1>8, <1>9, <1>10, <1>11, <1>12, <1>13,
           <1>14, <1>15, <1>16, <1>17, <1>18, <1>19 DEF Next, Transfer

\* A transfer takes at most Capacity + 4 * MaxRedirects + 12 steps, whatever the
\* servers answer: the safety half of Ends, with a bound.
THEOREM Bounds == Spec => StepsAreCounted
<1>1. Init => HopsInv
  BY DEF Init, HopsInv
<1>2. TransferInv /\ HopsInv /\ HopsInv' /\ [Next]_vars
        => [pc # "done" => StepsLeft' \in Nat /\ StepsLeft' < StepsLeft]_vars
  BY CountStep DEF TransferInv
<1>3. TransferInv => TypeOK
  BY DEF TransferInv
<1> QED BY <1>1, <1>2, <1>3, HopsStep, Invariance, PTL DEF Spec, StepsAreCounted
=============================================================================
