--------------------------- MODULE BootArea_proofs ---------------------------
(***************************************************************************)
(* That no interruption leaves the boot ROM without a bootloader, for any  *)
(* images and any of the slot types, as long as the blocks of MBR and raw  *)
(* areas reach the device in the order RAUC writes them.                   *)
(***************************************************************************)
EXTENDS BootArea, TLAPS

InOrder == Cached \subseteq {"boot-gpt-switch", "boot-emmc"}

----------------------------------------------------------------------------
(* The inductive invariant.  Holds says that a half is an image and that    *)
(* nothing of it is still on its way to the device.                         *)

Holds(h, i) ==
    /\ disk[Header(h)] = i /\ disk[Body(h)] = i
    /\ seen[Header(h)] = i /\ seen[Body(h)] = i

\* The active half is safe, and not the one being written until that one is safe too.
SwitchInv ==
    ~raw =>
        /\ ~again
        /\ pc # "syncBody"
        /\ ~NotEnabled => RomHalf \in Halves /\ \E i \in Images : Holds(RomHalf, i)
        /\ pc \in {"clear", "clearBody", "header", "body", "sync", "activate"}
              => target # RomHalf
        /\ pc \in {"body", "sync"} => seen[Header(target)] = image
        /\ pc = "sync" => seen[Body(target)] = image
        /\ pc \in {"activate", "backup", "primary", "toggle", "check", "done"}
              => Holds(target, image)
        /\ pc = "done" => NotEnabled \/ RomHalf = target

\* One of the copies of the GPT is always good enough to lose the other.
GptInv ==
    kind = "boot-gpt-switch" =>
        /\ pc = "backup" => gpt["primary"] # "invalid"
        /\ pc = "primary" => gpt["backup"] = target

EmmcInv ==
    /\ kind # "boot-emmc" => writable = {} /\ pc \notin {"toggle", "check"}
    /\ bootPart \notin writable
    /\ pc \in {"toggle", "check", "done"} => target \notin writable

RawPcs == {"idle", "clear", "clearBody", "body", "syncBody", "header", "sync", "done"}

\* A raw half with a header is an image; while one half is written the other one is, and
\* once it was written, the new one.
RawInv ==
    raw =>
        /\ pc \in RawPcs
        /\ \E h \in Halves, i \in Images : Holds(h, i)
        /\ \A h \in Halves :
              disk[Header(h)] = "blank" \/ \E i \in Images : Holds(h, i)
        /\ pc \in RawPcs \ {"idle", "done"} =>
              /\ \E i \in Images : Holds(Other(target), i)
              /\ ~again => Holds(Other(target), image)
        /\ pc \in {"clearBody", "body", "syncBody", "header"} => disk[Header(target)] = "blank"
        /\ pc \in {"syncBody", "header"} => disk[Body(target)] = image
        /\ pc = "sync" => Holds(target, image)
        /\ pc = "done" => \A h \in Halves : Holds(h, image)

BootInv ==
    /\ BootTypeOK
    /\ kind \notin Cached => seen = disk
    /\ SwitchInv
    /\ GptInv
    /\ EmmcInv
    /\ RawInv

----------------------------------------------------------------------------
(* The blocks.                                                              *)

\* The blocks of an area are distinct, and the halves are two.
LEMMA BlockFacts ==
    /\ BootEntry \in Blocks
    /\ \A h \in Halves :
          /\ Header(h) \in Blocks /\ Body(h) \in Blocks
          /\ Header(h) # Body(h) /\ Header(h) # BootEntry /\ Body(h) # BootEntry
          /\ Other(h) \in Halves /\ Other(h) # h /\ Other(Other(h)) = h
          /\ \A g \in Halves : g # h =>
                /\ Header(g) # Header(h) /\ Body(g) # Body(h)
                /\ Header(g) # Body(h) /\ g = Other(h)
BY DEF Blocks, Header, Body, BootEntry, Halves, Other

\* The type invariant is kept by every step.
LEMMA TypeStep == BootTypeOK /\ [Next]_vars => BootTypeOK'
<1>. SUFFICES ASSUME BootTypeOK, [Next]_vars PROVE BootTypeOK'
  OBVIOUS
<1>. USE BlockFacts, KindsAssumption DEF BootTypeOK
<1>1. CASE \E i \in Images : Begin(i)
  <2>1. Destination \in Halves
    BY DEF Destination, Other, Halves, raw
  <2>2. PICK i \in Images : Begin(i)
    BY <1>1
  <2>. QED
    BY <2>1, <2>2 DEF Begin, storage, job, raw
<1>2. CASE ClearHeader
  BY <1>2 DEF vars, storage, job, raw, ClearHeader, Write
<1>3. CASE ClearBody
  BY <1>3 DEF vars, storage, job, raw, ClearBody, Write
<1>4. CASE CopyBody
  BY <1>4 DEF vars, storage, job, raw, CopyBody, Write
<1>5. CASE SyncBody
  BY <1>5 DEF vars, storage, job, raw, SyncBody, Fsync
<1>6. CASE CopyHeader
  BY <1>6 DEF vars, storage, job, raw, CopyHeader, Write
<1>7. CASE SyncHalf
  BY <1>7 DEF vars, storage, job, raw, SyncHalf, Fsync
<1>8. CASE Sync
  BY <1>8 DEF vars, storage, job, raw, Sync, Fsync
<1>9. CASE MbrSet
  BY <1>9 DEF vars, storage, job, raw, MbrSet, Write
<1>10. CASE GptRepair
  BY <1>10 DEF vars, storage, job, raw, GptRepair, GptActive
<1>11. CASE GptWrite("backup", "primary")
  BY <1>11 DEF vars, storage, job, raw, GptWrite
<1>12. CASE GptWrite("primary", "done")
  BY <1>12 DEF vars, storage, job, raw, GptWrite
<1>13. CASE EmmcReadOnly
  BY <1>13 DEF vars, storage, job, raw, EmmcReadOnly
<1>14. CASE EmmcToggle
  BY <1>14 DEF vars, storage, job, raw, EmmcToggle
<1>15. CASE EmmcCheck
  BY <1>15 DEF vars, storage, job, raw, EmmcCheck
<1>16. CASE Fail
  BY <1>16 DEF vars, storage, job, raw, Fail
<1>17. CASE Finish
  BY <1>17 DEF vars, storage, job, raw, Finish
<1>18. CASE PowerLoss
  BY <1>18 DEF vars, storage, job, raw, PowerLoss
<1>19. CASE \E b \in Blocks : WriteBack(b)
  BY <1>19 DEF vars, storage, job, raw, WriteBack
<1>20. CASE UNCHANGED vars
  BY <1>20 DEF vars, storage, job, raw
<1>21. QED
  BY <1>1, <1>2, <1>3, <1>4, <1>5, <1>6, <1>7, <1>8, <1>9, <1>10, <1>11, <1>12, <1>13, <1>14, <1>15, <1>16, <1>17, <1>18, <1>19, <1>20 DEF Next
\* The slot's type never changes.
LEMMA KindStep == [Next]_vars => kind' = kind
BY DEF Next, vars, Begin, ClearHeader, ClearBody, CopyBody, SyncBody, CopyHeader, SyncHalf,
       Sync, MbrSet, GptRepair, GptWrite, EmmcReadOnly, EmmcToggle, EmmcCheck, Fail, Finish,
       PowerLoss, WriteBack

\* In order means: no block is on its way.
LEMMA OrderStep ==
    BootTypeOK /\ (kind \notin Cached => seen = disk) /\ [Next]_vars
        => (kind' \notin Cached => seen' = disk')
<1>. SUFFICES ASSUME BootTypeOK, kind \notin Cached => seen = disk, [Next]_vars,
                     kind' \notin Cached
              PROVE  seen' = disk'
  OBVIOUS
<1>1. CASE \E i \in Images : Begin(i)
  BY <1>1 DEF Begin, storage, job
<1>2. CASE ClearHeader
  BY <1>2 DEF ClearHeader, Write, storage, job
<1>3. CASE ClearBody
  BY <1>3 DEF ClearBody, Write, storage, job
<1>4. CASE CopyBody
  BY <1>4 DEF CopyBody, Write, storage, job
<1>5. CASE SyncBody
  BY <1>5 DEF SyncBody, Fsync, storage, job
<1>6. CASE CopyHeader
  BY <1>6 DEF CopyHeader, Write, storage, job
<1>7. CASE SyncHalf
  BY <1>7 DEF SyncHalf, Fsync, storage, job
<1>8. CASE Sync
  BY <1>8 DEF Sync, Fsync, storage, job
<1>9. CASE MbrSet
  BY <1>9 DEF MbrSet, Write, storage, job
<1>10. CASE GptRepair
  BY <1>10 DEF GptRepair, storage, job
<1>11. CASE GptWrite("backup", "primary")
  BY <1>11 DEF GptWrite, storage, job
<1>12. CASE GptWrite("primary", "done")
  BY <1>12 DEF GptWrite, storage, job
<1>13. CASE EmmcReadOnly
  BY <1>13 DEF EmmcReadOnly, storage, job
<1>14. CASE EmmcToggle
  BY <1>14 DEF EmmcToggle, storage, job
<1>15. CASE EmmcCheck
  BY <1>15 DEF EmmcCheck, storage, job
<1>16. CASE Fail
  BY <1>16 DEF Fail, storage, job
<1>17. CASE Finish
  BY <1>17 DEF Finish, storage, job
<1>18. CASE PowerLoss
  BY <1>18 DEF PowerLoss, storage, job
<1>19. CASE \E b \in Blocks : WriteBack(b)
  BY <1>19 DEF WriteBack, storage, job
<1>20. CASE UNCHANGED vars
  BY <1>20 DEF vars, storage, job
<1>21. QED
  BY <1>1, <1>2, <1>3, <1>4, <1>5, <1>6, <1>7, <1>8, <1>9, <1>10, <1>11, <1>12, <1>13, <1>14, <1>15, <1>16, <1>17, <1>18, <1>19, <1>20 DEF Next

\* An eMMC partition is read-only before it becomes the active one.
LEMMA EmmcStep ==
    BootTypeOK /\ SwitchInv /\ EmmcInv /\ [Next]_vars => EmmcInv'
<1>. SUFFICES ASSUME BootTypeOK, SwitchInv, EmmcInv, [Next]_vars PROVE EmmcInv'
  OBVIOUS
<1>. USE BlockFacts DEF EmmcInv, BootTypeOK
<1>1. CASE \E i \in Images : Begin(i)
  <2>1. PICK i \in Images : Begin(i)
    BY <1>1
  <2>2. kind = "boot-emmc" => target' # bootPart
    BY <2>1 DEF Begin, Destination, Other, Halves, raw
  <2>. QED
    BY <2>1, <2>2 DEF Begin
<1>2. CASE ClearHeader
  BY <1>2 DEF ClearHeader, Write, storage, job
<1>3. CASE ClearBody
  BY <1>3 DEF ClearBody, Write, storage, job
<1>4. CASE CopyBody
  BY <1>4 DEF CopyBody, Write, storage, job
<1>5. CASE SyncBody
  BY <1>5 DEF SyncBody, Fsync, storage, job
<1>6. CASE CopyHeader
  BY <1>6 DEF CopyHeader, Write, storage, job
<1>7. CASE SyncHalf
  BY <1>7 DEF SyncHalf, Fsync, storage, job
<1>8. CASE Sync
  BY <1>8 DEF Sync, Fsync, storage, job, SwitchInv, raw
<1>9. CASE MbrSet
  BY <1>9 DEF MbrSet, Write, storage, job
<1>10. CASE GptRepair
  BY <1>10 DEF GptRepair, storage, job
<1>11. CASE GptWrite("backup", "primary")
  BY <1>11 DEF GptWrite, storage, job
<1>12. CASE GptWrite("primary", "done")
  BY <1>12 DEF GptWrite, storage, job
<1>13. CASE EmmcReadOnly
  BY <1>13 DEF EmmcReadOnly, storage, job, SwitchInv, RomHalf, NotEnabled, raw
<1>14. CASE EmmcToggle
  BY <1>14 DEF EmmcToggle, storage, job
<1>15. CASE EmmcCheck
  BY <1>15 DEF EmmcCheck, storage, job
<1>16. CASE Fail
  BY <1>16 DEF Fail, storage, job
<1>17. CASE Finish
  BY <1>17 DEF Finish, storage, job
<1>18. CASE PowerLoss
  BY <1>18 DEF PowerLoss, storage, job
<1>19. CASE \E b \in Blocks : WriteBack(b)
  BY <1>19 DEF WriteBack, storage, job
<1>20. CASE UNCHANGED vars
  BY <1>20 DEF vars, storage, job
<1>21. QED
  BY <1>1, <1>2, <1>3, <1>4, <1>5, <1>6, <1>7, <1>8, <1>9, <1>10, <1>11, <1>12, <1>13, <1>14, <1>15, <1>16, <1>17, <1>18, <1>19, <1>20 DEF Next

\* The backup is written while the primary copy is good, and the other way round.
LEMMA GptStep ==
    BootTypeOK /\ SwitchInv /\ GptInv /\ [Next]_vars => GptInv'
<1>. SUFFICES ASSUME BootTypeOK, SwitchInv, GptInv, [Next]_vars, kind = "boot-gpt-switch"
              PROVE GptInv'
  BY KindStep DEF GptInv
<1>. USE DEF GptInv, BootTypeOK
<1>1. CASE \E i \in Images : Begin(i)
  BY <1>1 DEF Begin, storage, job
<1>2. CASE ClearHeader
  BY <1>2 DEF ClearHeader, Write, storage, job
<1>3. CASE ClearBody
  BY <1>3 DEF ClearBody, Write, storage, job
<1>4. CASE CopyBody
  BY <1>4 DEF CopyBody, Write, storage, job
<1>5. CASE SyncBody
  BY <1>5 DEF SyncBody, Fsync, storage, job
<1>6. CASE CopyHeader
  BY <1>6 DEF CopyHeader, Write, storage, job
<1>7. CASE SyncHalf
  BY <1>7 DEF SyncHalf, Fsync, storage, job
<1>8. CASE Sync
  BY <1>8 DEF Sync, Fsync, storage, job
<1>9. CASE MbrSet
  BY <1>9 DEF MbrSet, Write, storage, job
<1>10. CASE GptRepair
  <2>1. GptActive \in Halves
    BY <1>10 DEF GptRepair, SwitchInv, RomHalf, NotEnabled, raw
  <2>. QED
    BY <1>10, <2>1 DEF GptRepair, Halves, storage, job
<1>11. CASE GptWrite("backup", "primary")
  BY <1>11 DEF GptWrite, storage, job
<1>12. CASE GptWrite("primary", "done")
  BY <1>12 DEF GptWrite, storage, job
<1>13. CASE EmmcReadOnly
  BY <1>13 DEF EmmcReadOnly, storage, job
<1>14. CASE EmmcToggle
  BY <1>14 DEF EmmcToggle, storage, job
<1>15. CASE EmmcCheck
  BY <1>15 DEF EmmcCheck, storage, job
<1>16. CASE Fail
  BY <1>16 DEF Fail, storage, job
<1>17. CASE Finish
  BY <1>17 DEF Finish, storage, job
<1>18. CASE PowerLoss
  BY <1>18 DEF PowerLoss, storage, job
<1>19. CASE \E b \in Blocks : WriteBack(b)
  BY <1>19 DEF WriteBack, storage, job
<1>20. CASE UNCHANGED vars
  BY <1>20 DEF vars, storage, job
<1>21. QED
  BY <1>1, <1>2, <1>3, <1>4, <1>5, <1>6, <1>7, <1>8, <1>9, <1>10, <1>11, <1>12, <1>13, <1>14, <1>15, <1>16, <1>17, <1>18, <1>19, <1>20 DEF Next
\* What the ROM of a switched area starts depends on the entry or register only.
LEMMA RomKept ==
    /\ kind \in Kinds /\ ~raw
    /\ kind = "boot-mbr-switch" => disk'[BootEntry] = disk[BootEntry]
    /\ UNCHANGED <<kind, gpt, bootPart>>
    => RomHalf' = RomHalf /\ NotEnabled' = NotEnabled
BY KindsAssumption DEF RomHalf, GptActive, raw, NotEnabled

\* The safe half of a switched area stays safe while the other one is written.
LEMMA SwitchStep ==
    InOrder /\ BootInv /\ [Next]_vars => SwitchInv'
<1>. SUFFICES ASSUME InOrder, BootInv, [Next]_vars, ~raw, ~raw',
                     kind = "boot-mbr-switch" => seen = disk
              PROVE  SwitchInv'
  BY KindStep DEF SwitchInv, raw, InOrder, BootInv
<1>. USE BlockFacts, RomKept DEF BootInv, BootTypeOK, SwitchInv, Holds
<1>1. CASE \E i \in Images : Begin(i)
  <2>1. PICK i \in Images : Begin(i)
    BY <1>1
  <2>2. target' # RomHalf
    <3>1. CASE kind = "boot-mbr-switch"
      BY <2>1, <3>1 DEF Begin, Destination, RomHalf, NotEnabled
    <3>2. CASE kind = "boot-gpt-switch"
      BY <2>1, <3>2 DEF Begin, Destination, RomHalf, NotEnabled
    <3>3. CASE kind = "boot-emmc"
      BY <2>1, <3>3 DEF Begin, Destination, RomHalf, NotEnabled
    <3>. QED
      BY <3>1, <3>2, <3>3, KindsAssumption DEF raw
  <2>3. RomHalf' = RomHalf /\ (NotEnabled' <=> NotEnabled)
    BY <2>1 DEF Begin
  <2>. QED
    BY <2>1, <2>2, <2>3 DEF Begin
<1>2. CASE ClearHeader
  BY <1>2 DEF ClearHeader, Write, storage, job
<1>3. CASE ClearBody
  BY <1>3 DEF ClearBody, Write, storage, job
<1>4. CASE CopyBody
  BY <1>4 DEF CopyBody, Write, storage, job
<1>5. CASE SyncBody
  BY <1>5 DEF SyncBody, Fsync, storage, job
<1>6. CASE CopyHeader
  BY <1>6 DEF CopyHeader, Write, storage, job
<1>7. CASE SyncHalf
  BY <1>7 DEF SyncHalf, Fsync, storage, job
<1>8. CASE Sync
  BY <1>8 DEF Sync, Fsync, storage, job
<1>9. CASE MbrSet
  <2>1. RomHalf' = target /\ ~NotEnabled'
    BY <1>9 DEF MbrSet, Write, RomHalf, NotEnabled, InOrder, job
  <2>2. Holds(target, image)'
    BY <1>9 DEF MbrSet, Write, InOrder, job
  <2>. QED
    BY <1>9, <2>1, <2>2 DEF MbrSet, job
<1>10. CASE GptRepair
  BY <1>10 DEF GptRepair, storage, job, GptActive, RomHalf, NotEnabled, raw, Halves
<1>11. CASE GptWrite("backup", "primary")
  <2>1. RomHalf' = RomHalf /\ ~NotEnabled
    BY <1>11 DEF GptWrite, GptInv, RomHalf, GptActive, NotEnabled, job
  <2>. QED
    BY <1>11, <2>1 DEF GptWrite, NotEnabled, job
<1>12. CASE GptWrite("primary", "done")
  <2>1. RomHalf' = target
    BY <1>12 DEF GptWrite, GptInv, RomHalf, GptActive, Halves, job
  <2>2. Holds(target, image)'
    BY <1>12 DEF GptWrite, job
  <2>. QED
    BY <1>12, <2>1, <2>2 DEF GptWrite, job
<1>13. CASE EmmcReadOnly
  BY <1>13 DEF EmmcReadOnly, storage, job
<1>14. CASE EmmcToggle
  <2>1. RomHalf' \in {target, RomHalf} /\ (RomHalf' = target => ~NotEnabled')
    BY <1>14 DEF EmmcToggle, RomHalf, NotEnabled, Halves, job
  <2>2. ~NotEnabled' /\ RomHalf' # target => ~NotEnabled
    BY <1>14 DEF EmmcToggle, NotEnabled, RomHalf
  <2>3. Holds(target, image)' /\ \A h \in Halves, i \in Images : Holds(h, i) => Holds(h, i)'
    BY <1>14 DEF EmmcToggle, job
  <2>. QED
    BY <1>14, <2>1, <2>2, <2>3 DEF EmmcToggle, job
<1>15. CASE EmmcCheck
  <2>1. NotEnabled \/ RomHalf = target
    BY <1>15 DEF EmmcCheck, RomHalf, NotEnabled
  <2>. QED
    BY <1>15, <2>1 DEF EmmcCheck, storage, job
<1>16. CASE Fail
  BY <1>16 DEF Fail, storage, job
<1>17. CASE Finish
  BY <1>17 DEF Finish, storage, job
<1>18. CASE PowerLoss
  BY <1>18 DEF PowerLoss, storage, job
<1>19. CASE \E b \in Blocks : WriteBack(b)
  BY <1>19 DEF WriteBack, storage, job
<1>20. CASE UNCHANGED vars
  BY <1>20 DEF vars, storage, job
<1>21. QED
  BY <1>1, <1>2, <1>3, <1>4, <1>5, <1>6, <1>7, <1>8, <1>9, <1>10, <1>11, <1>12, <1>13, <1>14, <1>15, <1>16, <1>17, <1>18, <1>19, <1>20 DEF Next

\* A raw area always has a complete half besides the one being written.
LEMMA RawStep ==
    InOrder /\ BootInv /\ [Next]_vars => RawInv'
<1>. SUFFICES ASSUME BootInv, [Next]_vars, raw, kind = "boot-raw-fallback",
                     seen = disk, kind \notin Cached
              PROVE  RawInv'
  BY KindStep DEF RawInv, raw, InOrder, BootInv
<1>. USE BlockFacts, ImagesAssumption DEF BootInv, BootTypeOK, RawInv, RawPcs, Holds
<1>1. CASE \E i \in Images : Begin(i)
  <2>1. PICK i \in Images : Begin(i)
    BY <1>1
  <2>2. \E j \in Images : Holds(Other(target'), j)
    BY <2>1 DEF Begin, Destination, Halves, Other
  <2>. QED
    BY <2>1, <2>2 DEF Begin
<1>2. CASE ClearHeader
  BY <1>2 DEF ClearHeader, Write, storage, job
<1>3. CASE ClearBody
  BY <1>3 DEF ClearBody, Write, storage, job
<1>4. CASE CopyBody
  BY <1>4 DEF CopyBody, Write, storage, job
<1>5. CASE SyncBody
  BY <1>5 DEF SyncBody, Fsync, storage, job
<1>6. CASE CopyHeader
  BY <1>6 DEF CopyHeader, Write, storage, job
<1>7. CASE SyncHalf
  BY <1>7 DEF SyncHalf, Fsync, storage, job
<1>8. CASE Sync
  BY <1>8 DEF Sync, Fsync, storage, job
<1>9. CASE MbrSet
  BY <1>9 DEF MbrSet, Write, storage, job
<1>10. CASE GptRepair
  BY <1>10 DEF GptRepair, storage, job
<1>11. CASE GptWrite("backup", "primary")
  BY <1>11 DEF GptWrite, storage, job
<1>12. CASE GptWrite("primary", "done")
  BY <1>12 DEF GptWrite, storage, job
<1>13. CASE EmmcReadOnly
  BY <1>13 DEF EmmcReadOnly, storage, job
<1>14. CASE EmmcToggle
  BY <1>14 DEF EmmcToggle, storage, job
<1>15. CASE EmmcCheck
  BY <1>15 DEF EmmcCheck, storage, job
<1>16. CASE Fail
  BY <1>16 DEF Fail, storage, job
<1>17. CASE Finish
  BY <1>17 DEF Finish, storage, job
<1>18. CASE PowerLoss
  BY <1>18 DEF PowerLoss, storage, job
<1>19. CASE \E b \in Blocks : WriteBack(b)
  BY <1>19 DEF WriteBack, storage, job
<1>20. CASE UNCHANGED vars
  BY <1>20 DEF vars, storage, job
<1>21. QED
  BY <1>1, <1>2, <1>3, <1>4, <1>5, <1>6, <1>7, <1>8, <1>9, <1>10, <1>11, <1>12, <1>13, <1>14, <1>15, <1>16, <1>17, <1>18, <1>19, <1>20 DEF Next

\* A bootloader area leaves the factory in a state of the invariant.
LEMMA InitInv == Init => BootInv
<1>. SUFFICES ASSUME Init PROVE BootInv
  OBVIOUS
<1>. PICK i \in Images, h \in Halves :
        /\ disk = [b \in Blocks |-> IF b = BootEntry THEN h ELSE i]
        /\ gpt = [copy \in {"primary", "backup"} |-> h]
        /\ bootPart \in {h, "none"}
        /\ target = h
        /\ image = i
  BY DEF Init
<1>. USE DEF Init
<1>1. BootTypeOK
  BY DEF BootTypeOK
<1>2. \A g \in Halves : Holds(g, i)
  BY BlockFacts DEF Holds
<1>3. SwitchInv
  <2>. SUFFICES ASSUME ~raw PROVE ~NotEnabled => RomHalf \in Halves
    BY <1>2 DEF SwitchInv
  <2>. QED
    BY BlockFacts, KindsAssumption DEF RomHalf, GptActive, raw, NotEnabled, Halves
<1>4. GptInv /\ EmmcInv
  BY DEF GptInv, EmmcInv
<1>5. RawInv
  BY <1>2 DEF RawInv, RawPcs
<1>. QED
  BY <1>1, <1>3, <1>4, <1>5 DEF BootInv

----------------------------------------------------------------------------
(* The theorems.                                                            *)

\* The type invariant, whatever the order of the writes.
THEOREM BootTypeCorrect == Spec => []BootTypeOK
<1>1. Init => BootTypeOK
  BY InitInv DEF BootInv
<1>2. QED
  BY <1>1, TypeStep, PTL DEF Spec

\* The inductive invariant.
THEOREM BootInvariance ==
    ASSUME InOrder
    PROVE  Spec => []BootInv
<1>1. BootInv /\ [Next]_vars => BootInv'
  BY TypeStep, OrderStep, SwitchStep, GptStep, EmmcStep, RawStep DEF BootInv
<1>2. QED
  BY <1>1, InitInv, PTL DEF Spec

\* Whatever is interrupted, and however often, the ROM has a bootloader to start
\* (update_handler.c:1999 to 2521).
THEOREM BootloaderSurvives ==
    ASSUME InOrder
    PROVE  Spec => []AlwaysBootable
<1>1. BootInv => AlwaysBootable
  <2>. SUFFICES ASSUME BootInv, ~NotEnabled
                PROVE  RomHalf \in Halves /\ \E i \in Images : Holds(RomHalf, i)
    BY DEF AlwaysBootable, Complete, Holds
  <2>1. CASE ~raw
    BY <2>1 DEF BootInv, SwitchInv
  <2>2. CASE raw
    <3>1. PICK h \in Halves, i \in Images : Holds(h, i)
      BY <2>2 DEF BootInv, RawInv
    <3>2. RomHalf = IF disk[Header("first")] = "blank" THEN "second" ELSE "first"
      BY <2>2 DEF RomHalf, raw
    <3>3. disk[Header("first")] = "blank" => h = "second"
      BY <3>1, ImagesAssumption DEF Holds, Halves
    <3>. QED
      BY <2>2, <3>1, <3>2, <3>3 DEF BootInv, RawInv, Halves
  <2>. QED
    BY <2>1, <2>2
<1>2. QED
  BY <1>1, BootInvariance, PTL

\* Success means that the new bootloader is on the device, and that it is the one that starts
\* (update_handler.c:2078, 2172, 2339 and 2497 to 2509), unless an eMMC was not enabled for
\* booting and still is not.
THEOREM InstalledIsBooted ==
    ASSUME InOrder
    PROVE  Spec => []InstalledBoots
<1>1. BootInv => InstalledBoots
  <2>. SUFFICES ASSUME BootInv, pc = "done"
                PROVE  /\ \A h \in IF raw THEN Halves ELSE {target} : Holds(h, image)
                       /\ raw \/ RomHalf = target \/ NotEnabled
    BY DEF InstalledBoots, Holds
  <2>. QED
    BY DEF BootInv, SwitchInv, RawInv
<1>2. QED
  BY <1>1, BootInvariance, PTL

\* The active eMMC partition is write-protected (update_handler.c:2303 to 2324).
THEOREM ActiveIsReadOnly ==
    ASSUME InOrder
    PROVE  Spec => []ActiveReadOnly
<1>1. BootInv => ActiveReadOnly
  BY DEF BootInv, EmmcInv, ActiveReadOnly
<1>2. QED
  BY <1>1, BootInvariance, PTL
=============================================================================
