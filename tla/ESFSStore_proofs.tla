-------------------------- MODULE ESFSStore_proofs --------------------------
(***************************************************************************)
(* ESFS implements FileStore: what file_delete, format and file_write do   *)
(* to the texts of the files, step by step, and that the steps in between, *)
(* which move blocks and inodes, do nothing to them.  With it,             *)
(* that the size on record covers the text of a file, and that a created   *)
(* file is there.                                                          *)
(***************************************************************************)
EXTENDS Machine_proofs, ESFSStore

-----------------------------------------------------------------------------
(* The other steps that move no file and no text.                          *)

LEMMA DiskNext == Context' => disk' \in [Drives -> Disk]
  BY DEF Context, IInv, TypeOK

(* A call saves its superblock.                                            *)
LEMMA StoreSaved ==
    ASSUME Context, FilesPacked, BlocksClean, pc \notin {"off", "shell"}, lab' \in DataArea,
           SaveSuperblock, MakesAlike
    PROVE  Steady
<1> DEFINE s == [sb EXCEPT !.last_allocated_block = lab']
<1>1. IsSuperblock(s)
  <2>1. sb = Geometry(Capacity, sb.last_allocated_block)
      BY CallFacts DEF IsSuperblock
  <2>2. s = Geometry(Capacity, lab') /\ s.last_allocated_block = lab'
      BY <2>1 DEF Geometry
  <2> QED
      BY <2>2 DEF IsSuperblock
<1>2. disk' = [disk EXCEPT ![drive] =
                  WriteSector(disk[drive], SuperblockBlock, SuperblockSector(s))]
    BY DEF SaveSuperblock, Write
<1> HIDE DEF s
<1> QED
    BY <1>1, <1>2, ContextFacts, SavedFiles

LEMMA StoreSave ==
    Context /\ FilesPacked /\ BlocksClean /\ (CreateSave \/ DeleteSave \/ WriteSave) => Steady
<1> SUFFICES ASSUME Context, FilesPacked, BlocksClean, CreateSave \/ DeleteSave \/ WriteSave
             PROVE  Steady
    OBVIOUS
<1>1. /\ pc \in {"created", "load", "written"} /\ pc' = "run" /\ SaveSuperblock
      /\ lab' = lab \/ (pc = "load" /\ fr.i = PtrsPerInode /\ lab' = fr.least)
    BY DEF CreateSave, DeleteSave, WriteSave, Return
<1>2. lab' \in DataArea
  <2>1. lab \in DataArea
      BY <1>1, CallFacts
  <2>2. pc = "load" => fr.least \in DataArea \union {0}
      BY DeletesFacts DEF Deletes
  <2>3. pc = "load" /\ fr.i = PtrsPerInode => fr.least # 0
    <3>1. PtrsPerInode # 0
        BY DiskAssumption
    <3> QED
        BY <3>1 DEF Context, Owned, InDelete
  <2> QED
      BY <1>1, <2>1, <2>2, <2>3
<1>3. MakesAlike /\ pc \notin {"off", "shell"}
    BY <1>1 DEF MakesAlike, Makes
<1> QED
    BY <1>1, <1>2, <1>3, StoreSaved

LEMMA StoreBoot == Context /\ FilesPacked /\ BlocksClean /\ Boot => Steady /\ pc' = "shell"
<1> SUFFICES ASSUME Context, FilesPacked, BlocksClean, Boot PROVE Steady /\ pc' = "shell"
    OBVIOUS
<1> DEFINE s   == SuperblockOf(disk[BootDrive])
           dk2 == WriteSector(disk[BootDrive], SuperblockBlock, SuperblockSector(s))
<1>1. /\ pc = "off" /\ pc' \in {"shell", "super"} /\ BootDrive \in Drives
      /\ disk[BootDrive] \in Disk /\ disk \in [Drives -> Disk]
    BY ContextFacts, ESFSAssumption DEF Boot
<1>2. IsSuperblock(s)
    BY <1>1 DEF Context, Owned, Geometries
<1>3. disk' = [disk EXCEPT ![BootDrive] = dk2]
    BY <1>2, InitFsInUse DEF Boot
<1>4. SuperblockOf(dk2) = s /\ s.magic = Magic
    BY <1>1, <1>2, SuperblockFacts, SuperblockWrite
<1> HIDE DEF s
<1>5. pc' = "shell"
  <2>1. disk'[BootDrive] = dk2
      BY <1>1, <1>3
  <2> QED
      BY <1>4, <2>1 DEF Boot, CheckDiskFs
<1>6. MakesAlike
    BY <1>1 DEF MakesAlike, Makes
<1>7. Steady
    BY <1>1, <1>2, <1>3, <1>6, SavedFiles
<1> QED
    BY <1>5, <1>7

LEMMA StoreFormat ==
    Context /\ FilesPacked /\ BlocksClean /\ (Format \/ FormatSuperblock) => Steady
<1> SUFFICES ASSUME Context, FilesPacked, BlocksClean, Format \/ FormatSuperblock PROVE Steady
    OBVIOUS
<1>1. /\ pc \in {"run", "super"} /\ pc' \in {"super", "inodes"} /\ drive \in Drives
    BY ContextFacts DEF Format, FormatSuperblock, Calling
<1>2. MakesAlike
    BY <1>1 DEF MakesAlike, Makes
<1>3. CASE Format
  <2> DEFINE s == SuperblockOf(disk[drive])
  <2>1. IsSuperblock(s)
      BY ContextFacts DEF Here
  <2>2. disk' = [disk EXCEPT ![drive] =
                    WriteSector(disk[drive], SuperblockBlock, SuperblockSector(s))]
      BY <1>3, <2>1, InitFsInUse DEF Format, Write
  <2> HIDE DEF s
  <2> QED
      BY <1>1, <1>2, <2>1, <2>2, SavedFiles
<1>4. CASE FormatSuperblock
  <2>1. pc = "super"
      BY <1>4 DEF FormatSuperblock
  <2>2. IsSuperblock(sb)
      BY <2>1, FormatFacts
  <2>3. disk' = [disk EXCEPT ![drive] =
                    WriteSector(disk[drive], SuperblockBlock, SuperblockSector(sb))]
      BY <1>4 DEF FormatSuperblock, Write
  <2> QED
      BY <1>1, <1>2, <2>2, <2>3, SavedFiles
<1> QED
    BY <1>3, <1>4

(* The steps that write no sector.                                         *)
Quiet == \/ Look \/ Exit \/ SelectDrive \/ Fetch \/ Retry
         \/ DeleteLoad \/ WriteCall \/ WritePointer \/ WriteNextPointer
         \/ \E j \in Commands : Execute(j)

LEMMA StoreQuiet ==
    Context /\ FilesPacked /\ BlocksClean /\ (Quiet \/ UNCHANGED vars) => Steady /\ SameFiles
<1> SUFFICES ASSUME Context, FilesPacked, BlocksClean, Quiet \/ UNCHANGED vars
             PROVE  Steady /\ SameFiles
    OBVIOUS
<1>1. CASE UNCHANGED vars
  <2>1. disk' = disk /\ MakesAlike
      BY <1>1 DEF vars, MakesAlike
  <2> QED
      BY <2>1, QuietFiles
<1>2. CASE Look
  <2>1. disk' = disk /\ MakesAlike
      BY <1>2 DEF Look, vars, MakesAlike
  <2> QED
      BY <2>1, QuietFiles
<1>3. CASE Exit \/ SelectDrive \/ Fetch \/ Retry \/ WriteCall
  <2>1. disk' = disk /\ pc = "run" /\ pc' \in {"shell", "run", "pointers"}
    <3>1. CASE Exit \/ SelectDrive
        BY <3>1 DEF Exit, SelectDrive, Calling, Return
    <3>2. CASE Fetch \/ Retry
        BY <3>2 DEF Fetch, Retry, Calling, Return
    <3>3. CASE WriteCall
      <4>1. Calling("write") /\ disk' = disk
            /\ \E info \in Lookup("write", job.name) : WriteNone(info) \/ WriteFound(info)
          BY <3>3, WriteCallParts
      <4> QED
          BY <4>1 DEF Calling, WriteNone, WriteFound, Return
    <3> QED
        BY <1>3, <3>1, <3>2, <3>3
  <2>2. MakesAlike
      BY <2>1 DEF MakesAlike, Makes
  <2> QED
      BY <2>1, <2>2, QuietFiles
<1>4. CASE DeleteLoad \/ WritePointer \/ WriteNextPointer
  <2>1. disk' = disk /\ pc \in {"load", "pointers", "blocks"}
        /\ pc' \in {"wipe", "size", "blocks", "pointers"}
      BY <1>4 DEF DeleteLoad, WritePointer, WriteNextPointer
  <2>2. MakesAlike
      BY <2>1 DEF MakesAlike, Makes
  <2> QED
      BY <2>1, <2>2, QuietFiles
<1>5. ASSUME NEW j \in Commands, Execute(j) PROVE Steady /\ SameFiles
  <2>1. disk' = disk /\ pc = "shell" /\ pc' = "run"
      BY <1>5 DEF Execute
  <2>2. MakesAlike
      BY <2>1 DEF MakesAlike, Makes
  <2> QED
      BY <2>1, <2>2, QuietFiles
<1> QED
    BY <1>1, <1>2, <1>3, <1>4, <1>5 DEF Quiet

WipeNothing == fr.rest = {} /\ pc' = "load" /\ UNCHANGED <<disk, fr>>
WipeBlock(c) ==
    /\ Write(fr.buf[c], ZeroSector) /\ pc' = pc
    /\ fr' = [fr EXCEPT !.rest = @ \ {c}, !.least = Least(@, fr.buf[c])]

LEMMA WipeParts ==
    ASSUME DeleteWipe
    PROVE  pc = "wipe" /\ drive' = drive /\ (WipeNothing \/ \E c \in fr.rest : WipeBlock(c))
  BY Zenon DEF DeleteWipe, WipeNothing, WipeBlock

LEMMA StoreWipe == Context /\ FilesPacked /\ BlocksClean /\ DeleteWipe => Steady
<1> SUFFICES ASSUME Context, FilesPacked, BlocksClean, DeleteWipe PROVE Steady
    OBVIOUS
<1>1. pc = "wipe" /\ drive' = drive
    BY WipeParts
<1>2. /\ IsGhost(stale) /\ fr.info.ptrs = stale.ptrs /\ WellFormed(Here, stale)
      /\ fr \in Frame /\ fr.rest \in SUBSET Cells
  <2>1. IsGhost(stale) /\ fr.info.ptrs = stale.ptrs /\ WellFormed(Here, stale)
      BY <1>1, DeletesFacts DEF Deletes
  <2> QED
      BY <2>1, ContextFacts DEF TypeOK, Frame
<1>3. pc' \in {"wipe", "load"} => MakesAlike
    BY <1>1 DEF MakesAlike, Makes
<1>4. CASE WipeNothing
  <2>1. pc' = "load" /\ disk' = disk
      BY <1>4 DEF WipeNothing
  <2> QED
      BY <1>3, <2>1, QuietFiles
<1>5. ASSUME NEW c \in fr.rest, WipeBlock(c) PROVE Steady
  <2> DEFINE b == fr.buf[c]
  <2>1. PICK i \in Pointers : fr.info.ptrs[i] # 0 /\ fr.buf = Here[fr.info.ptrs[i]]
      BY <1>1, <1>5 DEF Context, Owned, InDelete
  <2>2. b # 0
      BY <1>1, <1>5 DEF Context, IInv, PlacesSet
  <2>3. stale.ptrs[i] # 0 /\ b = ReadSector(Here, stale.ptrs[i])[c]
    <3>1. Claim(Here, stale, i, -1) \in DataArea \union {0}
        BY <1>2, PlaceFacts DEF WellFormed
    <3>2. stale.ptrs[i] \in Sectors
        BY <1>2, <2>1, <3>1, PointerClaimed, DataOutside
    <3> QED
        BY <1>2, <2>1, <3>2 DEF ReadSector
  <2>4. b \in DataArea /\ ~Held(b)
    <3>1. c \in Cells /\ Ghost(Here, Mine, job.name, stale)
        BY <1>2 DEF IsGhost
    <3> QED
        BY <2>2, <2>3, <3>1, GhostBlock DEF Held
  <2>5. ZeroSector \in Sector /\ Write(b, ZeroSector)
      BY <1>5 DEF WipeBlock, ZeroSector, Sector
  <2>6. pc' = "wipe"
      BY <1>1, <1>5 DEF WipeBlock
  <2> QED
      BY <1>1, <1>3, <2>4, <2>5, <2>6, UnclaimedFiles
<1> QED
    BY <1>4, <1>5, WipeParts

(* file_write stores the inode.                                            *)
LEMMA StoreUpdate ==
    ASSUME Context, Context', FilesPacked, BlocksClean, pc \in Writes, pc' \in Writes,
           NEW ino \in Inode, ino.valid = 1, ino.ptrs = fr.info.ptrs,
           disk' = [disk EXCEPT ![drive] = SetFileInfo(Here, job.name, ino)]
    PROVE  Steady /\ DataSame(Here, SetFileInfo(Here, job.name, ino))
<1> DEFINE dk2 == SetFileInfo(Here, job.name, ino)
<1>1. /\ Entries(dk2) = Mine /\ DataSame(Here, dk2)
      /\ \A q \in Mine : InodeAt(dk2, q).ptrs = InodeAt(Here, q).ptrs
    BY InodeUpdated
<1> HIDE DEF dk2
<1>2. disk' = [disk EXCEPT ![drive] = dk2]
    BY DEF dk2
<1>3. dk2 \in Disk /\ drive \in Drives
  <2>1. disk \in [Drives -> Disk] /\ drive \in Drives
      BY ContextFacts
  <2>2. disk'[drive] = dk2
      BY <1>2, <2>1
  <2> QED
      BY <2>1, <2>2, DiskNext
<1>4. Mine = Entries(Here) /\ Here = disk[drive]
    BY WritesFacts DEF Here
<1>5. pc \notin Makes /\ pc' \notin Makes
    BY DEF Writes, Makes
<1>6. SameInodes
    BY <1>1, <1>2, <1>3, <1>4, <1>5, SettledSame
<1>7. Steady
    BY <1>1, <1>2, <1>3, <1>6, TableFiles
<1> QED
    BY <1>1, <1>7 DEF dk2

LEMMA StoreFill == Context /\ Context' /\ FilesPacked /\ BlocksClean /\ WriteFill => Steady
<1> SUFFICES ASSUME Context, Context', FilesPacked, BlocksClean, WriteFill PROVE Steady
    OBVIOUS
<1> DEFINE n    == FillCount(Block, fr.i = 0 /\ fr.j = 0, fr.left)
           info == [fr.info EXCEPT !.size = (@ + n) % WordRange]
<1>1. /\ pc = "blocks" /\ pc' = "data" /\ fr.j < WordsPerSector /\ fr.buf[fr.j] # 0
      /\ disk' = [disk EXCEPT ![drive] = SetFileInfo(Here, job.name, info)]
    BY DEF WriteFill, AtBlock, Here
<1>2. /\ fr \in Frame /\ fr.info \in Inode /\ fr.info.valid = 1 /\ fr.j \in Cells
      /\ fr.left \in Int
    BY <1>1, WritesFacts, DiskAssumption DEF Writes, Frame, Cells
<1>3. info \in Inode /\ info.valid = 1 /\ info.ptrs = fr.info.ptrs
  <2>1. n \in Nat
    <3>1. Here \in Disk /\ fr.buf[fr.j] \in DataArea
        BY <1>1, <1>2, LoopFacts, ContextFacts
    <3>2. Block \in Sector
        BY <3>1, DataOutside DEF Block, ReadSector, Here, Disk
    <3> QED
        BY <1>2, <3>2, FillCountType
  <2>2. fr.info.size \in Nat
      BY <1>2 DEF Inode
  <2> HIDE DEF n
  <2>3. (fr.info.size + n) % WordRange \in Nat
      BY <2>1, <2>2, DiskAssumption
  <2> QED
      BY <1>2, <2>3 DEF Inode
<1> HIDE DEF n, info
<1>4. pc \in Writes /\ pc' \in Writes
    BY <1>1 DEF Writes
<1> QED
    BY <1>1, <1>3, <1>4, StoreUpdate

LEMMA StoreSize == Context /\ Context' /\ FilesPacked /\ BlocksClean /\ WriteSize => Steady
<1> SUFFICES ASSUME Context, Context', FilesPacked, BlocksClean, WriteSize PROVE Steady
    OBVIOUS
<1> DEFINE info == [fr.info EXCEPT !.size = (@ + fr.left) % WordRange]
<1>1. /\ pc = "size" /\ pc' = "written"
      /\ disk' = [disk EXCEPT ![drive] = SetFileInfo(Here, job.name, info)]
    BY DEF WriteSize, Here
<1>2. fr \in Frame /\ fr.info \in Inode /\ fr.info.valid = 1 /\ pc \in Writes /\ pc' \in Writes
    BY <1>1, WritesFacts DEF Writes
<1>3. info \in Inode /\ info.valid = 1 /\ info.ptrs = fr.info.ptrs
  <2>1. fr.info.size \in Nat /\ fr.left \in Int
      BY <1>2 DEF Inode, Frame
  <2>2. (fr.info.size + fr.left) % WordRange \in Nat
      BY <2>1, DiskAssumption
  <2> QED
      BY <1>2, <2>2 DEF Inode
<1> HIDE DEF info
<1> QED
    BY <1>1, <1>2, <1>3, StoreUpdate

-----------------------------------------------------------------------------
(* file_delete                                                             *)

(* The files of the drives after one has been removed.                     *)
RemovedFile ==
    /\ FileText(Here, job.name) # None /\ FileText(Here', job.name) = None
    /\ \A d \in Drives, n \in Names :
          d # drive \/ n # job.name => FileText(disk'[d], n) = FileText(disk[d], n)

LEMMA FileIsText ==
    ASSUME NEW dk \in Disk, NEW p \in Entries(dk), IsFile(dk, p)
    PROVE  Text(dk, InodeAt(dk, p)) \in Texts /\ Text(dk, InodeAt(dk, p)) # None
<1>1. PICK m, t : Holds(dk, InodeAt(dk, p), m, NameAt(dk, p), t)
    BY DEF IsFile
<1>2. Text(dk, InodeAt(dk, p)) = t
    BY <1>1, EntryInode, HeldText
<1>3. t \in Seq(Nat \ {0})
    BY <1>1 DEF Holds, Texts
<1>4. t # None
  <2> SUFFICES ASSUME t = None PROVE FALSE
      OBVIOUS
  <2>1. 1 \in 1 .. Len(t) /\ t[1] = 0
      BY DEF None
  <2>2. t[1] \in Nat \ {0}
      BY <1>3, <2>1, ElementOfSeq
  <2> QED
      BY <2>1, <2>2
<1> QED
    BY <1>2, <1>3, <1>4 DEF Texts, None

LEMMA StoreDeleteFile ==
    ASSUME Context, FilesPacked, BlocksClean, Seeable, Seeable', job.name \in Names,
           pc = "run", pc' = "load", drive' = drive, NEW p \in Mine,
           Matches(Here, job.name) = {p}, NameAt(Here, p) = job.name,
           disk' = [disk EXCEPT ![drive] = SetFileInfo(Here, job.name, NoInode)]
    PROVE  FilesPacked' /\ BlocksClean' /\ RemovedFile /\ FilesKept
<1> DEFINE dk2  == SetFileInfo(Here, job.name, NoInode)
           less == Entries(Here) \ {p}
<1>1. /\ Here \in Disk /\ Mine \in SUBSET Entries(Here) /\ Separate(Here, Mine)
      /\ drive \in Drives /\ disk \in [Drives -> Disk] /\ Here = disk[drive]
      /\ Mine = Settled(drive)
    BY ContextFacts DEF Here, Mine
<1>2. Mine = Entries(Here)
    BY DEF Mine, Settled, Here, Makes
<1>3. p \in Positions /\ IsInode(p) /\ InodeSector(p) <= TableEnd
    BY <1>1, EntryFacts
<1>4. NoInode \in Inode /\ NoInode.valid # 1
    BY NoInodeType DEF NoInode
<1>5. PutAt(Here, dk2, p, NoInode)
  <2>1. dk2 = WriteSector(Here, InodeSector(p), WithInode(Here[InodeSector(p)], p, NoInode))
      BY <1>1, <1>3, <1>4, UpdateOne
  <2> QED
      BY <1>1, <1>3, <1>4, <2>1, PutByWrite
<1> HIDE DEF dk2
<1>6. disk' = [disk EXCEPT ![drive] = dk2]
    BY DEF dk2
<1>7. disk'[drive] = dk2 /\ dk2 \in Disk /\ Here' = dk2
  <2>1. disk'[drive] = dk2
      BY <1>1, <1>6
  <2> QED
      BY <1>1, <2>1, DiskNext DEF Seeable, Here
<1>8. Entries(dk2) = less /\ \A q \in less : InodeAt(dk2, q) = InodeAt(Here, q)
  <2>1. InodeInTable(p)
      BY <1>3 DEF InodeInTable
  <2> QED
      BY <1>4, <1>5, <2>1, PutEntries
<1>9. DataSame(Here, dk2)
    BY <1>3, <1>5, PutData
<1>10. \A q \in less : /\ InodeAt(dk2, q).ptrs = InodeAt(Here, q).ptrs
                       /\ Untouched(Here, dk2, InodeAt(Here, q))
  <2>1. \A q \in less : WellFormed(Here, InodeAt(Here, q))
      BY <1>1, <1>2 DEF Separate
  <2> QED
      BY <1>8, <1>9, <2>1, DataUntouched
<1>11. AreFiles(Here, Mine)
    BY <1>1 DEF FilesPacked
<1>12. AreFiles(dk2, less) /\ TextSame(Here, dk2, less)
  <2>1. AreFiles(Here, less) /\ less \in SUBSET Entries(Here)
      BY <1>2, <1>11 DEF AreFiles
  <2> HIDE DEF less
  <2> QED
      BY <1>1, <1>7, <1>10, <2>1, FilesSame
<1>13. Clean(dk2)
    BY <1>1, <1>9, CleanData DEF BlocksClean
<1>14. \A d \in Drives : d # drive => disk'[d] = disk[d] /\ Settled(d)' = Settled(d)
  <2> SUFFICES ASSUME NEW d \in Drives, d # drive
               PROVE  disk'[d] = disk[d] /\ Settled(d)' = Settled(d)
      OBVIOUS
  <2>1. disk'[d] = disk[d]
      BY <1>1, <1>6
  <2> QED
      BY <2>1 DEF Settled
<1>15. \A d \in Drives : d = drive => Settled(d)' = less
    BY <1>7, <1>8 DEF Settled, Makes
<1>16. FilesPacked'
  <2> SUFFICES ASSUME NEW d \in Drives PROVE AreFiles(disk'[d], Settled(d)')
      BY DEF FilesPacked
  <2>1. CASE d = drive
      BY <1>7, <1>12, <1>15, <2>1
  <2>2. CASE d # drive
      BY <1>14, <2>2 DEF FilesPacked
  <2> QED
      BY <2>1, <2>2
<1>17. BlocksClean'
    BY <1>7, <1>13, <1>14 DEF BlocksClean
<1>18. View(Here, Mine)
    BY <1>1, SeesNow DEF Sees
<1>19. View(dk2, less)
  <2>1. \A d \in Drives : View(disk'[d], Settled(d)')
      BY SeesNext DEF Sees
  <2> QED
      BY <1>1, <1>7, <1>15, <2>1
<1>20. FileText(Here, job.name) # None
  <2>1. FileText(Here, job.name) = Text(Here, InodeAt(Here, p))
      BY <1>18 DEF View
  <2>2. IsFile(Here, p) /\ p \in Entries(Here)
      BY <1>2, <1>11 DEF AreFiles
  <2> QED
      BY <1>1, <2>1, <2>2, FileIsText
<1>21. FileText(dk2, job.name) = None
  <2>1. \A q \in less : NameAt(Here, q) # job.name
      BY <1>1, <1>2 DEF Separate, NamedOnce
  <2>2. NoneNamed(dk2, less, job.name)
      BY <1>12, <2>1 DEF NoneNamed, TextSame
  <2> QED
      BY <1>19, <2>2 DEF View
<1>22. ASSUME NEW d \in Drives, NEW n \in Names, d # drive \/ n # job.name
       PROVE  FileText(disk'[d], n) = FileText(disk[d], n)
  <2>1. CASE d # drive
      BY <1>14, <2>1
  <2>2. CASE d = drive
    <3>1. NameAt(Here, p) # n
        BY <1>22, <2>2
    <3>2. TextSame(dk2, Here, less)
        BY <1>12 DEF TextSame
    <3>3. View(Here, less \union {p})
      <4>1. Mine = less \union {p}
          BY <1>2
      <4> QED
          BY <1>18, <4>1
    <3> HIDE DEF less
    <3>4. FileText(Here, n) = FileText(dk2, n)
        BY <1>19, <3>1, <3>2, <3>3, ViewMade
    <3> QED
        BY <1>1, <1>7, <2>2, <3>4
  <2> QED
      BY <2>1, <2>2
<1>23. RemovedFile
    BY <1>7, <1>20, <1>21, <1>22 DEF RemovedFile
<1>24. FilesKept
  <2> SUFFICES ASSUME NEW d \in Drives, NEW q \in Settled(d)' PROVE FileSame(d, q)
      BY DEF FilesKept
  <2>1. CASE d # drive
      BY <1>14, <2>1 DEF FileSame
  <2>2. CASE d = drive
    <3>1. q \in less /\ q \in Mine
        BY <1>2, <1>15, <2>2
    <3>2. InodeAt(disk'[d], q) = InodeAt(disk[d], q)
        BY <1>1, <1>7, <1>8, <2>2, <3>1
    <3> QED
        BY <1>1, <1>7, <1>12, <2>2, <3>1, <3>2 DEF FileSame, TextSame
  <2> QED
      BY <2>1, <2>2
<1> QED
    BY <1>16, <1>17, <1>23, <1>24

LEMMA QuietKept == disk' = disk /\ SameInodes => FilesKept
  BY DEF SameInodes, FilesKept, FileSame

LEMMA StoreDelete ==
    ASSUME Context, FilesPacked, BlocksClean, Seeable, Seeable', job.name \in Names, Delete
    PROVE  FilesPacked' /\ BlocksClean' /\ (SameFiles \/ RemovedFile) /\ FilesKept
<1>1. Calling("delete") /\ drive' = drive /\ pc = "run"
    BY DeleteParts DEF Calling
<1>2. PICK info \in Lookup("delete", job.name) : DeleteNone(info) \/ DeleteFound(info)
    BY DeleteParts
<1>3. ASSUME disk' = disk, pc' \in {"run", "load"}
      PROVE  FilesPacked' /\ BlocksClean' /\ SameFiles /\ FilesKept
  <2>1. MakesAlike
      BY <1>1, <1>3 DEF MakesAlike, Makes
  <2> QED
      BY <1>3, <2>1, QuietFiles, QuietKept DEF Steady
<1>4. CASE DeleteNone(info)
    BY <1>1, <1>3, <1>4 DEF DeleteNone, Return
<1>5. CASE DeleteFound(info)
  <2>1. pc' = "load" /\ disk' = [disk EXCEPT ![drive] = SetFileInfo(Here, job.name, NoInode)]
      BY <1>5 DEF DeleteFound, Here
  <2>2. CASE Matches(Here, job.name) = {}
    <3>1. Here \in Disk /\ disk \in [Drives -> Disk] /\ drive \in Drives
        BY ContextFacts
    <3>2. SetFileInfo(Here, job.name, NoInode) = Here
        BY <2>2, <3>1, UpdateNone
    <3>3. disk' = disk
        BY <2>1, <3>1, <3>2 DEF Here
    <3> QED
        BY <1>3, <2>1, <3>3
  <2>3. CASE Matches(Here, job.name) # {}
    <3>1. PICK p \in Mine : Matches(Here, job.name) = {p} /\ NameAt(Here, p) = job.name
        BY <1>1, <2>3, LookupFacts
    <3> QED
        BY <1>1, <2>1, <3>1, StoreDeleteFile
  <2> QED
      BY <2>2, <2>3
<1> QED
    BY <1>2, <1>4, <1>5

-----------------------------------------------------------------------------
(* format                                                                  *)

(* While a drive is formatted its scan meets inodes of the table only.     *)
FormatsShown == pc \in Formats => Reached(Here, NullFiles) \subseteq Entries(Here)

LEMMA LookupSame ==
    ASSUME NEW dk, NEW dk2, NEW set, TextSame(dk, dk2, set),
           Reached(dk, NullFiles) \subseteq set, Reached(dk2, NullFiles) = Reached(dk, NullFiles),
           NEW n
    PROVE  FileText(dk2, n) = FileText(dk, n)
<1>1. Matches(dk2, n) = Matches(dk, n)
    BY DEF Matches, TextSame, NameAt
<1>2. Matches(dk, n) \in SUBSET Nat /\ Matches(dk, n) \subseteq set
    BY DEF Matches, Reached, LiveEntries, Positions
<1>3. Matches(dk, n) # {} => Min(Matches(dk, n)) \in set
    BY <1>2, MinProperties
<1> QED
    BY <1>1, <1>3 DEF FileText, TextSame

LEMMA SuperblockReached ==
    ASSUME NEW dk \in Disk, NEW data
    PROVE  /\ LiveEntries(WriteSector(dk, SuperblockBlock, data)) = LiveEntries(dk)
           /\ Reached(WriteSector(dk, SuperblockBlock, data), NullFiles) = Reached(dk, NullFiles)
<1> DEFINE dk2 == WriteSector(dk, SuperblockBlock, data)
<1>1. \A x \in Sectors : x # SuperblockBlock => dk2[x] = dk[x]
    BY WriteSectorElsewhere
<1> HIDE DEF dk2
<1>2. \A p \in Positions : ValidAt(dk2, p) = ValidAt(dk, p)
  <2> SUFFICES ASSUME NEW p \in Positions PROVE ValidAt(dk2, p) = ValidAt(dk, p)
      OBVIOUS
  <2>1. InodeSector(p) \in Sectors /\ InodeSector(p) # SuperblockBlock
    <3>1. InodeSector(p) \in Sectors /\ InodeSector(p) > SuperblockBlock
        BY PositionPlace
    <3> QED
        BY <3>1, DiskAssumption DEF Sectors
  <2> QED
      BY <1>1, <2>1 DEF ValidAt
<1>3. LiveEntries(dk2) = LiveEntries(dk)
    BY <1>2 DEF LiveEntries
<1>4. Reached(dk2, NullFiles) = Reached(dk, NullFiles)
    BY <1>3 DEF Reached
<1> QED
    BY <1>3, <1>4 DEF dk2

LEMMA StoreFormatSame ==
    ASSUME Context, Context', FilesPacked, BlocksClean, FormatsShown, Format \/ FormatSuperblock
    PROVE  SameFiles /\ FormatsShown'
<1>1. /\ pc \in {"run", "super"} /\ pc' \in {"super", "inodes"} /\ drive' = drive
      /\ \E data : Write(SuperblockBlock, data)
    BY DEF Format, FormatSuperblock, Calling
<1>2. /\ Here \in Disk /\ drive \in Drives /\ disk \in [Drives -> Disk]
      /\ Mine = Settled(drive) /\ Here = disk[drive] /\ Mine = Entries(Here)
    BY <1>1, ContextFacts DEF Here, Mine, Settled, Makes
<1>3. PICK data : Write(SuperblockBlock, data)
    BY <1>1
<1> DEFINE dk2 == WriteSector(Here, SuperblockBlock, data)
<1>4. Reached(dk2, NullFiles) = Reached(Here, NullFiles)
    BY <1>2, SuperblockReached
<1>5. disk' = [disk EXCEPT ![drive] = dk2]
    BY <1>3 DEF Write, Here
<1> HIDE DEF dk2
<1>6. disk'[drive] = dk2 /\ Here' = dk2
    BY <1>1, <1>2, <1>5 DEF Here
<1>7. Reached(Here, NullFiles) \subseteq Mine
    BY <1>1, <1>2 DEF FormatsShown, Formats, Context, EntriesShown
<1>8. Steady
    BY StoreFormat
<1>9. TextSame(Here, dk2, Mine)
    BY <1>2, <1>6, <1>8 DEF Steady, SameTexts
<1>10. SameFiles
  <2> SUFFICES ASSUME NEW d \in Drives, NEW n \in Names
               PROVE  FileText(disk'[d], n) = FileText(disk[d], n)
      BY DEF SameFiles
  <2>1. CASE d = drive
      BY <1>2, <1>4, <1>6, <1>7, <1>9, <2>1, LookupSame
  <2>2. CASE d # drive
      BY <1>2, <1>5, <2>2
  <2> QED
      BY <2>1, <2>2
<1>11. FormatsShown'
  <2>1. \A d \in Drives : d = drive => Settled(d)' = Settled(d)
      BY <1>8 DEF Steady, SameInodes
  <2>2. Entries(dk2) = Mine
      BY <1>1, <1>2, <1>6, <2>1 DEF Settled, Makes
  <2> QED
      BY <1>4, <1>6, <1>7, <2>2 DEF FormatsShown
<1> QED
    BY <1>10, <1>11

(* With the inodes of a sector gone a scan reaches no further.             *)
LEMMA MaxFewer ==
    ASSUME NEW S \in SUBSET Int, S # {}, NEW T \in SUBSET Int, S \subseteq T,
           NEW m \in Int, \A x \in T : x <= m
    PROVE  Max(S) \in S /\ Max(T) \in T /\ Max(S) <= Max(T)
  BY MaxProperties

LEMMA SectorStart ==
    ASSUME NEW p \in Nat, NEW q \in Nat
    PROVE  LET n == EntriesPerSector
           IN  /\ n \in Nat \ {0} /\ p \div n \in Nat /\ (p \div n) * n \in Nat
               /\ (p \div n) * n <= p
               /\ q <= p => q \div n <= p \div n
               /\ q \div n < p \div n => q < (p \div n) * n /\ (q \div n) * n <= (p \div n) * n
<1> DEFINE n == EntriesPerSector
           u == p \div n
           v == q \div n
<1>1. n \in Nat \ {0}
    BY InodeWordsType
<1>2. /\ u \in Nat /\ v \in Nat /\ p % n \in 0 .. n - 1 /\ q % n \in 0 .. n - 1
      /\ p = n * u + (p % n) /\ q = n * v + (q % n)
  <2> HIDE DEF n
  <2> QED
      BY <1>1, DivMod
<1> HIDE DEF u, v, n
<1>3. n * u = u * n /\ n * v = v * n /\ u * n \in Nat /\ v * n \in Nat
    BY <1>1, <1>2
<1>4. u * n <= p
    BY <1>2, <1>3
<1>5. v < u => q < u * n /\ v * n <= u * n
  <2> SUFFICES ASSUME v < u PROVE q < u * n /\ v * n <= u * n
      OBVIOUS
  <2>1. (v + 1) * n <= u * n
      BY <1>1, <1>2, ProductMonotone
  <2>2. (v + 1) * n = v * n + n
      BY <1>1, <1>2
  <2> QED
      BY <1>1, <1>2, <1>3, <2>1, <2>2
<1>6. q <= p => v <= u
  <2> SUFFICES ASSUME u < v PROVE p < q
      BY <1>2
  <2>1. n * u + (p % n) < n * v + (q % n)
      BY <1>1, <1>2, QuotientLess
  <2> QED
      BY <1>2, <2>1
<1> QED
    BY <1>1, <1>2, <1>3, <1>4, <1>5, <1>6 DEF n, u, v

LEMMA NullsMore ==
    ASSUME NEW live \in SUBSET Nat, NEW less \in SUBSET live, NEW p \in Nat, NEW q \in Nat,
           (p \div EntriesPerSector) * EntriesPerSector
               <= (q \div EntriesPerSector) * EntriesPerSector,
           \A x \in less : x < (q \div EntriesPerSector) * EntriesPerSector
                               => x < (p \div EntriesPerSector) * EntriesPerSector
    PROVE  NullsBefore(live, p) <= NullsBefore(less, q)
<1> DEFINE a == (p \div EntriesPerSector) * EntriesPerSector
           b == (q \div EntriesPerSector) * EntriesPerSector
           S == {x \in less : x < b} \union {-1}
           T == {x \in live : x < a} \union {-1}
<1>1. a \in Nat /\ b \in Nat
    BY SectorStart
<1>2. a <= b /\ \A x \in less : x < b => x < a
    OBVIOUS
<1>3. NullsBefore(live, p) = a - 1 - Max(T) /\ NullsBefore(less, q) = b - 1 - Max(S)
    BY DEF NullsBefore
<1> HIDE DEF a, b
<1>4. S \in SUBSET Int /\ T \in SUBSET Int /\ S # {} /\ S \subseteq T /\ \A x \in T : x <= a
  <2>1. \A x \in live : x \in Int
      OBVIOUS
  <2>2. -1 \in S
      OBVIOUS
  <2>3. S \subseteq T
      BY <1>2
  <2>4. ASSUME NEW x \in T PROVE x \in Int /\ x <= a
    <3>1. x = -1 \/ (x \in live /\ x < a)
        OBVIOUS
    <3> QED
        BY <1>1, <2>1, <3>1
  <2> HIDE DEF S, T
  <2> QED
      BY <2>2, <2>3, <2>4
<1> HIDE DEF S, T
<1>5. Max(S) \in S /\ Max(T) \in T /\ Max(S) <= Max(T)
  <2>1. a \in Int
      BY <1>1
  <2> QED
      BY <1>4, <2>1, MaxFewer
<1>6. Max(S) \in Int /\ Max(T) \in Int
    BY <1>4, <1>5
<1> QED
    BY <1>1, <1>2, <1>3, <1>5, <1>6

LEMMA ReachedShrinks ==
    ASSUME NEW dk, NEW dk2, NEW s, NEW limit \in Nat,
           LiveEntries(dk2) = {p \in LiveEntries(dk) : p \div EntriesPerSector # s}
    PROVE  Reached(dk2, limit) \subseteq Reached(dk, limit)
<1> DEFINE n    == EntriesPerSector
           live == LiveEntries(dk)
           less == LiveEntries(dk2)
<1>1. live \in SUBSET Nat /\ less = {p \in live : p \div n # s}
    BY PositionsNat DEF LiveEntries
<1> SUFFICES ASSUME NEW p \in Reached(dk2, limit) PROVE p \in Reached(dk, limit)
    OBVIOUS
<1>2. p \in less /\ \A r \in less : r \div n <= p \div n => NullsBefore(less, r) < limit
    BY DEF Reached
<1>3. ASSUME NEW q \in live, q \div n <= p \div n PROVE NullsBefore(live, q) < limit
  <2>1. q \in Nat /\ p \in Nat
      BY <1>1, <1>2
  <2>2. \E r \in less : /\ r \div n <= p \div n
                        /\ (q \div n) * n <= (r \div n) * n
                        /\ \A x \in less : x < (r \div n) * n => x < (q \div n) * n
    <3>1. CASE q \in less
      <4>1. (q \div n) * n \in Nat
          BY <2>1, SectorStart
      <4> QED
          BY <1>3, <3>1, <4>1
    <3>2. CASE q \notin less
      <4> DEFINE R == {r \in less : s < r \div n}
      <4>1. q \div n = s /\ s \in Nat /\ p \div n \in Nat /\ p \div n # s
          BY <1>1, <1>2, <2>1, <3>2, SectorStart
      <4>2. p \in R /\ R \in SUBSET Nat
          BY <1>1, <1>2, <1>3, <4>1
      <4>3. Min(R) \in R /\ \A r \in R : Min(R) <= r
          BY <4>2, MinProperties
      <4>4. Min(R) \in less /\ s < Min(R) \div n /\ Min(R) \in Nat /\ Min(R) <= p
          BY <4>2, <4>3
      <4>5. \A x \in less : x < Min(R) => ~(s < x \div n)
        <5> SUFFICES ASSUME NEW x \in less, x < Min(R), s < x \div n PROVE FALSE
            OBVIOUS
        <5>1. x \in R /\ x \in Nat
            BY <1>1
        <5> QED
            BY <4>3, <4>4, <5>1
      <4> HIDE DEF R
      <4> DEFINE r == Min(R)
      <4> HIDE DEF r
      <4>6. r \div n <= p \div n
          BY <2>1, <4>4, SectorStart DEF r
      <4>7. (q \div n) * n <= (r \div n) * n
          BY <2>1, <4>1, <4>4, SectorStart DEF r
      <4>8. ASSUME NEW x \in less, x < (r \div n) * n PROVE x < (q \div n) * n
        <5>1. x \in Nat /\ r \in Nat /\ x \div n # s
            BY <1>1, <4>4 DEF r
        <5>2. (r \div n) * n <= r /\ (r \div n) * n \in Nat /\ x \div n \in Nat
            BY <5>1, SectorStart
        <5>3. x < r
            BY <4>8, <5>1, <5>2
        <5>4. ~(s < x \div n)
            BY <4>5, <5>3 DEF r
        <5>5. x \div n < q \div n
            BY <4>1, <5>1, <5>2, <5>4
        <5> QED
            BY <2>1, <5>1, <5>5, SectorStart
      <4> QED
          BY <4>4, <4>6, <4>7, <4>8 DEF r
    <3> QED
        BY <3>1, <3>2
  <2>3. PICK r \in less : /\ r \div n <= p \div n
                          /\ (q \div n) * n <= (r \div n) * n
                          /\ \A x \in less : x < (r \div n) * n => x < (q \div n) * n
      BY <2>2
  <2>4. NullsBefore(less, r) < limit
      BY <1>2, <2>3
  <2>5. r \in Nat /\ less \in SUBSET live
      BY <1>1
  <2>6. NullsBefore(live, q) <= NullsBefore(less, r)
      BY <1>1, <2>1, <2>3, <2>5, NullsMore
  <2>7. NullsBefore(live, q) \in Int /\ NullsBefore(less, r) \in Int
      BY <1>1, <2>1, <2>5, NullsType
  <2> QED
      BY <2>4, <2>6, <2>7
<1>4. p \in live
    BY <1>1, <1>2
<1> QED
    BY <1>3, <1>4 DEF Reached
LEMMA SectorCleared ==
    ASSUME NEW dk \in Disk, NEW b \in Sectors
    PROVE  LiveEntries(WriteSector(dk, b, ZeroSector))
              = {p \in LiveEntries(dk) : p \div EntriesPerSector # b - SuperblockBlock - 1}
<1> DEFINE dk2 == WriteSector(dk, b, ZeroSector)
<1>1. dk2[b] = ZeroSector /\ \A x \in Sectors : x # b => dk2[x] = dk[x]
    BY ReadWritten, WriteSectorElsewhere
<1> HIDE DEF dk2
<1>2. ASSUME NEW p \in Positions, IsInode(p)
      PROVE  ValidAt(dk2, p) = 1 <=> ValidAt(dk, p) = 1 /\ p \div EntriesPerSector # b - SuperblockBlock - 1
  <2>1. InodeSector(p) \in Sectors /\ InodeSector(p) = SuperblockBlock + 1 + p \div EntriesPerSector
      BY PositionPlace DEF InodeSector
  <2>2. p \div EntriesPerSector \in Nat
      BY PositionPlace, SectorStart
  <2>3. p \div EntriesPerSector # b - SuperblockBlock - 1 <=> InodeSector(p) # b
      BY <2>1, <2>2, DiskAssumption DEF Sectors
  <2>4. InodeCell(p) \in Cells
    <3>1. 0 \in 0 .. InodeWords - 1 /\ InodeCell(p) \in Nat
        BY InodeWordsType, InodeCellType
    <3>2. InodeCell(p) + 0 \in Cells
        BY <1>2, <3>1, PositionPlace
    <3> QED
        BY <3>1, <3>2
  <2>5. InodeSector(p) = b => ValidAt(dk2, p) = 0
      BY <1>1, <2>4 DEF ValidAt, ZeroSector
  <2>6. InodeSector(p) # b => ValidAt(dk2, p) = ValidAt(dk, p)
      BY <1>1, <2>1 DEF ValidAt
  <2> QED
      BY <2>3, <2>5, <2>6
<1>3. LiveEntries(dk2) = {p \in LiveEntries(dk) : p \div EntriesPerSector # b - SuperblockBlock - 1}
    BY <1>2 DEF LiveEntries
<1> QED
    BY <1>3 DEF dk2

(* The files of the drives after a sector of the table has been cleared.   *)
SomeForgotten ==
    \A d \in Drives, n \in Names :
        /\ d # drive => FileText(disk'[d], n) = FileText(disk[d], n)
        /\ FileText(disk'[d], n) \in {FileText(disk[d], n), None}

LEMMA FewerFound ==
    ASSUME NEW dk, NEW dk2, Reached(dk, NullFiles) \subseteq Entries(dk),
           Reached(dk2, NullFiles) \subseteq Reached(dk, NullFiles) \cap Entries(dk2),
           NamedOnce(dk, Entries(dk)), TextSame(dk, dk2, Entries(dk2)), NEW n
    PROVE  FileText(dk2, n) \in {FileText(dk, n), None}
<1>1. CASE Matches(dk2, n) = {}
    BY <1>1 DEF FileText
<1>2. CASE Matches(dk2, n) # {}
  <2> DEFINE q == Min(Matches(dk2, n))
  <2>1. Matches(dk2, n) \in SUBSET Nat /\ Matches(dk, n) \in SUBSET Nat
      BY DEF Matches, Reached, LiveEntries, Positions
  <2>2. q \in Matches(dk2, n)
      BY <1>2, <2>1, MinProperties
  <2>3. FileText(dk2, n) = Text(dk2, InodeAt(dk2, q))
      BY <1>2 DEF FileText
  <2> HIDE DEF q
  <2>4. q \in Entries(dk2) /\ q \in Reached(dk, NullFiles) /\ NameAt(dk2, q) = n
      BY <2>2 DEF Matches, NameAt
  <2>5. NameAt(dk, q) = n /\ Text(dk2, InodeAt(dk2, q)) = Text(dk, InodeAt(dk, q))
      BY <2>4 DEF TextSame
  <2>6. q \in Matches(dk, n)
      BY <2>4, <2>5 DEF Matches, NameAt
  <2>7. \A r \in Matches(dk, n) : r = q
      BY <2>4, <2>5 DEF Matches, NamedOnce, NameAt
  <2>8. Min(Matches(dk, n)) = q
      BY <2>1, <2>6, <2>7, MinProperties
  <2>9. FileText(dk, n) = Text(dk, InodeAt(dk, q))
      BY <2>6, <2>8 DEF FileText
  <2> QED
      BY <2>3, <2>5, <2>9
<1> QED
    BY <1>1, <1>2

LEMMA StoreFormatInodes ==
    ASSUME Context, Context', FilesPacked, BlocksClean, FormatsShown, FormatInodes
    PROVE  /\ FilesPacked' /\ BlocksClean' /\ FormatsShown' /\ FilesKept
           /\ \/ pc' = "run" /\ SameFiles
              \/ pc' = "inodes" /\ SomeForgotten
<1>1. pc = "inodes" /\ UNCHANGED <<lab, drive, sb, stale, job>>
    BY DEF FormatInodes, env, program
<1>2. lab \in DataArea /\ Mine = Entries(Here) /\ IsSuperblock(sb)
    BY <1>1, FormatFacts
<1>3. /\ Here \in Disk /\ Separate(Here, Entries(Here)) /\ fr \in Frame
      /\ disk \in [Drives -> Disk] /\ drive \in Drives
      /\ Here = disk[drive] /\ Mine = Settled(drive)
    BY <1>2, ContextFacts DEF TypeOK, Here, Mine
<1>4. CASE fr.i <= sb.inode_blocks
  <2> DEFINE b    == InodeTableSector(fr.i)
             dk2  == WriteSector(Here, b, ZeroSector)
             left == Entries(dk2)
  <2>1. disk' = [disk EXCEPT ![drive] = dk2] /\ pc' = "inodes"
      BY <1>1, <1>4 DEF FormatInodes, Write, Here
  <2>2. fr.i \in Nat /\ fr.i # 0
      BY <1>1, <1>3 DEF Context, Owned, InFormat, Frame
  <2>3. InTable(b) /\ b \in Sectors
      BY <1>2, <1>4, <2>2, TablePlace
  <2>4. dk2 = WriteSector(Here, b, ZeroSector)
      OBVIOUS
  <2> HIDE DEF dk2, b
  <2>5. /\ left \subseteq Entries(Here) /\ DataSame(Here, dk2)
        /\ \A p \in left : InodeAt(dk2, p) = InodeAt(Here, p)
      BY <1>3, <2>3, <2>4, TableCleared
  <2>6. disk'[drive] = dk2 /\ dk2 \in Disk /\ Here' = dk2
    <3>1. disk'[drive] = dk2
        BY <1>3, <2>1
    <3> QED
        BY <1>1, <1>3, <3>1, DiskNext DEF Here
  <2>7. AreFiles(dk2, left) /\ TextSame(Here, dk2, left)
    <3>1. \A p \in left : WellFormed(Here, InodeAt(Here, p))
        BY <1>3, <2>5 DEF Separate
    <3>2. \A p \in left : /\ InodeAt(dk2, p).ptrs = InodeAt(Here, p).ptrs
                          /\ Untouched(Here, dk2, InodeAt(Here, p))
        BY <2>5, <3>1, DataUntouched
    <3>3. AreFiles(Here, left)
        BY <1>2, <1>3, <2>5 DEF FilesPacked, AreFiles
    <3> HIDE DEF left
    <3> QED
        BY <1>3, <2>5, <2>6, <3>2, <3>3, FilesSame
  <2>8. Clean(dk2)
      BY <1>3, <2>5, CleanData DEF BlocksClean
  <2>9. Reached(Here, NullFiles) \subseteq Entries(Here)
      BY <1>1 DEF FormatsShown, Formats
  <2>10. Reached(dk2, NullFiles) \subseteq Reached(Here, NullFiles) \cap left
    <3>1. LiveEntries(dk2) = {p \in LiveEntries(Here) :
                                 p \div EntriesPerSector # b - SuperblockBlock - 1}
        BY <1>3, <2>3, <2>4, SectorCleared
    <3>2. Reached(dk2, NullFiles) \subseteq Reached(Here, NullFiles)
        BY <3>1, DiskAssumption, ReachedShrinks
    <3>3. ASSUME NEW r \in Reached(dk2, NullFiles) PROVE r \in left
      <4>1. InodeSector(r) <= TableEnd
          BY <2>9, <3>2, EntryFacts
      <4> QED
          BY <4>1 DEF Entries, Reached
    <3> QED
        BY <3>2, <3>3
  <2>11. \A d \in Drives : d # drive => disk'[d] = disk[d] /\ Settled(d)' = Settled(d)
    <3> SUFFICES ASSUME NEW d \in Drives, d # drive
                 PROVE  disk'[d] = disk[d] /\ Settled(d)' = Settled(d)
        OBVIOUS
    <3>1. disk'[d] = disk[d]
        BY <1>3, <2>1
    <3> QED
        BY <1>1, <2>1, <3>1 DEF Settled, Makes
  <2>12. \A d \in Drives : d = drive => Settled(d)' = left
      BY <2>1, <2>6 DEF Settled, Makes
  <2>13. FilesPacked'
    <3> SUFFICES ASSUME NEW d \in Drives PROVE AreFiles(disk'[d], Settled(d)')
        BY DEF FilesPacked
    <3>1. CASE d = drive
        BY <2>6, <2>7, <2>12, <3>1
    <3>2. CASE d # drive
        BY <2>11, <3>2 DEF FilesPacked
    <3> QED
        BY <3>1, <3>2
  <2>14. BlocksClean'
      BY <2>6, <2>8, <2>11 DEF BlocksClean
  <2>15. FormatsShown'
      BY <2>6, <2>10 DEF FormatsShown
  <2>16. SomeForgotten
    <3> SUFFICES ASSUME NEW d \in Drives, NEW n \in Names
                 PROVE  /\ d # drive => FileText(disk'[d], n) = FileText(disk[d], n)
                        /\ FileText(disk'[d], n) \in {FileText(disk[d], n), None}
        BY DEF SomeForgotten
    <3>1. d # drive => FileText(disk'[d], n) = FileText(disk[d], n)
        BY <2>11
    <3>2. FileText(dk2, n) \in {FileText(Here, n), None}
      <4>1. NamedOnce(Here, Entries(Here))
          BY <1>3 DEF Separate
      <4> QED
          BY <2>7, <2>9, <2>10, <4>1, FewerFound
    <3> QED
        BY <1>3, <2>6, <3>1, <3>2
  <2>17. FilesKept
    <3> SUFFICES ASSUME NEW d \in Drives, NEW p \in Settled(d)' PROVE FileSame(d, p)
        BY DEF FilesKept
    <3>1. CASE d # drive
        BY <2>11, <3>1 DEF FileSame
    <3>2. CASE d = drive
      <4>1. p \in left /\ p \in Mine
          BY <1>2, <2>5, <2>12, <3>2
      <4>2. InodeAt(disk'[d], p) = InodeAt(disk[d], p)
          BY <1>3, <2>5, <2>6, <3>2, <4>1
      <4> QED
          BY <1>3, <2>6, <2>7, <3>2, <4>1, <4>2 DEF FileSame, TextSame
    <3> QED
        BY <3>1, <3>2
  <2> QED
      BY <2>1, <2>13, <2>14, <2>15, <2>16, <2>17
<1>5. CASE ~(fr.i <= sb.inode_blocks)
  <2>1. disk' = disk /\ pc' = "run"
      BY <1>5 DEF FormatInodes, Return
  <2>2. MakesAlike
      BY <1>1, <2>1 DEF MakesAlike, Makes
  <2>3. FormatsShown'
      BY <2>1 DEF FormatsShown, Formats
  <2> QED
      BY <2>1, <2>2, <2>3, QuietFiles, QuietKept DEF Steady
<1> QED
    BY <1>4, <1>5

-----------------------------------------------------------------------------
(* What file_write is given: text, and NULs behind it.                     *)

TextFront(s, l) == l \in 0 .. Len(s) /\ \A k \in 1 .. Len(s) : s[k] = 0 <=> k > l

PayloadText == (\E l \in Nat : TextFront(payload, l)) /\ Len(payload) = Max({wsize, 0})

(* A command that runs is one of those the user may type.                  *)
JobKnown == pc \notin {"off", "shell"} => job \in Commands

(* The user types no NUL into an editor.                                   *)
TypedText == \A j \in Commands : j.add \in Texts

LEMMA FrontText ==
    ASSUME NEW s \in Seq(Nat), NEW l, TextFront(s, l)
    PROVE  /\ WithoutNuls(s) \in Texts /\ Len(WithoutNuls(s)) = l /\ l \in Nat /\ l <= Len(s)
           /\ \A k \in 1 .. l : WithoutNuls(s)[k] = s[k]
<1>1. Len(s) \in Nat /\ DOMAIN s = 1 .. Len(s)
    BY LenProperties
<1>2. l \in 0 .. Len(s) /\ \A k \in 1 .. Len(s) : s[k] = 0 <=> k > l
    BY DEF TextFront
<1>3. WithoutNuls(s) = [k \in 1 .. l |-> s[k]]
    BY <1>1, <1>2, FrontKept
<1>4. [k \in 1 .. l |-> s[k]] \in Seq(Nat \ {0})
  <2>1. \A k \in 1 .. l : s[k] \in Nat \ {0}
    <3> SUFFICES ASSUME NEW k \in 1 .. l PROVE s[k] \in Nat \ {0}
        OBVIOUS
    <3>1. k \in 1 .. Len(s) /\ ~(k > l)
        BY <1>1, <1>2
    <3> QED
        BY <1>2, <3>1, ElementOfSeq
  <2> QED
      BY <1>2, <2>1
<1> QED
    BY <1>1, <1>2, <1>3, <1>4 DEF Texts

LEMMA TextIsFront ==
    ASSUME NEW s \in Texts
    PROVE  s \in Seq(Nat) /\ TextFront(s, Len(s))
<1>1. s \in Seq(Nat \ {0}) /\ Len(s) \in Nat
    BY LenProperties DEF Texts
<1>2. \A k \in 1 .. Len(s) : s[k] \in Nat \ {0}
    BY <1>1, ElementOfSeq
<1> QED
    BY <1>1, <1>2 DEF TextFront

LEMMA BufferFront ==
    ASSUME NEW s \in Seq(Nat), NEW l, TextFront(s, l), NEW n \in Int
    PROVE  /\ \E m \in Nat : TextFront(Buffer(s, n), m)
           /\ Len(Buffer(s, n)) = Max({n, 0})
<1> DEFINE size == Max({n, 0})
<1>1. size \in Nat
    BY MaxOfTwo
<1>2. Len(s) \in Nat /\ l \in 0 .. Len(s) /\ \A k \in 1 .. Len(s) : s[k] = 0 <=> k > l
    BY LenProperties DEF TextFront
<1>3. Buffer(s, n) = [k \in 1 .. size |-> IF k <= Len(s) THEN s[k] ELSE 0]
    BY DEF Buffer
<1> HIDE DEF size
<1>4. Len(Buffer(s, n)) = size
    BY <1>1, <1>3
<1>5. PICK m \in Nat : m = IF l <= size THEN l ELSE size
    BY <1>1, <1>2
<1>6. \A k \in 1 .. size : Buffer(s, n)[k] = 0 <=> k > m
  <2> SUFFICES ASSUME NEW k \in 1 .. size PROVE Buffer(s, n)[k] = 0 <=> k > m
      OBVIOUS
  <2>1. k > m <=> k > l
      BY <1>1, <1>2, <1>5
  <2>2. CASE k <= Len(s)
    <3>1. k \in 1 .. Len(s) /\ Buffer(s, n)[k] = s[k]
        BY <1>1, <1>2, <1>3, <2>2
    <3> QED
        BY <1>2, <2>1, <3>1
  <2>3. CASE ~(k <= Len(s))
      BY <1>1, <1>2, <1>3, <2>1, <2>3
  <2> QED
      BY <2>2, <2>3
<1>7. TextFront(Buffer(s, n), m)
    BY <1>1, <1>2, <1>4, <1>5, <1>6 DEF TextFront
<1> QED
    BY <1>4, <1>7 DEF size

LEMMA SubFront ==
    ASSUME NEW s \in Seq(Nat), NEW l, TextFront(s, l), NEW n \in Nat, n <= Len(s)
    PROVE  SubSeq(s, 1, n) \in Seq(Nat) /\ \E m : TextFront(SubSeq(s, 1, n), m)
<1>1. Len(s) \in Nat /\ l \in 0 .. Len(s) /\ \A k \in 1 .. Len(s) : s[k] = 0 <=> k > l
    BY LenProperties DEF TextFront
<1>2. SubSeq(s, 1, n) \in Seq(Nat) /\ Len(SubSeq(s, 1, n)) = n
    BY FrontType
<1>3. \A k \in 1 .. n : SubSeq(s, 1, n)[k] = s[k]
    BY <1>1
<1>4. PICK m \in Nat : m = IF l <= n THEN l ELSE n
    BY <1>1
<1>5. TextFront(SubSeq(s, 1, n), m)
    BY <1>1, <1>2, <1>3, <1>4 DEF TextFront
<1> QED
    BY <1>2, <1>5

LEMMA UpToNulText ==
    ASSUME NEW s \in Seq(Nat)
    PROVE  UpToNul(s) \in Texts
<1> DEFINE nuls == {k \in 1 .. Len(s) : s[k] = 0} \union {Len(s) + 1}
<1>1. Len(s) \in Nat
    BY LenProperties
<1>2. nuls \in SUBSET Nat /\ nuls # {} /\ \A k \in nuls : k >= 1 /\ k <= Len(s) + 1
    BY <1>1
<1>3. Min(nuls) \in nuls /\ \A x \in nuls : Min(nuls) <= x
    BY <1>2, MinProperties
<1>4. PICK n \in Nat : n = Min(nuls) - 1 /\ n <= Len(s)
  <2>1. Min(nuls) \in Nat /\ Min(nuls) >= 1 /\ Min(nuls) <= Len(s) + 1
      BY <1>2, <1>3
  <2> HIDE DEF nuls
  <2> QED
      BY <1>1, <2>1
<1>5. \A k \in 1 .. n : s[k] # 0
  <2> SUFFICES ASSUME NEW k \in 1 .. n, s[k] = 0 PROVE FALSE
      OBVIOUS
  <2>1. k \in nuls
      BY <1>1, <1>4
  <2> QED
      BY <1>2, <1>3, <1>4, <2>1
<1>6. UpToNul(s) = SubSeq(s, 1, n)
    BY <1>4 DEF UpToNul
<1> HIDE DEF nuls
<1>7. \A k \in 1 .. n : s[k] \in Nat \ {0}
  <2>1. \A k \in 1 .. n : k \in 1 .. Len(s)
      BY <1>1, <1>4
  <2> QED
      BY <1>5, <2>1, ElementOfSeq
<1>8. SubSeq(s, 1, n) = [k \in 1 .. n |-> s[k]]
    BY <1>1, <1>4
<1> QED
    BY <1>6, <1>7, <1>8 DEF Texts

LEMMA NoBody ==
    ASSUME NEW dk
    PROVE  Body(dk, NoInode) = <<>>
<1> DEFINE n == PtrsPerInode * WordsPerSector
           s == [k \in 1 .. n |-> PointerWord(dk, NoInode, k - 1)]
<1>1. WordsPerSector \in Nat \ {0} /\ PtrsPerInode \in Nat \ {0} /\ n \in Nat
    BY DiskAssumption
<1>2. \A k \in 1 .. n : s[k] = 0
  <2> SUFFICES ASSUME NEW k \in 1 .. n PROVE s[k] = 0
      OBVIOUS
  <2>1. k - 1 \in Nat /\ k - 1 <= PtrsPerInode * WordsPerSector - 1
      BY <1>1
  <2>2. (k - 1) \div WordsPerSector \in 0 .. PtrsPerInode - 1
    <3>1. (k - 1) \div WordsPerSector \in Nat
        BY <1>1, <2>1, DivMod
    <3>2. \A x \in Nat : x <= PtrsPerInode * WordsPerSector - 1
                            => x \div WordsPerSector <= PtrsPerInode - 1
      <4>1. PtrsPerInode \in Int
          BY <1>1
      <4> QED
          BY <1>1, <4>1, DivBound
    <3> HIDE DEF n
    <3>3. (k - 1) \div WordsPerSector <= PtrsPerInode - 1
        BY <2>1, <3>2
    <3> QED
        BY <1>1, <3>1, <3>3
  <2>3. NoInode.ptrs[(k - 1) \div WordsPerSector] = 0
      BY <2>2 DEF NoInode
  <2> QED
      BY <2>3 DEF PointerWord
<1>3. DOMAIN s = 1 .. n
    OBVIOUS
<1>4. DataWords(dk, NoInode) = WithoutNuls(s)
    BY DEF DataWords
<1> HIDE DEF s, n
<1>5. DataWords(dk, NoInode) = [k \in 1 .. 0 |-> s[k]]
  <2>1. \A k \in 1 .. n : s[k] = 0 <=> k > 0
      BY <1>1, <1>2
  <2> QED
      BY <1>1, <1>3, <1>4, <2>1, FrontKept
<1>6. Len(DataWords(dk, NoInode)) = 0
    BY <1>5
<1>7. Len(Stream(dk, NoInode)) = 0
  <2> DEFINE f(x) == ReadSector(dk, DataWords(dk, NoInode)[(x - 1) \div WordsPerSector + 1])
                         [(x - 1) % WordsPerSector]
  <2>1. Stream(dk, NoInode) = [x \in 1 .. 0 * WordsPerSector |-> f(x)]
      BY <1>6 DEF Stream
  <2> HIDE DEF f
  <2>2. 0 * WordsPerSector = 0
      BY <1>1
  <2> QED
      BY <2>1, <2>2
<1>8. {k \in 1 .. Len(Stream(dk, NoInode)) : Stream(dk, NoInode)[k] = 0} = {}
    BY <1>7
<1> QED
    BY <1>8 DEF Body

LEMMA ReadBodyFront ==
    ASSUME NEW dk \in Disk, NEW ino, \E l : TextFront(Body(dk, ino), l), NEW sectors \in Int
    PROVE  /\ ReadBody(dk, ino, sectors) \in Seq(Nat)
           /\ \E l : TextFront(ReadBody(dk, ino, sectors), l)
<1> DEFINE room == sectors * WordsPerSector - Len(NameOf(dk, ino))
           n    == Min({Len(Body(dk, ino)), Max({room, 0})})
<1>1. Body(dk, ino) \in Seq(Nat) /\ Len(Body(dk, ino)) \in Nat
    BY BodyType, LenProperties
<1>2. room \in Int
  <2>1. NameOf(dk, ino) \in Seq(Nat)
      BY ReadSectorType, PrefixType DEF NameOf
  <2> QED
      BY <2>1, LenProperties, DiskAssumption
<1>3. ReadBody(dk, ino, sectors) = SubSeq(Body(dk, ino), 1, n)
    BY DEF ReadBody
<1> HIDE DEF room
<1>4. n \in Nat /\ n <= Len(Body(dk, ino))
  <2>1. Max({room, 0}) \in Nat
      BY <1>2, MaxOfTwo
  <2>2. n = IF Len(Body(dk, ino)) <= Max({room, 0}) THEN Len(Body(dk, ino)) ELSE Max({room, 0})
    <3>1. Len(Body(dk, ino)) \in Int /\ Max({room, 0}) \in Int
        BY <1>1, <2>1
    <3> QED
        BY <3>1, MinOfTwo
  <2> HIDE DEF n
  <2> QED
      BY <1>1, <2>1, <2>2
<1> HIDE DEF n
<1> QED
    BY <1>1, <1>3, <1>4, SubFront

LEMMA EditorText ==
    ASSUME TypeOK, NEW j \in Jobs, j.add \in Texts
    PROVE  Editor(j).text \in Texts /\ Editor(j).size \in Int
<1> DEFINE info  == ProgramLookup(selected, j.name)
           bytes == Signed(info.size)
           body  == ReadBody(disk[selected], info, SectorsToRead(bytes))
           text  == UpToNul(body)
           cut   == Min({j.cut, Len(text)})
<1>1. info \in Inode /\ disk[selected] \in Disk
    BY ProgramLookupType DEF TypeOK
<1>2. bytes \in Int
    BY <1>1, SignedType DEF Inode
<1>3. text \in Seq(Nat \ {0}) /\ Len(text) \in Nat
  <2>1. body \in Seq(Nat)
      BY <1>1, <1>2, SectorsToReadType, ReadBodyType
  <2> HIDE DEF body
  <2>2. text \in Texts
      BY <2>1, UpToNulText
  <2> QED
      BY <2>2, LenProperties DEF Texts
<1>4. j.cut \in Nat /\ j.add \in Seq(Nat \ {0})
    BY DEF Jobs, Texts
<1> HIDE DEF text
<1>5. cut \in Nat /\ cut <= Len(text)
    BY <1>3, <1>4, MinOfTwo
<1> HIDE DEF cut
<1>6. SubSeq(text, cut + 1, Len(text)) \in Seq(Nat \ {0})
  <2>1. cut + 1 \in 1 .. Len(text) + 1 /\ Len(text) \in (cut + 1) - 1 .. Len(text)
      BY <1>3, <1>5
  <2> QED
      BY <1>3, <2>1, SubSeqProperties
<1>7. SubSeq(text, cut + 1, Len(text)) \o j.add \in Texts
    BY <1>4, <1>6, ConcatProperties DEF Texts
<1>8. Editor(j).text = SubSeq(text, cut + 1, Len(text)) \o j.add
    BY DEF Editor, text, cut
<1> QED
    BY <1>7, <1>8, EditorType

LEMMA ExecutePayload ==
    ASSUME NEW j \in Commands, TypeOK, TypedText, Execute(j)
    PROVE  PayloadText' /\ JobKnown'
<1>1. job' = j
    BY DEF Execute
<1>2. CASE j.prog \in {"edit", "hexedit"}
  <2>1. wsize' = Editor(j).size /\ payload' = Buffer(Editor(j).text, Editor(j).size)
      BY <1>2 DEF Execute
  <2>2. Editor(j).text \in Texts /\ Editor(j).size \in Int
      BY EditorText, ESFSAssumption DEF TypedText
  <2>3. Editor(j).text \in Seq(Nat) /\ TextFront(Editor(j).text, Len(Editor(j).text))
      BY <2>2, TextIsFront
  <2> QED
      BY <1>1, <2>1, <2>2, <2>3, BufferFront DEF PayloadText, JobKnown
<1>3. CASE j.prog \notin {"edit", "hexedit"}
  <2>1. wsize' = 0 /\ payload' = <<>>
      BY <1>3 DEF Execute
  <2>2. TextFront(<<>>, 0) /\ Max({0, 0}) = 0
      BY MaxOfTwo DEF TextFront
  <2> QED
      BY <1>1, <2>1, <2>2 DEF PayloadText, JobKnown
<1> QED
    BY <1>2, <1>3

(* A file that is fetched is text.                                         *)
LEMMA FoundBody ==
    ASSUME Context, FilesPacked, pc = "run", NEW d \in Drives, NEW name
    PROVE  \E l : TextFront(Body(disk[d], ProgramLookup(d, name)), l)
<1> DEFINE found == Matches(disk[d], name)
<1>1. disk[d] \in Disk /\ Settled(d) = Entries(disk[d])
    BY ContextSettled DEF Settled, Makes
<1>2. CASE found = {}
  <2>1. Body(disk[d], ProgramLookup(d, name)) = <<>>
      BY <1>2, NoBody DEF ProgramLookup
  <2>2. TextFront(<<>>, 0)
      BY DEF TextFront
  <2> QED
      BY <2>1, <2>2
<1>3. CASE found # {}
  <2> DEFINE p == Min(found)
  <2>1. p \in found
    <3>1. found \in SUBSET Nat
        BY MatchesPlace, PositionsNat
    <3> HIDE DEF found
    <3> QED
        BY <1>3, <3>1, MinProperties
  <2>2. found \subseteq Entries(disk[d])
    <3>1. Reached(disk[d], NullFiles) \subseteq Entries(disk[d])
        BY DEF Context, EntriesShown, Formats
    <3> QED
        BY <3>1 DEF Matches
  <2>3. ProgramLookup(d, name) = InodeAt(disk[d], p)
      BY <1>3 DEF ProgramLookup
  <2> HIDE DEF found, p
  <2>4. p \in Entries(disk[d])
      BY <2>1, <2>2
  <2>5. IsFile(disk[d], p) /\ InodeAt(disk[d], p) \in Inode
      BY <1>1, <2>4, EntryInode DEF FilesPacked, AreFiles
  <2> DEFINE ino == InodeAt(disk[d], p)
             body == Body(disk[d], ino)
  <2>6. PICK m, n, t : Holds(disk[d], ino, m, n, t)
      BY <2>5 DEF IsFile
  <2> DEFINE l == m * WordsPerSector - (Len(n) + 1)
  <2>7. /\ Len(body) = l /\ body \in Seq(Nat)
        /\ \A x \in 1 .. l : body[x] = IF x <= Len(t) THEN t[x] ELSE 0
    <3> HIDE DEF ino
    <3>1. ino \in Inode
        BY <2>5 DEF ino
    <3> QED
        BY <1>1, <2>6, <3>1, HeldBody
  <2>8. t \in Texts /\ Len(t) \in Nat /\ Len(t) <= l /\ l \in Int
    <3>1. /\ t \in Texts /\ n \in Seq(Nat) /\ Len(n) + 1 + Len(t) <= m * WordsPerSector
          /\ m \in 1 .. WordsPerSector
        BY <2>6 DEF Holds, Shape
    <3>2. Len(t) \in Nat /\ Len(n) \in Nat
        BY <3>1, LenProperties DEF Texts
    <3>3. m * WordsPerSector \in Int
        BY <3>1, DiskAssumption
    <3> QED
        BY <3>1, <3>2, <3>3
  <2> HIDE DEF l, body
  <2>9. \A x \in 1 .. l : body[x] = 0 <=> x > Len(t)
    <3> SUFFICES ASSUME NEW x \in 1 .. l PROVE body[x] = 0 <=> x > Len(t)
        OBVIOUS
    <3>1. CASE x <= Len(t)
      <4>1. t[x] \in Nat \ {0}
          BY <2>8, <3>1, ElementOfSeq DEF Texts
      <4> QED
          BY <2>7, <2>8, <3>1, <4>1
    <3>2. CASE ~(x <= Len(t))
        BY <2>7, <2>8, <3>2
    <3> QED
        BY <3>1, <3>2
  <2>10. TextFront(body, Len(t))
      BY <2>7, <2>8, <2>9 DEF TextFront
  <2> QED
      BY <2>3, <2>10 DEF body
<1> QED
    BY <1>2, <1>3

LEMMA FetchPayload ==
    ASSUME Context, FilesPacked, Fetch
    PROVE  PayloadText' /\ UNCHANGED job
<1> DEFINE info  == ProgramLookup(job.srcdrv, job.src)
           bytes == Signed(info.size)
           size  == bytes - (Len(job.src) + 1)
           body  == ReadBody(disk[job.srcdrv], info, SectorsToRead(bytes))
<1>1. wsize' = size /\ payload' = Buffer(body, size) /\ pc = "run" /\ job' = job
    BY DEF Fetch, Calling
<1>2. TypeOK /\ job \in Jobs /\ job.srcdrv \in Drives
    BY ContextFacts, JobType
<1>3. disk[job.srcdrv] \in Disk /\ info \in Inode
    BY <1>2, ProgramLookupType DEF TypeOK
<1>4. \E l : TextFront(Body(disk[job.srcdrv], info), l)
    BY <1>1, <1>2, FoundBody
<1> HIDE DEF info
<1>5. bytes \in Int
    BY <1>3, SignedType DEF Inode
<1> HIDE DEF bytes
<1>6. size \in Int
  <2>1. Len(job.src) \in Nat
      BY <1>2, LenProperties DEF Jobs
  <2> QED
      BY <1>5, <2>1
<1>7. body \in Seq(Nat) /\ \E l : TextFront(body, l)
    BY <1>3, <1>4, <1>5, SectorsToReadType, ReadBodyFront
<1> HIDE DEF size, body
<1>8. /\ \E l \in Nat : TextFront(Buffer(body, size), l)
      /\ Len(Buffer(body, size)) = Max({size, 0})
    BY <1>6, <1>7, BufferFront
<1> QED
    BY <1>1, <1>8 DEF PayloadText

LEMMA PayloadNext ==
    Context /\ FilesPacked /\ BlocksClean /\ TypedText /\ PayloadText /\ JobKnown
        /\ [Next /\ Spared]_vars => PayloadText' /\ JobKnown'
<1> SUFFICES ASSUME Context, FilesPacked, BlocksClean, TypedText, PayloadText, JobKnown,
                    [Next /\ Spared]_vars
             PROVE  PayloadText' /\ JobKnown'
    OBVIOUS
<1>1. ASSUME UNCHANGED program, pc' \in {"off", "shell"} \/ pc \notin {"off", "shell"} \/ pc' = pc
      PROVE  PayloadText' /\ JobKnown'
    BY <1>1 DEF PayloadText, JobKnown, TextFront, program
<1>2. CASE UNCHANGED vars
    BY <1>1, <1>2 DEF vars, program
<1>3. CASE Next /\ Spared
  <2>1. CASE Boot
    <3>1. pc' = "shell"
        BY <2>1, StoreBoot
    <3> QED
        BY <1>1, <2>1, <3>1 DEF Boot
  <2>2. CASE Exit
    <3>1. pc' = "shell" /\ wsize' = 0 /\ payload' = <<>>
        BY <2>2 DEF Exit
    <3>2. TextFront(<<>>, 0) /\ Max({0, 0}) = 0
        BY MaxOfTwo DEF TextFront
    <3> QED
        BY <3>1, <3>2 DEF PayloadText, JobKnown
  <2>3. CASE Fetch
    <3>1. pc = "run"
        BY <2>3 DEF Fetch, Calling
    <3> QED
        BY <2>3, <3>1, FetchPayload DEF JobKnown
  <2>4. CASE \E j \in Commands : Execute(j)
      BY <2>4, ExecutePayload, ContextFacts
  <2>5. CASE Look
      BY <1>2, <2>5 DEF Look
  <2>6. CASE Crash
      BY <1>3, <2>6, NoCrash
  <2>7. CASE SelectDrive \/ Retry
    <3>1. UNCHANGED program /\ pc = "run"
        BY <2>7 DEF SelectDrive, Retry, Calling
    <3> QED
        BY <1>1, <3>1
  <2>8. CASE FileCreate
    <3>1. UNCHANGED program /\ pc \notin {"off", "shell"}
        BY <2>8 DEF FileCreate, Create, CreateImage, CreateZero, CreatePointer, CreateName,
                    CreateSave, Calling
    <3> QED
        BY <1>1, <3>1
  <2>9. CASE FileDelete
    <3>1. UNCHANGED program /\ pc \notin {"off", "shell"}
      <4>1. ASSUME Delete PROVE UNCHANGED program /\ pc = "run"
          BY <4>1, DeleteParts, Zenon DEF Calling
      <4>2. ASSUME DeleteWipe PROVE UNCHANGED program /\ pc = "wipe"
          BY <4>2, Zenon DEF DeleteWipe
      <4> QED
          BY <2>9, <4>1, <4>2 DEF FileDelete, DeleteLoad, DeleteSave
    <3> QED
        BY <1>1, <3>1
  <2>10. CASE FileWrite
    <3>1. UNCHANGED program /\ pc \notin {"off", "shell"}
        BY <2>10 DEF FileWrite, WriteCall, WritePointer, WriteNextPointer, WriteAllocate, WriteFull,
                     WriteFill, WriteData, WriteChain, WriteSize, WriteSave, Calling, AtBlock
    <3> QED
        BY <1>1, <3>1
  <2>11. CASE FormatDisk
    <3>1. UNCHANGED program /\ pc \notin {"off", "shell"}
        BY <2>11 DEF FormatDisk, Format, FormatSuperblock, FormatInodes, Calling
    <3> QED
        BY <1>1, <3>1
  <2> QED
      BY <1>3, <2>1, <2>2, <2>3, <2>4, <2>5, <2>6, <2>7, <2>8, <2>9, <2>10, <2>11, Zenon DEF Next, Step
<1> QED
    BY <1>2, <1>3

-----------------------------------------------------------------------------
(* How file_write fills a block.                                           *)

(* Block j of a file with the name n and the text t.                       *)
BlockOf(n, t, j, data) ==
    \A c \in Cells : data[c] = Content(n, t, j * WordsPerSector + c)

(* The text reaches it, or ends where it begins.                           *)
Within(n, t, j) == j * WordsPerSector <= TextEnd(n, t)

(* The block once the next piece x of the text has been put in its holes;  *)
(* more: it is full, as text is left.                                      *)
Grown(n, t, x, j, data, more) ==
    /\ BlockOf(n, t \o x, j, data)
    /\ Len(x) # 0 => Within(n, t, j) /\ TextEnd(n, t \o x) <= (j + 1) * WordsPerSector
    /\ more => Within(n, t \o x, j + 1)

(* What file_write's fill made of a block whose holes start at h: cnt words *)
(* of the buffer s, whose text has l words, follow in data.                *)
Poured(block, data, h, s, l, total, cnt) ==
    LET sent == Min({total, l})
        u    == Min({total + cnt, l}) - sent
    IN  /\ cnt \in Nat /\ sent \in Nat /\ u \in Nat /\ sent + u <= l /\ h + u <= WordsPerSector
        /\ u # 0 => total < l
        /\ total + cnt < l => total < l /\ h + u = WordsPerSector
        /\ Cardinality({c \in Cells : data[c] # block[c]}) = u
        /\ \A c \in Cells : data[c] = IF c >= h /\ c < h + u
                                      THEN s[(sent + (c - h)) + 1] ELSE block[c]

(* The cells and the numbers, apart from the arithmetic on sectors.        *)
LEMMA FillRun ==
    ASSUME NEW block, NEW first, NEW h \in 0 .. WordsPerSector,
           Holes(block, first) = {c \in Cells : c >= h},
           \A c \in Cells : c >= h => block[c] = 0,
           NEW s \in Seq(Nat), NEW l, TextFront(s, l), NEW total \in Nat,
           NEW left \in Int, Max({left, 0}) = Len(s) - total,
           NEW cnt, cnt = FillCount(block, first, left)
    PROVE  Poured(block, Fill(block, first, s, total, cnt), h, s, l, total, cnt)
<1> DEFINE data == Fill(block, first, s, total, cnt)
           sent == Min({total, l})
           more == Min({total + cnt, l})
           u    == more - sent
           holes == Holes(block, first)
<1>1. /\ WordsPerSector \in Nat /\ Cells = 0 .. WordsPerSector - 1 /\ Len(s) \in Nat
      /\ l \in 0 .. Len(s) /\ \A k \in 1 .. Len(s) : s[k] = 0 <=> k > l
    BY DiskAssumption, LenProperties DEF Cells, TextFront
<1>2. /\ Cardinality(holes) = WordsPerSector - h
      /\ \A c \in holes : Cardinality({x \in holes : x < c}) = c - h
    BY HolesRun
<1>3. total <= Len(s)
  <2>1. Max({left, 0}) \in Nat
      BY MaxOfTwo
  <2> QED
      BY <1>1, <2>1
<1>4. cnt = IF WordsPerSector - h <= Len(s) - total THEN WordsPerSector - h ELSE Len(s) - total
  <2>1. cnt = Min({WordsPerSector - h, Len(s) - total})
      BY <1>2 DEF FillCount
  <2>2. WordsPerSector - h \in Int /\ Len(s) - total \in Int
      BY <1>1
  <2> QED
      BY <2>1, <2>2, MinOfTwo
<1>5. cnt \in Nat /\ h + cnt <= WordsPerSector /\ total + cnt <= Len(s)
    BY <1>1, <1>3, <1>4
<1>6. /\ sent = IF total <= l THEN total ELSE l
      /\ more = IF total + cnt <= l THEN total + cnt ELSE l
  <2>1. total \in Int /\ l \in Int /\ total + cnt \in Int
      BY <1>1, <1>5
  <2> QED
      BY <2>1, MinOfTwo
<1>7. \A c \in Cells : data[c] = IF c >= h /\ (c - h) + 1 <= cnt
                                 THEN s[total + ((c - h) + 1)] ELSE block[c]
  <2> SUFFICES ASSUME NEW c \in Cells
               PROVE  data[c] = IF c >= h /\ (c - h) + 1 <= cnt
                                THEN s[total + ((c - h) + 1)] ELSE block[c]
      OBVIOUS
  <2>1. data[c] = IF c \in holes /\ Cardinality({x \in holes : x < c}) + 1 <= cnt
                  THEN s[total + (Cardinality({x \in holes : x < c}) + 1)] ELSE block[c]
      BY DEF Fill
  <2>2. c \in holes <=> c >= h
      OBVIOUS
  <2> HIDE DEF holes, data
  <2> QED
      BY <1>2, <2>1, <2>2
<1> HIDE DEF data, holes
<1>8. /\ sent \in Nat /\ u \in Nat /\ sent + u <= l /\ u <= cnt /\ h + u <= WordsPerSector
      /\ u # 0 => total < l
      /\ total + cnt < l => total < l /\ u = cnt /\ h + u = WordsPerSector
      /\ total < l => sent = total
      /\ total >= l => u = 0
      /\ \A i \in Nat : i >= 1 /\ i <= cnt => (i <= u <=> total + i <= l)
  <2> HIDE DEF sent, more
  <2>1. l \in Nat /\ h \in Nat /\ WordsPerSector \in Nat /\ Len(s) \in Nat /\ l <= Len(s)
      BY <1>1
  <2>2. CASE total >= l
    <3>1. sent = l /\ more = l /\ u = 0
        BY <1>5, <1>6, <2>1, <2>2
    <3> HIDE DEF u
    <3> QED
        BY <1>5, <2>1, <2>2, <3>1
  <2>3. CASE total < l /\ total + cnt <= l
    <3>1. sent = total /\ more = total + cnt /\ u = cnt
        BY <1>5, <1>6, <2>1, <2>3
    <3>2. total + cnt < l => h + cnt = WordsPerSector
        BY <1>3, <1>4, <2>1
    <3> HIDE DEF u
    <3>3. \A i \in Nat : i >= 1 /\ i <= cnt => (i <= u <=> total + i <= l)
        BY <1>5, <2>1, <2>3, <3>1
    <3>4. /\ sent \in Nat /\ u \in Nat /\ sent + u <= l /\ u <= cnt /\ h + u <= WordsPerSector
          /\ total < l /\ ~(total >= l)
        BY <1>5, <2>1, <2>3, <3>1
    <3> QED
        BY <3>1, <3>2, <3>3, <3>4
  <2>4. CASE total < l /\ total + cnt > l
    <3>1. sent = total /\ more = l /\ u = l - total
        BY <1>5, <1>6, <2>1, <2>4
    <3> HIDE DEF u
    <3>2. \A i \in Nat : i >= 1 /\ i <= cnt => (i <= u <=> total + i <= l)
        BY <1>5, <2>1, <2>4, <3>1
    <3>3. /\ sent \in Nat /\ u \in Nat /\ sent + u <= l /\ u <= cnt /\ h + u <= WordsPerSector
          /\ ~(total >= l) /\ ~(total + cnt < l)
        BY <1>5, <2>1, <2>4, <3>1
    <3> QED
        BY <2>4, <3>1, <3>2, <3>3
  <2>5. (total >= l) \/ (total < l /\ total + cnt <= l) \/ (total < l /\ total + cnt > l)
      BY <1>5, <2>1
  <2> QED
      BY <2>2, <2>3, <2>4, <2>5
<1> HIDE DEF sent, u
<1>9. ASSUME NEW c \in Cells
      PROVE  /\ data[c] = IF c >= h /\ c < h + u THEN s[(sent + (c - h)) + 1] ELSE block[c]
             /\ data[c] # block[c] <=> c \in h .. (h + u) - 1
  <2>1. c \in Int /\ c >= 0 /\ c <= WordsPerSector - 1 /\ h \in Int
      BY <1>1
  <2>2. CASE c < h
      BY <1>7, <1>8, <2>1, <2>2
  <2>3. CASE c >= h /\ (c - h) + 1 > cnt
    <3>1. u \in Nat /\ u <= cnt /\ cnt \in Nat
        BY <1>5, <1>8
    <3>2. ~(c < h + u) /\ c \notin h .. (h + u) - 1
        BY <2>1, <2>3, <3>1
    <3>3. data[c] = block[c]
        BY <1>7, <2>1, <2>3, <3>1
    <3> QED
        BY <3>2, <3>3
  <2>4. CASE c >= h /\ (c - h) + 1 <= cnt
    <3> DEFINE i == (c - h) + 1
    <3>1. i \in Nat /\ i >= 1 /\ i <= cnt
        BY <2>1, <2>4
    <3>2. i <= u <=> total + i <= l
        BY <1>8, <3>1
    <3>3. data[c] = s[total + i] /\ block[c] = 0
        BY <1>7, <2>4
    <3>4. total + i \in 1 .. Len(s)
        BY <1>1, <1>5, <3>1
    <3>5. s[total + i] = 0 <=> total + i > l
        BY <1>1, <3>4
    <3>6. (sent + (c - h)) + 1 = sent + i /\ (c < h + u <=> i <= u)
        BY <1>8, <2>1
    <3> HIDE DEF i
    <3>7. CASE i <= u
      <4>1. total + i = sent + i /\ ~(total + i > l)
          BY <1>1, <1>8, <3>1, <3>2, <3>7
      <4> QED
          BY <1>8, <2>1, <2>4, <3>3, <3>5, <3>6, <3>7, <4>1
    <3>8. CASE ~(i <= u)
      <4>1. total + i > l
          BY <1>1, <3>1, <3>2, <3>8
      <4> QED
          BY <1>8, <2>1, <2>4, <3>3, <3>5, <3>6, <3>8, <4>1
    <3> QED
        BY <3>7, <3>8
  <2> QED
      BY <1>5, <2>1, <2>2, <2>3, <2>4
<1>10. Cardinality({c \in Cells : data[c] # block[c]}) = u
  <2>1. {c \in Cells : data[c] # block[c]} = h .. (h + u) - 1
    <3>1. \A c \in Cells : data[c] # block[c] <=> c \in h .. (h + u) - 1
        BY <1>9
    <3>2. \A c \in h .. (h + u) - 1 : c \in Cells
        BY <1>1, <1>8
    <3> QED
        BY <3>1, <3>2
  <2>2. Cardinality(h .. (h + u) - 1) = IF h > (h + u) - 1 THEN 0 ELSE ((h + u) - 1) - h + 1
      BY <1>8, FS_Interval
  <2>3. h \in Int
      OBVIOUS
  <2>4. Cardinality(h .. (h + u) - 1) = u
      BY <1>8, <2>2, <2>3
  <2> QED
      BY <2>1, <2>4
<1> QED
    BY <1>5, <1>8, <1>9, <1>10 DEF data, sent, u, Poured

LEMMA FillStart ==
    ASSUME NEW a \in Nat, NEW end \in Nat, NEW size \in Nat
    PROVE  \E h \in 0 .. size :
              /\ \A c \in 0 .. size - 1 : a + c >= end <=> c >= h
              /\ a <= end /\ h < size => a + h = end
              /\ a <= end /\ h = size => a + size <= end
<1>1. CASE end <= a
    BY <1>1
<1>2. CASE end > a /\ end - a < size
    BY <1>2
<1>3. CASE end > a /\ end - a >= size
    BY <1>3
<1> QED
    BY <1>1, <1>2, <1>3

(* A cell of the block that starts at word a, when the text ends at word   *)
(* end and the piece of u words follows from cell h on.                    *)
LEMMA PieceCell ==
    ASSUME NEW a \in Nat, NEW end \in Nat, NEW u \in Nat, NEW h \in Nat, NEW c \in Nat,
           u # 0 => a + h = end
    PROVE  /\ (a + c >= end /\ a + c < end + u) <=> (c >= h /\ c < h + u)
           /\ c >= h /\ c < h + u =>
                 (a + c) - end = c - h /\ (c - h) + 1 \in 1 .. u
<1>1. CASE u = 0
    BY <1>1
<1>2. CASE u # 0
    BY <1>2
<1> QED
    BY <1>1, <1>2

(* The words of a block that starts at word a of the file.                 *)
BlockFrom(n, t, a, data) == \A c \in Cells : data[c] = Content(n, t, a + c)

(* The piece x lies in data from cell h on; the rest is as in block.       *)
PutIn(block, data, h, x) ==
    \A c \in Cells : data[c] = IF c >= h /\ c < h + Len(x) THEN x[(c - h) + 1] ELSE block[c]

(* The next piece of the text is put in the holes of the block that starts *)
(* at word a of the file.                                                  *)
LEMMA PiecePoured ==
    ASSUME NEW n \in Seq(Nat), NEW t \in Texts, NEW a \in Nat, NEW block,
           BlockFrom(n, t, a, block),
           NEW h \in Nat, NEW x \in Texts, Len(x) # 0 => a + h = TextEnd(n, t),
           NEW data, PutIn(block, data, h, x)
    PROVE  BlockFrom(n, t \o x, a, data)
<1> DEFINE end == TextEnd(n, t)
           u   == Len(x)
<1>0. u \in Nat
    BY LenProperties DEF Texts
<1>1. \A y \in Nat : Content(n, t \o x, y) =
          IF y >= end /\ y < end + u THEN x[(y - end) + 1] ELSE Content(n, t, y)
    BY JoinContent
<1>2. end \in Nat
    BY LenProperties DEF TextEnd, Texts
<1> HIDE DEF end
<1> SUFFICES ASSUME NEW c \in Cells PROVE data[c] = Content(n, t \o x, a + c)
    BY DEF BlockFrom
<1>3. c \in Nat
    BY DEF Cells
<1>4. a + c \in Nat
    BY <1>3
<1>5. u # 0 => a + h = end
    BY DEF end
<1> HIDE DEF u
<1>6. /\ (a + c >= end /\ a + c < end + u) <=> (c >= h /\ c < h + u)
      /\ c >= h /\ c < h + u => (a + c) - end = c - h
    BY <1>0, <1>2, <1>3, <1>5, PieceCell
<1>7. Content(n, t \o x, a + c) =
          IF c >= h /\ c < h + u THEN x[(c - h) + 1] ELSE Content(n, t, a + c)
    BY <1>1, <1>4, <1>6
<1>8. /\ data[c] = IF c >= h /\ c < h + u THEN x[(c - h) + 1] ELSE block[c]
      /\ block[c] = Content(n, t, a + c)
    BY DEF BlockFrom, PutIn, u
<1> QED
    BY <1>7, <1>8

(* The next piece of the buffer s, whose text has l words, is in data.     *)
Appended(n, t, j, block, data, s, l, total, cnt) ==
    LET sent == Min({total, l})
        u    == Cardinality({c \in Cells : data[c] # block[c]})
    IN  /\ cnt \in Nat /\ sent \in Nat /\ u \in Nat /\ sent + u <= l
        /\ Min({total + cnt, l}) = sent + u
        /\ Grown(n, t, SubSeq(WithoutNuls(s), sent + 1, sent + u), j, data, total + cnt < l)

(* The next piece of the text is put in the holes of block j.              *)
LEMMA FillAppends ==
    ASSUME NEW n \in Seq(Nat), IsName(n), NEW t \in Texts, NEW j \in Nat, NEW block,
           BlockOf(n, t, j, block),
           NEW first, first <=> j = 0,
           NEW s \in Seq(Nat), NEW l, TextFront(s, l), NEW total \in Nat,
           NEW left \in Int, Max({left, 0}) = Len(s) - total,
           total < l => Within(n, t, j),
           NEW cnt, cnt = FillCount(block, first, left)
    PROVE  Appended(n, t, j, block, Fill(block, first, s, total, cnt), s, l, total, cnt)
<1> DEFINE a    == j * WordsPerSector
           end  == TextEnd(n, t)
           data == Fill(block, first, s, total, cnt)
           sent == Min({total, l})
           more == Min({total + cnt, l})
           u    == more - sent
           T    == WithoutNuls(s)
           x    == SubSeq(T, sent + 1, sent + u)
<1>1. WordsPerSector \in Nat /\ a \in Nat
    BY DiskAssumption
<1>2. Cells = 0 .. WordsPerSector - 1
    BY DEF Cells
<1>3. (j + 1) * WordsPerSector = a + WordsPerSector
    BY DiskAssumption
<1>4. Len(n) \in Nat /\ Len(t) \in Nat /\ end = Len(n) + 1 + Len(t) /\ end \in Nat
    BY LenProperties DEF TextEnd, Texts
<1>5. Holes(block, first) = {c \in Cells : a + c >= end}
    BY HolesAre DEF BlockOf
<1>6. \A c \in Cells : block[c] = Content(n, t, a + c)
    BY DEF BlockOf
<1>7. T \in Texts /\ Len(T) = l /\ l \in Nat /\ \A k \in 1 .. l : T[k] = s[k]
    BY FrontText
<1>8. total < l => a <= end
    BY DEF Within
<1> HIDE DEF a, end, data, T
<1>9. PICK h \in 0 .. WordsPerSector :
          /\ \A c \in 0 .. WordsPerSector - 1 : a + c >= end <=> c >= h
          /\ a <= end /\ h < WordsPerSector => a + h = end
          /\ a <= end /\ h = WordsPerSector => a + WordsPerSector <= end
  <2>1. a \in Nat /\ end \in Nat /\ WordsPerSector \in Nat
      BY <1>1, <1>4
  <2> QED
      BY <2>1, FillStart, Zenon
<1>10. Holes(block, first) = {c \in Cells : c >= h}
    BY <1>2, <1>5, <1>9
<1>11. \A c \in Cells : c >= h => block[c] = 0
  <2> SUFFICES ASSUME NEW c \in Cells, c >= h PROVE block[c] = 0
      OBVIOUS
  <2>1. c \in Nat
      BY DEF Cells
  <2>2. a + c >= end
      BY <1>2, <1>9
  <2>3. a + c \in Nat
      BY <1>1, <2>1
  <2>4. a + c > Len(n) + Len(t)
      BY <1>4, <2>2, <2>3
  <2>5. Content(n, t, a + c) = 0
      BY <2>3, <2>4, ContentNul
  <2> QED
      BY <1>6, <2>5
<1>12. Poured(block, data, h, s, l, total, cnt)
    BY <1>10, <1>11, FillRun, Zenon DEF data
<1>13. /\ cnt \in Nat /\ sent \in Nat /\ u \in Nat /\ sent + u <= l /\ h + u <= WordsPerSector
       /\ u # 0 => total < l
       /\ total + cnt < l => total < l /\ h + u = WordsPerSector
    BY <1>12 DEF Poured
<1>14. Cardinality({c \in Cells : data[c] # block[c]}) = u
    BY <1>12, Zenon DEF Poured
<1>15. \A c \in Cells : data[c] = IF c >= h /\ c < h + u
                                  THEN s[(sent + (c - h)) + 1] ELSE block[c]
    BY <1>12, Zenon DEF Poured
<1>16. more \in Int /\ sent \in Int
  <2>1. total + cnt \in Int /\ l \in Int /\ total \in Int
      BY <1>7, <1>13
  <2> QED
      BY <2>1, MinOfTwo
<1> HIDE DEF more, sent
<1>17. more = sent + u
    BY <1>16
<1> HIDE DEF u
<1>18. h \in Nat /\ h <= WordsPerSector
    BY <1>1
<1>19. /\ u # 0 => a + h = end /\ a <= end /\ end + u <= a + WordsPerSector
       /\ total + cnt < l => a + WordsPerSector <= end + u
  <2>1. /\ a <= end /\ h < WordsPerSector => a + h = end
        /\ a <= end /\ h = WordsPerSector => a + WordsPerSector <= end
      BY <1>9
  <2>2. /\ a \in Nat /\ end \in Nat /\ WordsPerSector \in Nat /\ h \in Nat /\ u \in Nat
        /\ h + u <= WordsPerSector
      BY <1>1, <1>4, <1>13, <1>18
  <2>3. CASE total < l
      BY <1>8, <1>13, <2>1, <2>2, <2>3
  <2>4. CASE ~(total < l)
    <3>1. u = 0 /\ ~(total + cnt < l)
        BY <1>13, <2>4
    <3> QED
        BY <2>2, <3>1
  <2> QED
      BY <2>3, <2>4
<1>20. x \in Texts /\ Len(x) = u /\ \A k \in 1 .. u : x[k] = T[sent + k]
  <2> DEFINE b == sent + u
  <2>1. b \in Nat /\ sent <= b /\ b <= Len(T) /\ b - sent = u /\ sent \in Nat
      BY <1>7, <1>13
  <2>2. x = SubSeq(T, sent + 1, b)
      OBVIOUS
  <2>3. T \in Texts
      BY <1>7
  <2> HIDE DEF b, x
  <2>4. /\ SubSeq(T, sent + 1, b) \in Texts /\ Len(SubSeq(T, sent + 1, b)) = b - sent
        /\ \A k \in 1 .. b - sent : SubSeq(T, sent + 1, b)[k] = T[sent + k]
      BY <2>1, <2>3, PieceOf, Zenon
  <2> QED
      BY <2>1, <2>2, <2>4
<1> HIDE DEF x
<1>21. \A c \in Cells : data[c] = IF c >= h /\ c < h + u THEN x[(c - h) + 1] ELSE block[c]
  <2> SUFFICES ASSUME NEW c \in Cells
               PROVE  data[c] = IF c >= h /\ c < h + u THEN x[(c - h) + 1] ELSE block[c]
      OBVIOUS
  <2>1. c \in Nat
      BY DEF Cells
  <2>2. ASSUME c >= h, c < h + u PROVE x[(c - h) + 1] = s[(sent + (c - h)) + 1]
    <3>1. (c - h) + 1 \in 1 .. u /\ sent + ((c - h) + 1) \in 1 .. l
        BY <1>7, <1>13, <1>18, <2>1, <2>2
    <3>2. sent + ((c - h) + 1) = (sent + (c - h)) + 1
        BY <1>13, <1>18, <2>1
    <3> QED
        BY <1>7, <1>20, <3>1, <3>2
  <2> QED
      BY <1>15, <2>2
<1>22. BlockFrom(n, t \o x, a, data)
  <2>1. Len(x) # 0 => a + h = TextEnd(n, t)
      BY <1>19, <1>20 DEF end
  <2>2. h \in Nat /\ a \in Nat /\ x \in Texts
      BY <1>1, <1>18, <1>20
  <2>3. BlockFrom(n, t, a, block)
      BY <1>6 DEF BlockFrom
  <2>4. PutIn(block, data, h, x)
      BY <1>20, <1>21 DEF PutIn
  <2> QED
      BY <2>1, <2>2, <2>3, <2>4, PiecePoured
<1>23. TextEnd(n, t \o x) = end + u
    BY <1>20, JoinContent DEF end
<1>24. Grown(n, t, x, j, data, total + cnt < l)
  <2>1. BlockOf(n, t \o x, j, data)
      BY <1>22 DEF BlockOf, BlockFrom, a
  <2>2. Len(x) # 0 => Within(n, t, j) /\ TextEnd(n, t \o x) <= (j + 1) * WordsPerSector
      BY <1>3, <1>19, <1>20, <1>23 DEF Within, a, end
  <2>3. total + cnt < l => Within(n, t \o x, j + 1)
      BY <1>3, <1>19, <1>23 DEF Within
  <2> QED
      BY <2>1, <2>2, <2>3 DEF Grown
<1>25. sent + u = more /\ u = Cardinality({c \in Cells : data[c] # block[c]})
    BY <1>14, <1>17
<1>26. /\ cnt \in Nat /\ sent \in Nat /\ u \in Nat /\ sent + u <= l /\ more = sent + u
       /\ Grown(n, t, SubSeq(T, sent + 1, sent + u), j, data, total + cnt < l)
    BY <1>13, <1>17, <1>24 DEF x
<1> QED
    BY <1>25, <1>26 DEF data, sent, more, T, Appended

-----------------------------------------------------------------------------
(* A file that is written: a block more, and a piece of text more.         *)

LEMMA FileGrows ==
    ASSUME NEW dk \in Disk, NEW set \in SUBSET Entries(dk), Separate(dk, set), Clean(dk),
           NEW p \in set, NEW m \in Cells, NEW n, NEW t, Holds(dk, InodeAt(dk, p), m, n, t),
           NEW ptr, ptr = InodeAt(dk, p).ptrs[0], NEW b \in DataArea, ~Claimed(dk, set, b),
           LooksEmpty(ReadSector(dk, b))
    PROVE  LET dk2 == Longer(dk, ptr, m, b)
           IN  /\ Clean(dk2)
               /\ Entries(dk2) = Entries(dk)
               /\ \A q \in Entries(dk) : InodeAt(dk2, q) = InodeAt(dk, q)
               /\ \A q \in set : q # p => Untouched(dk, dk2, InodeAt(dk, q))
               /\ Holds(dk2, InodeAt(dk2, p), m + 1, n, t)
<1> DEFINE dk2 == Longer(dk, ptr, m, b)
           ino == InodeAt(dk, p)
<1>1. /\ Shape(dk, ino, m) /\ n \in Seq(Nat) /\ IsName(n) /\ t \in Texts
      /\ Len(n) + 1 + Len(t) <= m * WordsPerSector /\ Filled(dk, ino, m, n, t)
    BY DEF Holds
<1>2. ptr # 0 /\ m # 0 /\ \A k \in Cells : Claim(dk, ino, 0, k) # 0 <=> k < m
    BY <1>1 DEF Shape
<1>3. WellFormed(dk, ino) /\ ClaimedOnce(dk, set)
    BY DEF Separate
<1>4. ptr \in DataArea /\ ReadSector(dk, ptr) = dk[ptr]
    BY <1>2, <1>3, PointerPlace, PlaceFacts
<1>5. /\ Entries(dk2) = Entries(dk)
      /\ \A q \in Entries(dk) : InodeAt(dk2, q) = InodeAt(dk, q)
    BY <1>4, LongerTable
<1>6. /\ \A c \in Cells : ReadSector(dk2, ptr)[c] = IF c = m THEN b ELSE ReadSector(dk, ptr)[c]
      /\ \A x : x # ptr => ReadSector(dk2, x) = ReadSector(dk, x)
    BY <1>4, LongerRead
<1>7. b # 0 /\ b \in Sectors /\ b # ptr
  <2>1. Claim(dk, ino, 0, -1) = ptr
      BY PointerClaimed
  <2>2. b # ptr
      BY <2>1, PlaceFacts DEF Claimed
  <2> QED
      BY <2>2, AreaFacts
<1>8. \A k \in Cells : Claim(dk2, ino, 0, k) = IF k = m THEN b ELSE Claim(dk, ino, 0, k)
  <2> SUFFICES ASSUME NEW k \in Cells
               PROVE  Claim(dk2, ino, 0, k) = IF k = m THEN b ELSE Claim(dk, ino, 0, k)
      OBVIOUS
  <2>1. k # -1
      BY PlaceFacts
  <2> HIDE DEF dk2
  <2> QED
      BY <1>2, <1>6, <2>1 DEF Claim
<1> HIDE DEF dk2
<1>9. \A k \in Cells : k < m => Claim(dk, ino, 0, k) # ptr /\ Claim(dk, ino, 0, k) # b
  <2> SUFFICES ASSUME NEW k \in Cells, k < m
               PROVE  Claim(dk, ino, 0, k) # ptr /\ Claim(dk, ino, 0, k) # b
      OBVIOUS
  <2>1. Claim(dk, ino, 0, k) # b
      BY PlaceFacts DEF Claimed
  <2>2. Claim(dk, ino, 0, k) # 0
      BY <1>2
  <2>3. Claim(dk, ino, 0, -1) = ptr
      BY PointerClaimed
  <2>4. OnlyClaim(dk, set, p, 0, k)
      BY <1>3, <2>2, PlaceFacts DEF ClaimedOnce
  <2>5. k # -1
      BY PlaceFacts
  <2>6. Claim(dk, ino, 0, -1) # Claim(dk, ino, 0, k)
      BY <2>4, <2>5, PlaceFacts DEF OnlyClaim
  <2> QED
      BY <2>1, <2>3, <2>6
<1>10. ReadSector(dk, b) = ZeroSector
    BY <1>7 DEF Clean, ReadSector
<1>11. m \in Nat /\ m < WordsPerSector /\ WordsPerSector \in Nat /\ Len(n) \in Nat /\ Len(t) \in Nat
    BY <1>1, DiskAssumption, LenProperties DEF Cells, Texts
<1>12. Shape(dk2, ino, m + 1)
  <2>1. m + 1 \in 1 .. WordsPerSector
      BY <1>11
  <2>2. \A k \in Cells : Claim(dk2, ino, 0, k) # 0 <=> k < m + 1
    <3> SUFFICES ASSUME NEW k \in Cells PROVE Claim(dk2, ino, 0, k) # 0 <=> k < m + 1
        OBVIOUS
    <3>1. k \in Nat
        BY DEF Cells
    <3>2. k < m + 1 <=> k < m \/ k = m
        BY <1>11, <3>1
    <3>3. Claim(dk, ino, 0, k) # 0 <=> k < m
        BY <1>2
    <3>4. Claim(dk2, ino, 0, k) = IF k = m THEN b ELSE Claim(dk, ino, 0, k)
        BY <1>8
    <3> QED
        BY <1>7, <3>2, <3>3, <3>4
  <2> QED
      BY <1>1, <2>1, <2>2 DEF Shape
<1>13. Filled(dk2, ino, m + 1, n, t)
  <2> SUFFICES ASSUME NEW k \in Cells, NEW c \in Cells, k < m + 1
               PROVE  BlockCell(dk2, ino, k, c) = Content(n, t, k * WordsPerSector + c)
      BY DEF Filled
  <2>1. k \in Nat /\ c \in Nat
      BY DEF Cells
  <2>2. CASE k < m
    <3>1. k # m
        BY <1>11, <2>1, <2>2
    <3>2. Claim(dk2, ino, 0, k) = Claim(dk, ino, 0, k)
        BY <1>8, <3>1
    <3>3. BlockCell(dk2, ino, k, c) = BlockCell(dk, ino, k, c)
        BY <1>6, <1>9, <2>2, <3>2 DEF BlockCell
    <3> QED
        BY <1>1, <2>2, <3>3 DEF Filled
  <2>3. CASE ~(k < m)
    <3>1. k = m
        BY <1>11, <2>1, <2>3
    <3>2. BlockCell(dk2, ino, k, c) = 0
        BY <1>6, <1>7, <1>8, <1>10, <3>1 DEF BlockCell, ZeroSector
    <3>3. m * WordsPerSector \in Nat
        BY <1>11
    <3>4. k * WordsPerSector + c \in Nat /\ k * WordsPerSector + c > Len(n) + Len(t)
      <4> DEFINE a == m * WordsPerSector
      <4>1. Len(n) + 1 + Len(t) <= a /\ a \in Nat
          BY <1>1, <3>3
      <4> HIDE DEF a
      <4>2. a + c \in Nat /\ a + c > Len(n) + Len(t)
          BY <1>11, <2>1, <4>1
      <4> QED
          BY <3>1, <4>2 DEF a
    <3> QED
        BY <1>1, <3>2, <3>4, ContentNul
  <2> QED
      BY <2>2, <2>3
<1>14. Len(n) + 1 + Len(t) <= (m + 1) * WordsPerSector
  <2> DEFINE a == m * WordsPerSector
  <2>1. (m + 1) * WordsPerSector = a + WordsPerSector /\ a \in Nat
      BY <1>11
  <2>2. Len(n) + 1 + Len(t) <= a
      BY <1>1
  <2> HIDE DEF a
  <2> QED
      BY <1>11, <2>1, <2>2
<1>15. Holds(dk2, InodeAt(dk2, p), m + 1, n, t)
  <2>1. Holds(dk2, ino, m + 1, n, t)
      BY <1>1, <1>12, <1>13, <1>14 DEF Holds
  <2> QED
      BY <1>5, <2>1
<1>16. \A q \in set : q # p => Untouched(dk, dk2, InodeAt(dk, q))
  <2> SUFFICES ASSUME NEW q \in set, q # p, NEW c \in Places, Claim(dk, InodeAt(dk, q), 0, c) # 0
               PROVE  ReadSector(dk2, Claim(dk, InodeAt(dk, q), 0, c))
                         = ReadSector(dk, Claim(dk, InodeAt(dk, q), 0, c))
      BY DEF Untouched
  <2>1. OnlyClaim(dk, set, q, 0, c)
      BY <1>3, PlaceFacts DEF ClaimedOnce
  <2>2. Claim(dk, ino, 0, -1) = ptr
      BY PointerClaimed
  <2>3. Claim(dk, InodeAt(dk, q), 0, c) # ptr
      BY <2>1, <2>2, PlaceFacts DEF OnlyClaim
  <2> QED
      BY <1>6, <2>3
<1>17. Clean(dk2)
  <2>1. 0 \in Cells /\ 0 < WordsPerSector - 1 /\ 0 < m
      BY <1>2, <1>11, DiskAssumption, PlaceFacts
  <2>2. dk[ptr][0] # 0
      BY <1>2, <1>4, <2>1 DEF Claim
  <2>3. [dk[ptr] EXCEPT ![m] = b][0] # 0
      BY <1>2, <2>2
  <2>4. ~LooksEmpty([dk[ptr] EXCEPT ![m] = b])
      BY <2>1, <2>3, NotEmpty
  <2>5. ptr \in Sectors
      BY <1>4, AreaFacts
  <2> QED
      BY <2>4, <2>5, CleanWrite DEF dk2, Longer
<1> QED
    BY <1>5, <1>15, <1>16, <1>17 DEF dk2

(* Words of a text outside the block that took its last piece.             *)
LEMMA OtherBlocks ==
    ASSUME NEW n \in Seq(Nat), NEW t \in Texts, NEW x \in Texts, NEW j \in Nat,
           Len(x) # 0 => Within(n, t, j) /\ TextEnd(n, t \o x) <= (j + 1) * WordsPerSector,
           NEW k \in Nat, k # j, NEW c \in Cells
    PROVE  Content(n, t \o x, k * WordsPerSector + c) = Content(n, t, k * WordsPerSector + c)
<1> DEFINE y == k * WordsPerSector + c
           a == k * WordsPerSector
           end == TextEnd(n, t)
<1>1. WordsPerSector \in Nat /\ c \in Nat /\ c < WordsPerSector
    BY DiskAssumption DEF Cells
<1>2. a \in Nat /\ y \in Nat
    BY <1>1
<1>3. /\ TextEnd(n, t \o x) = end + Len(x)
      /\ Content(n, t \o x, y) =
            IF y >= end /\ y < end + Len(x) THEN x[(y - end) + 1] ELSE Content(n, t, y)
    BY <1>2, JoinContent
<1>4. Len(x) \in Nat /\ end \in Nat
    BY LenProperties DEF Texts, TextEnd
<1>5. CASE Len(x) = 0
  <2> HIDE DEF y, end
  <2>1. ~(y >= end /\ y < end + Len(x))
      BY <1>2, <1>4, <1>5
  <2> QED
      BY <1>3, <2>1 DEF y
<1>6. CASE Len(x) # 0 /\ k < j
  <2> DEFINE w == j * WordsPerSector
  <2>1. a + WordsPerSector <= w /\ w \in Nat
      BY <1>6, BlockEnds
  <2>2. w <= end
      BY <1>6 DEF Within
  <2>3. y = a + c
      OBVIOUS
  <2> HIDE DEF w, a, y, end
  <2>4. ~(y >= end)
      BY <1>1, <1>2, <1>4, <2>1, <2>2, <2>3
  <2> QED
      BY <1>3, <2>4 DEF y
<1>7. CASE Len(x) # 0 /\ j < k
  <2> DEFINE w == (j + 1) * WordsPerSector
  <2>1. w <= a /\ w \in Nat
    <3>1. CASE j + 1 = k
        BY <1>2, <3>1
    <3>2. CASE j + 1 < k
      <4>1. w \in Nat /\ w + WordsPerSector <= a
          BY <3>2, BlockEnds
      <4> HIDE DEF w, a
      <4> QED
          BY <1>1, <1>2, <4>1
    <3> QED
        BY <1>7, <3>1, <3>2
  <2>2. end + Len(x) <= w
      BY <1>3, <1>7
  <2>3. y = a + c
      OBVIOUS
  <2> HIDE DEF w, a, y, end
  <2>4. ~(y < end + Len(x))
      BY <1>1, <1>2, <1>4, <2>1, <2>2, <2>3
  <2> QED
      BY <1>3, <2>4 DEF y
<1>8. k < j \/ j < k
    OBVIOUS
<1> QED
    BY <1>5, <1>6, <1>7, <1>8

(* A block of a file whose words but the last are all 0 is all 0.          *)
LEMMA EmptyBlock ==
    ASSUME NEW n \in Seq(Nat), IsName(n), NEW t \in Texts, NEW j \in Nat,
           NEW data \in Sector, BlockOf(n, t, j, data), LooksEmpty(data)
    PROVE  data = ZeroSector
<1> DEFINE a == j * WordsPerSector
<1>1. /\ WordsPerSector \in Nat /\ WordsPerSector >= 6 /\ a \in Nat
      /\ Len(n) \in Nat /\ Len(t) \in Nat
    BY DiskAssumption, LenProperties DEF Texts
<1>2. \A c \in Cells : data[c] = Content(n, t, a + c)
    BY DEF BlockOf
<1>3. \A c \in Cells : c < WordsPerSector - 1 => data[c] = 0
    BY DEF LooksEmpty
<1> HIDE DEF a
<1>4. \A c \in Cells : c < WordsPerSector - 1 => a + c = Len(n) \/ a + c > Len(n) + Len(t)
  <2> SUFFICES ASSUME NEW c \in Cells, c < WordsPerSector - 1
               PROVE  a + c = Len(n) \/ a + c > Len(n) + Len(t)
      OBVIOUS
  <2>1. a + c \in Nat
      BY <1>1 DEF Cells
  <2> QED
      BY <1>2, <1>3, <2>1, ContentNul
<1>5. 0 \in Cells /\ 1 \in Cells /\ WordsPerSector - 1 \in Cells
    BY <1>1 DEF Cells
<1>6. a + (WordsPerSector - 1) > Len(n) + Len(t) /\ a + (WordsPerSector - 1) \in Nat
  <2>1. a + 0 = Len(n) \/ a + 0 > Len(n) + Len(t)
      BY <1>1, <1>4, <1>5
  <2>2. a + 1 = Len(n) \/ a + 1 > Len(n) + Len(t)
      BY <1>1, <1>4, <1>5
  <2> QED
      BY <1>1, <2>1, <2>2
<1>7. data[WordsPerSector - 1] = 0
    BY <1>2, <1>5, <1>6, ContentNul
<1>8. \A c \in Cells : data[c] = 0
  <2> SUFFICES ASSUME NEW c \in Cells PROVE data[c] = 0
      OBVIOUS
  <2>1. c < WordsPerSector - 1 \/ c = WordsPerSector - 1
      BY <1>1 DEF Cells
  <2> QED
      BY <1>3, <1>7, <2>1
<1> QED
    BY <1>8 DEF Sector, ZeroSector

(* Block j of a file is written with the next piece of its text.           *)
LEMMA PieceWritten ==
    ASSUME NEW dk \in Disk, NEW set \in SUBSET Entries(dk), Separate(dk, set), Clean(dk),
           NEW p \in set, NEW m, NEW n, NEW t, Holds(dk, InodeAt(dk, p), m, n, t),
           NEW j \in Cells, j < m, NEW x \in Texts, NEW data \in Sector, NEW more,
           Grown(n, t, x, j, data, more),
           NEW b, b = Claim(dk, InodeAt(dk, p), 0, j), b \in DataArea,
           j = 0 => Prefix(data) = Prefix(dk[b])
    PROVE  LET dk2 == WriteSector(dk, b, data)
           IN  /\ Clean(dk2)
               /\ Entries(dk2) = Entries(dk)
               /\ \A q \in Entries(dk) : InodeAt(dk2, q) = InodeAt(dk, q)
               /\ \A q \in set : NameAt(dk2, q) = NameAt(dk, q)
               /\ \A q \in set : q # p => Untouched(dk, dk2, InodeAt(dk, q))
               /\ Holds(dk2, InodeAt(dk2, p), m, n, t \o x)
<1> DEFINE dk2 == WriteSector(dk, b, data)
           ino == InodeAt(dk, p)
<1>1. /\ Shape(dk, ino, m) /\ n \in Seq(Nat) /\ IsName(n) /\ t \in Texts
      /\ Len(n) + 1 + Len(t) <= m * WordsPerSector /\ Filled(dk, ino, m, n, t)
    BY DEF Holds
<1>2. /\ BlockOf(n, t \o x, j, data)
      /\ Len(x) # 0 => Within(n, t, j) /\ TextEnd(n, t \o x) <= (j + 1) * WordsPerSector
    BY DEF Grown
<1>3. t \o x \in Texts /\ TextEnd(n, t \o x) = TextEnd(n, t) + Len(x)
    BY <1>1, JoinContent
<1>4. /\ Entries(dk2) = Entries(dk)
      /\ \A q \in Entries(dk) : InodeAt(dk2, q) = InodeAt(dk, q)
      /\ Same(dk, dk2, set)
  <2>1. 0 = 0 /\ j = 0 => Prefix(data) = Prefix(dk[b])
      OBVIOUS
  <2>2. 0 \in Pointers
      BY PlaceFacts
  <2> QED
      BY <2>1, <2>2, OwnWrite
<1>5. ReadSector(dk2, b) = data /\ \A y : y # b => ReadSector(dk2, y) = ReadSector(dk, y)
    BY AreaFacts, ReadWritten, ReadOther
<1> HIDE DEF dk2
<1>6. \A q \in set : NameAt(dk2, q) = NameAt(dk, q)
    BY <1>4 DEF Same
<1>7. b # 0
    BY AreaFacts
<1>8. OnlyClaim(dk, set, p, 0, j)
    BY <1>7, PlaceFacts DEF Separate, ClaimedOnce
<1>9. \A q \in set : q # p => Untouched(dk, dk2, InodeAt(dk, q))
  <2> SUFFICES ASSUME NEW q \in set, q # p, NEW c \in Places
               PROVE  ReadSector(dk2, Claim(dk, InodeAt(dk, q), 0, c))
                         = ReadSector(dk, Claim(dk, InodeAt(dk, q), 0, c))
      BY DEF Untouched
  <2>1. Claim(dk, InodeAt(dk, q), 0, c) # b
      BY <1>8, PlaceFacts DEF OnlyClaim
  <2> QED
      BY <1>5, <2>1
<1>10. \A k \in Cells : k # j => Claim(dk, ino, 0, k) # b
    BY <1>8, PlaceFacts DEF OnlyClaim
<1>11. \A k \in Cells : Claim(dk2, ino, 0, k) = Claim(dk, ino, 0, k)
  <2>1. Alike(dk, dk2, ino)
      BY <1>4 DEF Same
  <2> QED
      BY <2>1, PlaceFacts DEF Alike
<1>12. Shape(dk2, ino, m)
    BY <1>1, <1>11 DEF Shape
<1>13. Filled(dk2, ino, m, n, t \o x)
  <2> SUFFICES ASSUME NEW k \in Cells, NEW c \in Cells, k < m
               PROVE  BlockCell(dk2, ino, k, c) = Content(n, t \o x, k * WordsPerSector + c)
      BY DEF Filled
  <2>1. CASE k = j
    <3>1. BlockCell(dk2, ino, k, c) = data[c]
        BY <1>5, <1>11, <2>1 DEF BlockCell
    <3> QED
        BY <1>2, <2>1, <3>1 DEF BlockOf
  <2>2. CASE k # j
    <3>1. BlockCell(dk2, ino, k, c) = BlockCell(dk, ino, k, c)
        BY <1>5, <1>10, <1>11, <2>2 DEF BlockCell
    <3>2. BlockCell(dk, ino, k, c) = Content(n, t, k * WordsPerSector + c)
        BY <1>1 DEF Filled
    <3>3. k \in Nat /\ j \in Nat
        BY DEF Cells
    <3>4. Content(n, t \o x, k * WordsPerSector + c) = Content(n, t, k * WordsPerSector + c)
        BY <1>1, <1>2, <2>2, <3>3, OtherBlocks
    <3> QED
        BY <3>1, <3>2, <3>4
  <2> QED
      BY <2>1, <2>2
<1>14. Len(n) + 1 + Len(t \o x) <= m * WordsPerSector
  <2>1. TextEnd(n, t \o x) = Len(n) + 1 + Len(t \o x) /\ TextEnd(n, t) = Len(n) + 1 + Len(t)
      BY DEF TextEnd
  <2>2. CASE Len(x) = 0
    <3>1. TextEnd(n, t) \in Int
        BY <1>1, LenProperties DEF TextEnd, Texts
    <3> QED
        BY <1>1, <1>3, <2>1, <2>2, <3>1
  <2>3. CASE Len(x) # 0
    <3>1. (j + 1) * WordsPerSector <= m * WordsPerSector
      <4>1. WordsPerSector \in Nat /\ j \in Nat /\ m \in Nat
          BY <1>1, DiskAssumption DEF Cells, Shape
      <4>2. j * WordsPerSector + WordsPerSector <= m * WordsPerSector
          BY <4>1, BlockEnds
      <4>3. (j + 1) * WordsPerSector = j * WordsPerSector + WordsPerSector
          BY <4>1
      <4> QED
          BY <4>2, <4>3
    <3>2. TextEnd(n, t \o x) <= (j + 1) * WordsPerSector
        BY <1>2, <2>3
    <3>3. /\ TextEnd(n, t \o x) \in Int /\ (j + 1) * WordsPerSector \in Int
          /\ m * WordsPerSector \in Int
      <4>1. Len(t \o x) \in Int /\ Len(n) \in Int
          BY <1>1, <1>3, LenProperties DEF Texts
      <4>2. WordsPerSector \in Nat /\ j \in Nat /\ m \in Nat
          BY <1>1, DiskAssumption DEF Cells, Shape
      <4>3. TextEnd(n, t \o x) \in Int
          BY <4>1, <2>1
      <4>4. (j + 1) * WordsPerSector \in Int /\ m * WordsPerSector \in Int
          BY <4>2
      <4> QED
          BY <4>3, <4>4
    <3> DEFINE u == (j + 1) * WordsPerSector
               v == m * WordsPerSector
    <3> HIDE DEF u, v
    <3>4. TextEnd(n, t \o x) <= v
        BY <3>1, <3>2, <3>3 DEF u, v
    <3> QED
        BY <2>1, <3>4 DEF v
  <2> QED
      BY <2>2, <2>3
<1>15. Holds(dk2, InodeAt(dk2, p), m, n, t \o x)
  <2>1. Holds(dk2, ino, m, n, t \o x)
      BY <1>1, <1>3, <1>12, <1>13, <1>14 DEF Holds
  <2> QED
      BY <1>4, <2>1
<1>16. Clean(dk2)
  <2>1. j \in Nat
      BY DEF Cells
  <2>2. LooksEmpty(data) => data = ZeroSector
      BY <1>1, <1>2, <1>3, <2>1, EmptyBlock
  <2>3. b \in Sectors
      BY AreaFacts
  <2> QED
      BY <2>2, <2>3, CleanWrite DEF dk2
<1> QED
    BY <1>4, <1>6, <1>9, <1>15, <1>16 DEF dk2

-----------------------------------------------------------------------------
(* Where file_write is.                                                    *)

(* The text handed to file_write, how much of it has been counted, and the *)
(* part of that which is in the block's copy in memory only.               *)
PlainText == WithoutNuls(payload)
Sent      == Min({fr.total, Len(PlainText)})
Unsaved   == Cardinality({c \in Cells : fr.data[c] # Block[c]})
Piece     == SubSeq(PlainText, Sent - Unsaved + 1, Sent)

(* The file that is written: entry p, with m data blocks and the text t.   *)
Target(p, m, t) ==
    /\ p \in Mine /\ NameAt(Here, p) = job.name /\ InodeAt(Here, p).ptrs = fr.info.ptrs
    /\ Holds(Here, InodeAt(Here, p), m, job.name, t)

(* The loop has reached block j, and no text is left out before it.        *)
AtBlocks(m, t) ==
    /\ fr.i = 0 /\ fr.j <= m
    /\ fr.total < Len(PlainText) => Within(job.name, t, fr.j)

(* The next piece is in the copy of block j.                               *)
AtData(m, t) ==
    /\ fr.i = 0 /\ fr.j < m /\ Unsaved \in Nat /\ Unsaved <= Sent
    /\ Grown(job.name, t, Piece, fr.j, fr.data, fr.total < Len(PlainText))

WritePlace ==
    pc \in {"pointers", "blocks", "data"} =>
        \E p, m, t : /\ Target(p, m, t)
                     /\ pc = "blocks" => AtBlocks(m, t)
                     /\ pc = "data" => AtData(m, t)

(* The facts all steps of the loop rest on.                                *)
Intact == Context /\ FilesPacked /\ BlocksClean /\ PayloadText /\ Counted

LEMMA PlainTextIs ==
    ASSUME Intact
    PROVE  /\ PlainText \in Texts /\ Len(PlainText) \in Nat /\ payload \in Seq(Nat)
           /\ TextFront(payload, Len(PlainText)) /\ Len(PlainText) <= Len(payload)
           /\ Len(payload) = Max({wsize, 0})
<1>1. payload \in Seq(Nat)
    BY ContextFacts DEF Intact, TypeOK
<1>2. PICK l \in Nat : TextFront(payload, l)
    BY DEF Intact, PayloadText
<1>3. PlainText \in Texts /\ Len(PlainText) = l /\ l <= Len(payload)
    BY <1>1, <1>2, FrontText DEF PlainText
<1> QED
    BY <1>1, <1>2, <1>3 DEF Intact, PayloadText

LEMMA CountIs ==
    ASSUME Intact, pc \in Writes
    PROVE  /\ fr.total \in Nat /\ fr.left \in Int /\ fr.j \in Nat
           /\ Max({fr.left, 0}) = Len(payload) - fr.total
           /\ Sent = (IF fr.total <= Len(PlainText) THEN fr.total ELSE Len(PlainText))
           /\ Sent \in Nat /\ Sent <= Len(PlainText)
<1>1. /\ fr \in Frame /\ wsize \in Int
      /\ fr.left = wsize - fr.total /\ fr.total <= Max({wsize, 0})
      /\ Len(payload) = Max({wsize, 0}) /\ Len(PlainText) \in Nat
    BY WritesFacts, ContextFacts, PlainTextIs DEF Intact, TypeOK, Counted
<1>2. fr.total \in Nat /\ fr.left \in Int /\ fr.j \in Nat
    BY <1>1 DEF Frame
<1>3. Max({wsize, 0}) = IF wsize >= 0 THEN wsize ELSE 0
    BY <1>1, MaxOfTwo
<1>4. Max({fr.left, 0}) = IF fr.left >= 0 THEN fr.left ELSE 0
    BY <1>2, MaxOfTwo
<1>5. Max({fr.left, 0}) = Len(payload) - fr.total
    BY <1>1, <1>2, <1>3, <1>4
<1>6. Sent = IF fr.total <= Len(PlainText) THEN fr.total ELSE Len(PlainText)
  <2>1. fr.total \in Int /\ Len(PlainText) \in Int
      BY <1>1, <1>2
  <2> QED
      BY <2>1, MinOfTwo DEF Sent
<1>7. Sent \in Nat /\ Sent <= Len(PlainText)
    BY <1>1, <1>2, <1>6
<1> QED
    BY <1>2, <1>5, <1>6, <1>7

(* A step of file_write that leaves the inodes alone.                      *)
LEMMA FileWritten ==
    ASSUME Context, Context', FilesPacked, BlocksClean, pc \in Writes, pc' \in Writes, drive' = drive,
           NEW dk2, disk' = [disk EXCEPT ![drive] = dk2], Clean(dk2),
           Entries(dk2) = Entries(Here),
           \A q \in Entries(Here) : InodeAt(dk2, q) = InodeAt(Here, q),
           NEW p \in Mine, \A q \in Mine : q # p => Untouched(Here, dk2, InodeAt(Here, q)),
           NEW m, NEW t, Holds(dk2, InodeAt(dk2, p), m, NameAt(Here, p), t)
    PROVE  /\ FilesPacked' /\ BlocksClean' /\ SameInodes /\ Here' = dk2 /\ Mine' = Mine
           /\ NameAt(dk2, p) = NameAt(Here, p) /\ Text(dk2, InodeAt(dk2, p)) = t
           /\ TextSame(Here, dk2, Mine \ {p})
           /\ \A d \in Drives : d # drive => disk'[d] = disk[d]
<1>1. /\ Here \in Disk /\ Mine \in SUBSET Entries(Here) /\ drive \in Drives
      /\ disk \in [Drives -> Disk] /\ Here = disk[drive] /\ Mine = Settled(drive)
    BY ContextFacts DEF Here, Mine
<1>2. disk'[drive] = dk2 /\ \A d \in Drives : d # drive => disk'[d] = disk[d]
    BY <1>1
<1>3. dk2 \in Disk
    BY <1>1, <1>2, DiskNext
<1>4. Here' = dk2
    BY <1>2 DEF Here
<1>5. pc \notin Makes /\ pc' \notin Makes
    BY DEF Writes, Makes
<1>6. SameInodes
    BY <1>1, <1>5, SettledSame
<1>7. Mine' = Mine
  <2>1. \A d \in Drives : d = drive => Settled(d)' = Settled(d)
      BY <1>6 DEF SameInodes
  <2> QED
      BY <1>1, <2>1 DEF Mine
<1>8. InodeAt(dk2, p) \in Inode
  <2>1. p \in Entries(dk2)
      BY <1>1
  <2> QED
      BY <1>3, <2>1, EntryInode
<1>9. NameAt(dk2, p) = NameAt(Here, p) /\ Text(dk2, InodeAt(dk2, p)) = t
    BY <1>3, <1>8, HeldName, HeldText DEF NameAt
<1>10. AreFiles(dk2, Mine \ {p}) /\ TextSame(Here, dk2, Mine \ {p})
  <2>1. AreFiles(Here, Mine \ {p})
      BY <1>1 DEF FilesPacked, AreFiles
  <2>2. \A q \in Mine \ {p} : /\ InodeAt(dk2, q).ptrs = InodeAt(Here, q).ptrs
                              /\ Untouched(Here, dk2, InodeAt(Here, q))
      BY <1>1
  <2>3. Mine \ {p} \in SUBSET Entries(Here)
      BY <1>1
  <2> QED
      BY <1>1, <1>3, <2>1, <2>2, <2>3, FilesSame
<1>11. IsFile(dk2, p)
    BY <1>9 DEF IsFile
<1>12. AreFiles(dk2, Mine)
    BY <1>10, <1>11 DEF AreFiles
<1>13. FilesPacked'
  <2> SUFFICES ASSUME NEW d \in Drives PROVE AreFiles(disk'[d], Settled(d))
      BY <1>6 DEF FilesPacked, SameInodes
  <2>1. CASE d = drive
      BY <1>1, <1>2, <1>12, <2>1
  <2>2. CASE d # drive
      BY <1>2, <2>2 DEF FilesPacked
  <2> QED
      BY <2>1, <2>2
<1>14. BlocksClean'
  <2> SUFFICES ASSUME NEW d \in Drives PROVE Clean(disk'[d])
      BY DEF BlocksClean
  <2>1. CASE d = drive
      BY <1>2, <2>1
  <2>2. CASE d # drive
      BY <1>2, <2>2 DEF BlocksClean
  <2> QED
      BY <2>1, <2>2
<1> QED
    BY <1>2, <1>4, <1>6, <1>7, <1>9, <1>10, <1>13, <1>14

(* How much of the text has reached the disk.                              *)
Arrived == Sent - (IF pc = "data" THEN Unsaved ELSE 0)

LEMMA TargetKept ==
    ASSUME NEW p, NEW m, NEW t, Target(p, m, t), Here' = Here, Mine' = Mine, job' = job,
           fr'.info.ptrs = fr.info.ptrs
    PROVE  Target(p, m, t)'
BY DEF Target

LEMMA WritesRun ==
    ASSUME pc \in Writes, pc' \in Writes
    PROVE  MakesAlike
BY DEF MakesAlike, Writes, Makes

(* A step that changes neither the disk nor what has been counted.         *)
LEMMA PlaceQuiet ==
    ASSUME Intact, pc \in Writes, pc' \in Writes, drive' = drive, disk' = disk
    PROVE  Steady /\ SameFiles /\ Here' = Here /\ Mine' = Mine
<1>1. Steady /\ SameFiles
    BY QuietFiles, WritesRun DEF Intact
<1>2. Here' = Here /\ Mine' = Mine
    BY <1>1, ContextFacts DEF Intact, Steady, SameInodes, Here, Mine
<1> QED
    BY <1>1, <1>2

LEMMA ArrivedSame ==
    ASSUME Intact, pc \in Writes \ {"data"}, pc' \in Writes \ {"data"}, payload' = payload,
           fr'.total = fr.total
    PROVE  Arrived' = Arrived /\ PlainText' = PlainText
<1>1. PlainText' = PlainText
    BY DEF PlainText
<1>2. Sent' = Sent
    BY <1>1 DEF Sent
<1> QED
    BY <1>1, <1>2 DEF Arrived

(* file_write found its file.                                              *)
LEMMA PlaceCall ==
    ASSUME Intact, "write" \notin StaleCalls, WriteCall, pc' # "run"
    PROVE  /\ pc = "run" /\ pc' = "pointers" /\ WritePlace' /\ fr'.total = 0
           /\ UNCHANGED <<disk, drive, payload, job>>
           /\ \E p \in Mine : NameAt(Here, p) = job.name
<1>1. /\ Calling("write") /\ UNCHANGED <<disk, selected, drive, sb, stale, program, bounds>>
      /\ \E info \in Lookup("write", job.name) : WriteNone(info) \/ WriteFound(info)
    BY WriteCallParts
<1>2. pc = "run"
    BY <1>1 DEF Calling
<1>3. PICK info \in Lookup("write", job.name) : WriteNone(info) \/ WriteFound(info)
    BY <1>1
<1>4. WriteFound(info)
    BY <1>3 DEF WriteNone, Return
<1>5. /\ info.valid = 1 /\ fr' = [NoFrame EXCEPT !.info = info, !.left = wsize]
      /\ pc' = "pointers"
    BY <1>4 DEF WriteFound
<1>6. fr'.total = 0 /\ fr'.info = info
    BY <1>5 DEF NoFrame
<1>7. PICK p \in Mine : NameAt(Here, p) = job.name /\ info = InodeAt(Here, p)
  <2>1. CASE Matches(Here, job.name) = {}
    <3>1. Lookup("write", job.name) = {NoInode}
        BY <2>1 DEF Lookup, GetFileInfo, Here
    <3>2. info.valid = 0
        BY <3>1 DEF NoInode
    <3> QED
        BY <1>5, <3>2
  <2>2. CASE Matches(Here, job.name) # {}
      BY <1>2, <2>2, LookupFacts DEF Intact
  <2> QED
      BY <2>1, <2>2
<1>8. Here' = Here /\ Mine' = Mine
    BY <1>1, <1>2, <1>5 DEF Here, Mine, Settled, Makes
<1>9. PICK m, t : Holds(Here, InodeAt(Here, p), m, job.name, t)
    BY <1>7, ContextFacts DEF Intact, FilesPacked, AreFiles, IsFile, Here, Mine
<1>10. Target(p, m, t)'
    BY <1>1, <1>6, <1>7, <1>8, <1>9 DEF Target, program
<1>11. WritePlace'
    BY <1>5, <1>10 DEF WritePlace
<1> QED
    BY <1>1, <1>2, <1>5, <1>6, <1>7, <1>11 DEF program

LEMMA PlacePointer ==
    ASSUME Intact, WritePlace, WritePointer
    PROVE  /\ pc = "pointers" /\ pc' = "blocks" /\ WritePlace' /\ Arrived' = Arrived
           /\ Steady /\ SameFiles /\ UNCHANGED <<payload, job, drive>>
<1>1. pc = "pointers" /\ UNCHANGED <<disk, drive, payload, job>>
    BY DEF WritePointer, program
<1>2. pc \in Writes /\ fr.i = 0 /\ fr \in Frame /\ fr.info \in Inode
    BY <1>1, WritesFacts DEF Writes, Intact, Counted
<1>3. fr.info.ptrs[0] # 0
    BY <1>2, WritesFacts DEF Intact, WellFormed
<1>4. /\ pc' = "blocks"
      /\ fr' = [fr EXCEPT !.j = 0, !.buf = ReadSector(disk[drive], fr.info.ptrs[fr.i])]
  <2>1. fr.i # PtrsPerInode
      BY <1>2, DiskAssumption
  <2> QED
      BY <1>2, <1>3, <2>1 DEF WritePointer
<1>5. fr'.j = 0 /\ fr'.i = 0 /\ fr'.total = fr.total /\ fr'.info = fr.info
    BY <1>2, <1>4 DEF Frame
<1>6. Steady /\ SameFiles /\ Here' = Here /\ Mine' = Mine
    BY <1>1, <1>4, PlaceQuiet DEF Writes
<1>7. Arrived' = Arrived /\ PlainText' = PlainText
    BY <1>1, <1>4, <1>5, ArrivedSame DEF Writes
<1>8. PICK p, m, t : Target(p, m, t)
    BY <1>1 DEF WritePlace
<1>9. Target(p, m, t)'
    BY <1>1, <1>5, <1>6, <1>8, TargetKept
<1>10. AtBlocks(m, t)'
  <2>1. m \in Nat /\ Len(job.name) \in Nat /\ Len(t) \in Nat
      BY <1>8, LenProperties, DiskAssumption DEF Target, Holds, Shape, Texts
  <2>2. Within(job.name, t, 0)
      BY <2>1, DiskAssumption DEF Within, TextEnd
  <2>3. 0 <= m
      BY <2>1
  <2> QED
      BY <1>1, <1>5, <2>2, <2>3 DEF AtBlocks
<1>11. WritePlace'
    BY <1>4, <1>9, <1>10 DEF WritePlace
<1> QED
    BY <1>1, <1>4, <1>6, <1>7, <1>11

LEMMA PlaceNextPointer ==
    ASSUME Intact, WordsSuffice, WriteNextPointer
    PROVE  /\ pc = "blocks" /\ pc' = "size" /\ Arrived' = Arrived
           /\ Steady /\ SameFiles /\ UNCHANGED <<payload, job, drive>>
<1>1. /\ pc = "blocks" /\ fr.j = WordsPerSector /\ UNCHANGED <<disk, drive, payload, job>>
    BY DEF WriteNextPointer, program
<1>2. pc' = "size" /\ fr' = fr
    BY <1>1 DEF WordsSuffice, WriteNextPointer
<1>3. Steady /\ SameFiles
    BY <1>1, <1>2, PlaceQuiet DEF Writes
<1>4. Arrived' = Arrived
    BY <1>1, <1>2, ArrivedSame DEF Writes
<1> QED
    BY <1>1, <1>2, <1>3, <1>4

-----------------------------------------------------------------------------
(* A block more.                                                           *)

(* The words of the target's pointer block.                                *)
LEMMA TargetWords ==
    ASSUME Context, pc \in {"blocks", "data"}, fr.i = 0, NEW p, NEW m, NEW t, Target(p, m, t)
    PROVE  /\ m \in 1 .. WordsPerSector
           /\ \A c \in Cells : /\ fr.buf[c] = Claim(Here, InodeAt(Here, p), 0, c)
                               /\ fr.buf[c] # 0 <=> c < m
<1>1. \A c \in Cells : fr.buf[c] = Claim(Here, fr.info, 0, c)
    BY LoopFacts
<1>2. InodeAt(Here, p).ptrs = fr.info.ptrs /\ Shape(Here, InodeAt(Here, p), m)
    BY DEF Target, Holds
<1>3. \A c \in Cells : fr.buf[c] = Claim(Here, InodeAt(Here, p), 0, c)
    BY <1>1, <1>2, ClaimOfPointers
<1>4. m \in 1 .. WordsPerSector
    BY <1>2 DEF Shape
<1>5. \A c \in Cells : Claim(Here, InodeAt(Here, p), 0, c) # 0 <=> c < m
    BY <1>2 DEF Shape
<1> QED
    BY <1>3, <1>4, <1>5

LEMMA PlaceLonger ==
    ASSUME Intact, Context', pc = "blocks", pc' = "blocks", fr.i = 0,
           NEW p, NEW m \in Cells, NEW t, Target(p, m, t),
           FreeBlocks(Here, sb, lab) # {},
           Write(fr.info.ptrs[fr.i], [fr.buf EXCEPT ![m] = Allocate(Here, sb, lab)]),
           drive' = drive, job' = job, fr'.info = fr.info
    PROVE  Steady /\ Target(p, m + 1, t)'
<1> DEFINE ptr == InodeAt(Here, p).ptrs[0]
           new == Allocate(Here, sb, lab)
           dk2 == Longer(Here, ptr, m, new)
<1>1. /\ Here \in Disk /\ Separate(Here, Mine) /\ drive \in Drives
      /\ disk \in [Drives -> Disk] /\ Mine \in SUBSET Entries(Here)
    BY ContextFacts DEF Intact
<1>2. /\ p \in Mine /\ NameAt(Here, p) = job.name /\ InodeAt(Here, p).ptrs = fr.info.ptrs
      /\ Holds(Here, InodeAt(Here, p), m, job.name, t)
    BY DEF Target
<1>3. Mine = Entries(Here) /\ lab \in DataArea /\ IsSuperblock(sb) /\ pc \in Writes
    BY WritesFacts DEF Intact, Writes
<1>4. new \in DataArea /\ LooksEmpty(ReadSector(Here, new)) /\ new \notin PointedTo(Here)
    BY <1>3, Allocated
<1>5. ~Claimed(Here, Mine, new)
  <2>1. Mine \subseteq Reached(Here, NullFiles)
      BY <1>1, <1>3 DEF Intact, Context, EntriesShown, Formats, Here
  <2>2. \A q \in Mine : WellFormed(Here, InodeAt(Here, q))
      BY <1>1 DEF Separate
  <2>3. new # 0
      BY <1>4, DataOutside
  <2> QED
      BY <1>4, <2>1, <2>2, <2>3, FreeUnclaimed
<1>6. Clean(Here)
    BY <1>1 DEF Intact, BlocksClean, Here
<1>7. disk' = [disk EXCEPT ![drive] = dk2]
  <2>1. fr.buf = Here[ptr] /\ ptr = fr.info.ptrs[fr.i]
      BY <1>2, LoopFacts DEF Intact
  <2> QED
      BY <2>1 DEF Write, Here, Longer
<1> HIDE DEF new
<1>8. /\ Clean(dk2) /\ Entries(dk2) = Entries(Here)
      /\ \A q \in Entries(Here) : InodeAt(dk2, q) = InodeAt(Here, q)
      /\ \A q \in Mine : q # p => Untouched(Here, dk2, InodeAt(Here, q))
      /\ Holds(dk2, InodeAt(dk2, p), m + 1, job.name, t)
    BY <1>1, <1>2, <1>4, <1>5, <1>6, FileGrows
<1> HIDE DEF dk2
<1>9. /\ FilesPacked' /\ BlocksClean' /\ SameInodes /\ Here' = dk2 /\ Mine' = Mine
      /\ NameAt(dk2, p) = NameAt(Here, p) /\ Text(dk2, InodeAt(dk2, p)) = t
      /\ TextSame(Here, dk2, Mine \ {p})
      /\ \A d \in Drives : d # drive => disk'[d] = disk[d]
    BY <1>2, <1>3, <1>7, <1>8, FileWritten DEF Intact
<1>10. Text(Here, InodeAt(Here, p)) = t
  <2>1. InodeAt(Here, p) \in Inode
      BY <1>1, <1>2, EntryInode
  <2> QED
      BY <1>1, <1>2, <2>1, HeldText
<1>11. TextSame(Here, dk2, Mine)
    BY <1>9, <1>10 DEF TextSame
<1>12. SameTexts
  <2> SUFFICES ASSUME NEW d \in Drives PROVE TextSame(disk[d], disk'[d], Settled(d))
      BY DEF SameTexts
  <2>1. CASE d = drive
    <3>1. disk'[d] = dk2 /\ disk[d] = Here /\ Settled(d) = Mine
        BY <1>1, <1>7, <2>1 DEF Here, Mine
    <3> QED
        BY <1>11, <3>1
  <2>2. CASE d # drive
      BY <1>9, <2>2, TextItself
  <2> QED
      BY <2>1, <2>2
<1>13. Target(p, m + 1, t)'
  <2>1. p \in Mine' /\ NameAt(Here', p) = job'.name /\ InodeAt(Here', p).ptrs = fr'.info.ptrs
      BY <1>1, <1>2, <1>8, <1>9
  <2>2. Holds(Here', InodeAt(Here', p), m + 1, job'.name, t)
      BY <1>8, <1>9
  <2> QED
      BY <2>1, <2>2 DEF Target
<1> QED
    BY <1>9, <1>12, <1>13 DEF Steady

LEMMA PlaceAllocate ==
    ASSUME Intact, Context', WritePlace, WriteAllocate, Spared
    PROVE  /\ pc = "blocks" /\ pc' = "blocks" /\ WritePlace' /\ Arrived' = Arrived
           /\ Steady /\ UNCHANGED <<payload, job, drive>>
<1> DEFINE new == Allocate(Here, sb, lab)
           buf == [fr.buf EXCEPT ![fr.j] = new]
<1>1. /\ pc = "blocks" /\ pc' = "blocks" /\ fr.j < WordsPerSector /\ fr.buf[fr.j] = 0
      /\ Write(fr.info.ptrs[fr.i], buf) /\ fr' = [fr EXCEPT !.buf = buf]
      /\ UNCHANGED <<drive, job, payload>>
    BY DEF WriteAllocate, AtBlock, Here, program
<1>2. fr \in Frame /\ fr.buf \in Sector /\ fr.j \in Nat
    BY <1>1, WritesFacts DEF Writes, Frame, Intact
<1>3. fr.j \in Cells
    BY <1>1, <1>2, DiskAssumption DEF Cells
<1>4. new # 0
    BY <1>1, AllocateFacts DEF Intact
<1>5. PICK p, m, t : Target(p, m, t) /\ AtBlocks(m, t)
    BY <1>1 DEF WritePlace
<1>6. fr.i = 0 /\ fr.j <= m /\ (fr.total < Len(PlainText) => Within(job.name, t, fr.j))
    BY <1>5 DEF AtBlocks
<1>7. fr.j = m /\ m \in Nat
  <2>1. m \in 1 .. WordsPerSector /\ ~(fr.j < m)
      BY <1>1, <1>3, <1>5, <1>6, TargetWords DEF Intact
  <2> QED
      BY <1>2, <1>6, <2>1
<1> HIDE DEF new
<1>8. /\ fr'.info = fr.info /\ fr'.i = fr.i /\ fr'.buf = buf /\ fr'.j = fr.j
      /\ fr'.total = fr.total
    BY <1>1, <1>2 DEF Frame
<1>9. FreeBlocks(Here, sb, lab) # {}
  <2>1. buf[fr.j] = new
      BY <1>2, <1>3 DEF Sector
  <2>2. fr'.buf # fr.buf
      BY <1>1, <1>4, <1>8, <2>1
  <2> QED
      BY <1>1, <2>2 DEF Spared, BlockFound, Here
<1>10. Steady /\ Target(p, m + 1, t)'
    BY <1>1, <1>3, <1>5, <1>6, <1>7, <1>8, <1>9, PlaceLonger DEF new
<1>11. Arrived' = Arrived /\ PlainText' = PlainText
    BY <1>1, <1>8, ArrivedSame DEF Writes
<1>12. AtBlocks(m + 1, t)'
  <2>1. fr.j <= m + 1
      BY <1>7
  <2> QED
      BY <1>1, <1>6, <1>8, <1>11, <2>1 DEF AtBlocks
<1>13. WritePlace'
    BY <1>1, <1>10, <1>12 DEF WritePlace
<1> QED
    BY <1>1, <1>10, <1>11, <1>13

(* The text goes past a block whose last word is set.                      *)
LEMMA FullWithin ==
    ASSUME NEW n \in Seq(Nat), IsName(n), NEW t \in Texts, NEW j \in Nat,
           Content(n, t, j * WordsPerSector + (WordsPerSector - 1)) # 0
    PROVE  Within(n, t, j + 1)
<1> DEFINE a == j * WordsPerSector
<1>1. /\ WordsPerSector \in Nat /\ WordsPerSector >= 6 /\ a \in Nat
      /\ Len(n) \in Nat /\ Len(t) \in Nat
    BY DiskAssumption, LenProperties DEF Texts
<1>2. (j + 1) * WordsPerSector = a + WordsPerSector
    BY <1>1
<1>3. a + (WordsPerSector - 1) \in Nat
    BY <1>1
<1>4. ~(a + (WordsPerSector - 1) > Len(n) + Len(t))
    BY <1>3, ContentNul
<1> HIDE DEF a
<1>5. a + WordsPerSector <= Len(n) + 1 + Len(t)
    BY <1>1, <1>4
<1> QED
    BY <1>2, <1>5 DEF Within, TextEnd

LEMMA TargetCell ==
    ASSUME Context, pc \in {"blocks", "data"}, fr.i = 0, NEW p, NEW m, NEW t, Target(p, m, t),
           NEW j \in Cells, j < m
    PROVE  BlockOf(job.name, t, j, ReadSector(Here, fr.buf[j]))
<1>1. fr.buf[j] = Claim(Here, InodeAt(Here, p), 0, j)
    BY TargetWords
<1>2. Filled(Here, InodeAt(Here, p), m, job.name, t)
    BY DEF Target, Holds
<1>3. \A c \in Cells : BlockCell(Here, InodeAt(Here, p), j, c)
                          = Content(job.name, t, j * WordsPerSector + c)
    BY <1>2 DEF Filled
<1> QED
    BY <1>1, <1>3 DEF BlockOf, BlockCell

(* On to the next word, which has a block.                                 *)
LEMMA PlaceNext ==
    ASSUME Intact, pc = "blocks", pc' = "blocks", UNCHANGED <<disk, drive, job, payload>>,
           fr' = [fr EXCEPT !.j = @ + 1], NEW p, NEW m, NEW t, Target(p, m, t), fr.i = 0,
           fr.j + 1 <= m, Within(job.name, t, fr.j + 1)
    PROVE  WritePlace' /\ Arrived' = Arrived /\ Steady
<1>1. fr \in Frame
    BY WritesFacts DEF Intact, Writes
<1>2. /\ fr'.info = fr.info /\ fr'.i = fr.i /\ fr'.j = fr.j + 1 /\ fr'.total = fr.total
    BY <1>1 DEF Frame
<1>3. Steady /\ Here' = Here /\ Mine' = Mine
    BY PlaceQuiet DEF Writes
<1>4. Arrived' = Arrived /\ PlainText' = PlainText
    BY <1>2, ArrivedSame DEF Writes
<1>5. Target(p, m, t)'
    BY <1>2, <1>3, TargetKept
<1>6. AtBlocks(m, t)'
    BY <1>2 DEF AtBlocks
<1> QED
    BY <1>3, <1>4, <1>5, <1>6 DEF WritePlace

LEMMA PlaceFull ==
    ASSUME Intact, Context', WritePlace, WriteFull, Spared
    PROVE  /\ pc = "blocks" /\ pc' = "blocks" /\ WritePlace' /\ Arrived' = Arrived
           /\ Steady /\ UNCHANGED <<payload, job, drive>>
<1>1. /\ pc = "blocks" /\ pc' = "blocks" /\ fr.j < WordsPerSector /\ fr.buf[fr.j] # 0
      /\ Block[LastCell] # 0 /\ UNCHANGED <<drive, job, payload>>
    BY DEF WriteFull, AtBlock, program
<1>2. /\ fr \in Frame /\ fr.buf \in Sector /\ fr.j \in Nat
    BY <1>1, WritesFacts DEF Writes, Frame, Intact
<1>3. fr.j \in Cells /\ LastCell \in Cells
    BY <1>1, <1>2, DiskAssumption DEF Cells, LastCell
<1>4. PICK p, m, t : Target(p, m, t) /\ AtBlocks(m, t)
    BY <1>1 DEF WritePlace
<1>5. fr.i = 0
    BY <1>4 DEF AtBlocks
<1>6. /\ m \in 1 .. WordsPerSector
      /\ \A c \in Cells : fr.buf[c] # 0 <=> c < m
    BY <1>1, <1>4, <1>5, TargetWords DEF Intact
<1>7. fr.j < m /\ m \in Nat
    BY <1>1, <1>3, <1>6
<1>8. Within(job.name, t, fr.j + 1)
  <2>1. Block[LastCell] = Content(job.name, t, fr.j * WordsPerSector + (WordsPerSector - 1))
      BY <1>1, <1>3, <1>4, <1>5, <1>7, TargetCell DEF Intact, BlockOf, Block, Here, LastCell
  <2>2. job.name \in Seq(Nat) /\ IsName(job.name) /\ t \in Texts
      BY <1>4 DEF Target, Holds
  <2> QED
      BY <1>1, <1>2, <2>1, <2>2, FullWithin
<1>9. fr.j + 1 <= m
    BY <1>2, <1>7
<1>10. PICK beyond \in {0, 1} :
          LET next == IF fr.j = LastCell THEN beyond ELSE fr.buf[fr.j + 1]
              buf  == IF fr.j = LastCell THEN fr.buf
                      ELSE [fr.buf EXCEPT ![fr.j + 1] = Allocate(Here, sb, lab)]
          IN  IF next # 0
              THEN fr' = [fr EXCEPT !.j = @ + 1] /\ UNCHANGED <<disk, lab>>
              ELSE /\ Write(fr.info.ptrs[fr.i], buf)
                   /\ lab' = Cursor(Here, sb, lab)
                   /\ fr' = [fr EXCEPT !.j = @ + 1, !.buf = buf]
    BY Zenon DEF WriteFull, Here
<1>11. ASSUME UNCHANGED disk, fr' = [fr EXCEPT !.j = @ + 1]
       PROVE  WritePlace' /\ Arrived' = Arrived /\ Steady
    BY <1>1, <1>4, <1>5, <1>8, <1>9, <1>11, PlaceNext
<1>12. CASE fr.j = LastCell
  <2>1. CASE beyond # 0
      BY <1>1, <1>10, <1>11, <1>12, <2>1
  <2>2. CASE beyond = 0
    <3>1. /\ Write(fr.info.ptrs[fr.i], fr.buf)
          /\ fr' = [fr EXCEPT !.j = @ + 1, !.buf = fr.buf]
        BY <1>10, <1>12, <2>2
    <3>2. fr' = [fr EXCEPT !.j = @ + 1]
        BY <1>2, <3>1 DEF Frame
    <3>3. UNCHANGED disk
      <4>1. Here \in Disk /\ disk \in [Drives -> Disk]
          BY ContextFacts DEF Intact
      <4>2. fr.info.ptrs[fr.i] \in DataArea /\ fr.buf = Here[fr.info.ptrs[fr.i]]
          BY <1>1, LoopFacts DEF Intact
      <4>3. WriteSector(Here, fr.info.ptrs[fr.i], fr.buf) = Here
          BY <4>1, <4>2, DataOutside DEF WriteSector, Disk
      <4> QED
          BY <3>1, <4>1, <4>3 DEF Write, Here
    <3> QED
        BY <1>1, <1>11, <3>2, <3>3
  <2> QED
      BY <2>1, <2>2
<1>13. CASE fr.j # LastCell
  <2> DEFINE x   == fr.j + 1
             new == Allocate(Here, sb, lab)
             buf == [fr.buf EXCEPT ![x] = new]
  <2>1. x \in Cells
      BY <1>1, <1>2, <1>13, DiskAssumption DEF Cells, LastCell
  <2>2. CASE fr.buf[x] # 0
      BY <1>1, <1>10, <1>11, <1>13, <2>2
  <2>3. CASE fr.buf[x] = 0
    <3>1. /\ Write(fr.info.ptrs[fr.i], buf)
          /\ fr' = [fr EXCEPT !.j = @ + 1, !.buf = buf]
        BY <1>10, <1>13, <2>3
    <3>2. new # 0
        BY <1>1, AllocateFacts DEF Intact
    <3>3. x = m
      <4>1. ~(x < m)
          BY <1>6, <2>1, <2>3
      <4> QED
          BY <1>2, <1>7, <4>1
    <3> HIDE DEF new
    <3>4. /\ fr'.info = fr.info /\ fr'.i = fr.i /\ fr'.buf = buf /\ fr'.j = x
          /\ fr'.total = fr.total
        BY <1>2, <3>1 DEF Frame
    <3>5. FreeBlocks(Here, sb, lab) # {}
      <4>1. buf[x] = new
          BY <1>2, <2>1 DEF Sector
      <4>2. fr'.buf # fr.buf
          BY <2>3, <3>2, <3>4, <4>1
      <4> QED
          BY <1>1, <4>2 DEF Spared, BlockFound, Here
    <3>6. m \in Cells /\ Write(fr.info.ptrs[fr.i], [fr.buf EXCEPT ![m] = Allocate(Here, sb, lab)])
        BY <2>1, <3>1, <3>3 DEF new
    <3>7. Steady /\ Target(p, m + 1, t)'
        BY <1>1, <1>4, <1>5, <3>4, <3>5, <3>6, PlaceLonger
    <3>8. Arrived' = Arrived /\ PlainText' = PlainText
        BY <1>1, <3>4, ArrivedSame DEF Writes
    <3>9. AtBlocks(m + 1, t)'
      <4>1. x <= m + 1
          BY <1>7, <3>3
      <4> QED
          BY <1>1, <1>5, <1>8, <3>4, <4>1 DEF AtBlocks
    <3>10. WritePlace'
        BY <1>1, <3>7, <3>9 DEF WritePlace
    <3> QED
        BY <1>1, <3>7, <3>8, <3>10
  <2> QED
      BY <2>2, <2>3
<1>14. WritePlace' /\ Arrived' = Arrived /\ Steady
    BY <1>12, <1>13
<1> QED
    BY <1>1, <1>14

-----------------------------------------------------------------------------
(* The filling of a block.                                                 *)

(* The inode is updated, the blocks are not.                               *)
LEMMA TargetUpdated ==
    ASSUME Intact, Context', pc \in Writes, pc' \in Writes, drive' = drive, job' = job,
           NEW ino \in Inode, ino.valid = 1, ino.ptrs = fr.info.ptrs, fr'.info.ptrs = fr.info.ptrs,
           disk' = [disk EXCEPT ![drive] = SetFileInfo(Here, job.name, ino)]
    PROVE  /\ Steady /\ DataSame(Here, Here')
           /\ \A p, m, t : Target(p, m, t) => Target(p, m, t)'
<1> DEFINE dk2 == SetFileInfo(Here, job.name, ino)
<1>1. Steady /\ DataSame(Here, dk2)
    BY StoreUpdate DEF Intact
<1>2. \A q \in Mine : InodeAt(dk2, q).ptrs = InodeAt(Here, q).ptrs
    BY InodeUpdated DEF Intact
<1> HIDE DEF dk2
<1>3. /\ Here \in Disk /\ Separate(Here, Mine) /\ drive \in Drives
      /\ disk \in [Drives -> Disk] /\ Here = disk[drive] /\ Mine = Settled(drive)
    BY ContextFacts DEF Intact, Here, Mine
<1>4. Here' = dk2 /\ disk'[drive] = dk2
    BY <1>3 DEF Here, dk2
<1>5. Mine' = Mine /\ TextSame(Here, dk2, Mine)
  <2>1. \A d \in Drives : d = drive => Settled(d)' = Settled(d)
      BY <1>1 DEF Steady, SameInodes
  <2>2. \A d \in Drives : TextSame(disk[d], disk'[d], Settled(d))
      BY <1>1 DEF Steady, SameTexts
  <2> QED
      BY <1>3, <1>4, <2>1, <2>2 DEF Mine
<1>6. ASSUME NEW p, NEW m, NEW t, Target(p, m, t) PROVE Target(p, m, t)'
  <2>1. /\ p \in Mine /\ NameAt(Here, p) = job.name /\ InodeAt(Here, p).ptrs = fr.info.ptrs
        /\ Holds(Here, InodeAt(Here, p), m, job.name, t)
      BY <1>6 DEF Target
  <2>2. Untouched(Here, dk2, InodeAt(Here, p))
      BY <1>1, <1>3, <2>1, DataUntouched DEF Separate, dk2
  <2>3. InodeAt(dk2, p).ptrs = InodeAt(Here, p).ptrs
      BY <1>2, <2>1
  <2>4. Holds(dk2, InodeAt(dk2, p), m, job.name, t)
      BY <2>1, <2>2, <2>3, HoldsSame
  <2>5. NameAt(dk2, p) = job.name
      BY <1>5, <2>1 DEF TextSame
  <2> QED
      BY <1>4, <1>5, <2>1, <2>3, <2>4, <2>5 DEF Target
<1>7. DataSame(Here, Here')
    BY <1>1, <1>4 DEF dk2
<1> QED
    BY <1>1, <1>6, <1>7

FillInfo == [fr.info EXCEPT !.size =
                (@ + FillCount(Block, fr.i = 0 /\ fr.j = 0, fr.left)) % WordRange]

LEMMA FillParts ==
    ASSUME Context, WriteFill
    PROVE  /\ pc = "blocks" /\ pc' = "data" /\ fr.j \in Cells /\ fr.buf[fr.j] # 0
           /\ UNCHANGED <<drive, job, payload>>
           /\ disk' = [disk EXCEPT ![drive] = SetFileInfo(Here, job.name, FillInfo)]
           /\ FillInfo \in Inode /\ FillInfo.valid = 1 /\ FillInfo.ptrs = fr.info.ptrs
           /\ fr'.info = FillInfo /\ fr'.i = fr.i /\ fr'.j = fr.j /\ fr'.buf = fr.buf
           /\ fr'.total = fr.total + FillCount(Block, fr.i = 0 /\ fr.j = 0, fr.left)
           /\ fr'.data = Fill(Block, fr.i = 0 /\ fr.j = 0, payload, fr.total,
                              FillCount(Block, fr.i = 0 /\ fr.j = 0, fr.left))
<1> DEFINE n == FillCount(Block, fr.i = 0 /\ fr.j = 0, fr.left)
<1>1. /\ pc = "blocks" /\ pc' = "data" /\ fr.j < WordsPerSector /\ fr.buf[fr.j] # 0
      /\ UNCHANGED <<drive, job, payload>>
      /\ fr' = [fr EXCEPT !.info = FillInfo, !.left = @ - n, !.total = @ + n,
                  !.data = Fill(Block, fr.i = 0 /\ fr.j = 0, payload, fr.total, n)]
      /\ disk' = [disk EXCEPT ![drive] = SetFileInfo(Here, job.name, FillInfo)]
    BY DEF WriteFill, AtBlock, Here, FillInfo, program
<1>2. /\ fr \in Frame /\ fr.info \in Inode /\ fr.info.valid = 1 /\ fr.j \in Cells
      /\ fr.left \in Int
    BY <1>1, WritesFacts, DiskAssumption DEF Writes, Frame, Cells
<1>3. FillInfo \in Inode /\ FillInfo.valid = 1 /\ FillInfo.ptrs = fr.info.ptrs
  <2>1. n \in Nat
    <3>1. Here \in Disk /\ fr.buf[fr.j] \in DataArea
        BY <1>1, <1>2, LoopFacts, ContextFacts
    <3>2. Block \in Sector
        BY <3>1, DataOutside DEF Block, ReadSector, Here, Disk
    <3> QED
        BY <1>2, <3>2, FillCountType
  <2>2. fr.info.size \in Nat
      BY <1>2 DEF Inode
  <2>3. FillInfo = [fr.info EXCEPT !.size = (@ + n) % WordRange]
      BY DEF FillInfo
  <2> HIDE DEF n
  <2>4. (fr.info.size + n) % WordRange \in Nat
      BY <2>1, <2>2, DiskAssumption
  <2> QED
      BY <1>2, <2>3, <2>4 DEF Inode
<1> HIDE DEF n
<1>4. /\ fr'.info = FillInfo /\ fr'.i = fr.i /\ fr'.j = fr.j /\ fr'.buf = fr.buf
      /\ fr'.total = fr.total + n
      /\ fr'.data = Fill(Block, fr.i = 0 /\ fr.j = 0, payload, fr.total, n)
    BY <1>1, <1>2 DEF Frame
<1> QED
    BY <1>1, <1>2, <1>3, <1>4 DEF n

LEMMA PlaceFill ==
    ASSUME Intact, Context', WritePlace, WriteFill
    PROVE  /\ pc = "blocks" /\ pc' = "data" /\ WritePlace' /\ Arrived' = Arrived
           /\ Steady /\ UNCHANGED <<payload, job, drive>>
<1> DEFINE first == fr.i = 0 /\ fr.j = 0
           cnt   == FillCount(Block, first, fr.left)
           l     == Len(PlainText)
           u     == Cardinality({c \in Cells : fr'.data[c] # Block[c]})
<1>1. /\ pc = "blocks" /\ pc' = "data" /\ fr.j \in Cells /\ fr.buf[fr.j] # 0
      /\ UNCHANGED <<drive, job, payload>>
      /\ disk' = [disk EXCEPT ![drive] = SetFileInfo(Here, job.name, FillInfo)]
      /\ FillInfo \in Inode /\ FillInfo.valid = 1 /\ FillInfo.ptrs = fr.info.ptrs
      /\ fr'.info = FillInfo /\ fr'.i = fr.i /\ fr'.j = fr.j /\ fr'.buf = fr.buf
      /\ fr'.total = fr.total + cnt
      /\ fr'.data = Fill(Block, first, payload, fr.total, cnt)
    BY FillParts DEF Intact
<1>2. pc \in Writes /\ pc' \in Writes
    BY <1>1 DEF Writes
<1>3. PICK p, m, t : Target(p, m, t) /\ AtBlocks(m, t)
    BY <1>1 DEF WritePlace
<1>4. /\ fr.i = 0 /\ fr.j <= m
      /\ fr.total < l => Within(job.name, t, fr.j)
    BY <1>3 DEF AtBlocks
<1>5. fr.j < m /\ fr.j \in Nat
  <2>1. \A c \in Cells : fr.buf[c] # 0 <=> c < m
      BY <1>1, <1>3, <1>4, TargetWords DEF Intact
  <2> QED
      BY <1>1, <2>1 DEF Cells
<1>6. BlockOf(job.name, t, fr.j, Block)
    BY <1>1, <1>3, <1>4, <1>5, TargetCell DEF Intact, Block, Here
<1>7. job.name \in Seq(Nat) /\ IsName(job.name) /\ t \in Texts
    BY <1>3 DEF Target, Holds
<1>8. /\ payload \in Seq(Nat) /\ TextFront(payload, l)
      /\ fr.total \in Nat /\ fr.left \in Int /\ Max({fr.left, 0}) = Len(payload) - fr.total
    BY <1>2, PlainTextIs, CountIs
<1>9. first <=> fr.j = 0
    BY <1>4
<1>10. Steady /\ DataSame(Here, Here') /\ Target(p, m, t)'
  <2>1. fr'.info.ptrs = fr.info.ptrs
      BY <1>1
  <2> QED
      BY <1>1, <1>2, <1>3, <2>1, TargetUpdated
<1>11. Block' = Block
  <2>1. fr.buf[fr.j] \in DataArea
      BY <1>1, LoopFacts DEF Intact
  <2>2. Block = ReadSector(Here, fr.buf[fr.j]) /\ Block' = ReadSector(Here', fr.buf[fr.j])
      BY <1>1 DEF Block, Here
  <2> QED
      BY <1>10, <2>1, <2>2 DEF DataSame
<1> HIDE DEF first, cnt
<1>12. /\ cnt \in Nat /\ Sent \in Nat /\ u \in Nat /\ Sent + u <= l
       /\ Min({fr.total + cnt, l}) = Sent + u
       /\ Grown(job.name, t, SubSeq(PlainText, Sent + 1, Sent + u), fr.j, fr'.data,
                fr.total + cnt < l)
  <2>1. Appended(job.name, t, fr.j, Block, Fill(Block, first, payload, fr.total, cnt),
                 payload, l, fr.total, cnt)
    <3>1. cnt = FillCount(Block, first, fr.left)
        BY DEF cnt
    <3> HIDE DEF l
    <3>2. fr.total < l => Within(job.name, t, fr.j)
        BY <1>4 DEF l
    <3>3. TextFront(payload, l)
        BY <1>8 DEF l
    <3> QED
        BY <1>5, <1>6, <1>7, <1>8, <1>9, <3>1, <3>2, <3>3, FillAppends
  <2> QED
      BY <1>1, <2>1 DEF Appended, Sent, PlainText
<1>13. PlainText' = PlainText /\ Sent' = Sent + u /\ Unsaved' = u
    BY <1>1, <1>11, <1>12 DEF PlainText, Sent, Unsaved
<1> HIDE DEF u
<1>14. Piece' = SubSeq(PlainText, Sent + 1, Sent + u)
  <2>1. (Sent + u) - u + 1 = Sent + 1
      BY <1>12
  <2> QED
      BY <1>13, <2>1 DEF Piece
<1>15. Arrived' = Arrived
    BY <1>1, <1>12, <1>13 DEF Arrived
<1>16. AtData(m, t)'
  <2>1. Unsaved' \in Nat /\ Unsaved' <= Sent'
      BY <1>12, <1>13
  <2>2. Grown(job'.name, t, Piece', fr'.j, fr'.data, fr'.total < Len(PlainText'))
      BY <1>1, <1>12, <1>13, <1>14
  <2>3. fr'.i = 0 /\ fr'.j < m
      BY <1>1, <1>4, <1>5
  <2> QED
      BY <2>1, <2>2, <2>3 DEF AtData
<1>17. WritePlace'
    BY <1>1, <1>10, <1>16 DEF WritePlace
<1> QED
    BY <1>1, <1>10, <1>15, <1>17

-----------------------------------------------------------------------------
(* A piece of the text reaches the disk.                                   *)

(* Only the text of entry p changes: the piece x is appended.              *)
PieceAdded(p, x) ==
    /\ p \in Mine /\ NameAt(Here, p) = job.name /\ NameAt(Here', p) = job.name
    /\ Text(Here', InodeAt(Here', p)) = Text(Here, InodeAt(Here, p)) \o x
    /\ TextSame(Here, Here', Mine \ {p})
    /\ \A d \in Drives : d # drive => disk'[d] = disk[d]

LEMMA DataParts ==
    ASSUME Intact, WriteData, Spared
    PROVE  /\ pc = "data" /\ pc' \in {"blocks", "size"} /\ UNCHANGED <<drive, job, payload>>
           /\ Write(fr.buf[fr.j], fr.data)
           /\ fr'.info = fr.info /\ fr'.i = fr.i /\ fr'.total = fr.total
           /\ pc' = "blocks" => fr'.j = fr.j + 1
<1>1. /\ pc = "data" /\ UNCHANGED <<drive, job, payload>> /\ Write(fr.buf[fr.j], fr.data)
    BY DEF WriteData, program
<1>2. pc' # "chain"
    BY DEF Spared
<1>3. IF Done THEN pc' = "size" /\ UNCHANGED fr ELSE pc' = "blocks" /\ fr' = [fr EXCEPT !.j = @ + 1]
    BY <1>2 DEF WriteData
<1>4. fr \in Frame
    BY <1>1, WritesFacts DEF Intact, Writes
<1>5. CASE Done
    BY <1>1, <1>3, <1>5
<1>6. CASE ~Done
  <2>1. fr' = [fr EXCEPT !.j = @ + 1] /\ pc' = "blocks"
      BY <1>3, <1>6
  <2>2. fr'.info = fr.info /\ fr'.i = fr.i /\ fr'.total = fr.total /\ fr'.j = fr.j + 1
      BY <1>4, <2>1 DEF Frame
  <2> QED
      BY <1>1, <2>1, <2>2
<1> QED
    BY <1>5, <1>6

LEMMA PlaceData ==
    ASSUME Intact, Context', WritePlace, WriteData, Spared
    PROVE  /\ pc = "data" /\ pc' \in {"blocks", "size"} /\ WritePlace'
           /\ FilesPacked' /\ BlocksClean' /\ SameInodes
           /\ UNCHANGED <<payload, job, drive>>
           /\ Unsaved \in Nat /\ Unsaved <= Sent /\ Arrived' = Sent /\ Arrived = Sent - Unsaved
           /\ \E p : PieceAdded(p, Piece)
<1>1. /\ pc = "data" /\ pc' \in {"blocks", "size"} /\ UNCHANGED <<drive, job, payload>>
      /\ Write(fr.buf[fr.j], fr.data)
      /\ fr'.info = fr.info /\ fr'.i = fr.i /\ fr'.total = fr.total
      /\ pc' = "blocks" => fr'.j = fr.j + 1
    BY DataParts
<1>2. pc \in Writes /\ pc' \in Writes
    BY <1>1 DEF Writes
<1>3. PICK p, m, t : Target(p, m, t) /\ AtData(m, t)
    BY <1>1 DEF WritePlace
<1>4. /\ fr.i = 0 /\ fr.j < m /\ Unsaved \in Nat /\ Unsaved <= Sent
      /\ Grown(job.name, t, Piece, fr.j, fr.data, fr.total < Len(PlainText))
    BY <1>3 DEF AtData
<1>5. /\ p \in Mine /\ NameAt(Here, p) = job.name /\ InodeAt(Here, p).ptrs = fr.info.ptrs
      /\ Holds(Here, InodeAt(Here, p), m, job.name, t)
    BY <1>3 DEF Target
<1>6. /\ Here \in Disk /\ Separate(Here, Mine) /\ drive \in Drives
      /\ disk \in [Drives -> Disk] /\ Mine \in SUBSET Entries(Here) /\ Here = disk[drive]
    BY ContextFacts DEF Intact, Here
<1>7. fr \in Frame /\ fr.data \in Sector
    BY <1>2, WritesFacts DEF Intact, Frame
<1>8. /\ fr.j \in Cells /\ fr.buf[fr.j] # 0
      /\ fr.j = 0 => Prefix(fr.data) = Prefix(Here[fr.buf[fr.j]])
    BY <1>1, <1>4 DEF Intact, Context, Owned, InWrite
<1>9. /\ fr.buf[fr.j] = Claim(Here, InodeAt(Here, p), 0, fr.j)
      /\ m \in 1 .. WordsPerSector
    BY <1>1, <1>3, <1>4, <1>8, TargetWords DEF Intact
<1>10. fr.buf[fr.j] \in DataArea
    BY <1>1, <1>8, LoopFacts DEF Intact
<1>11. Piece \in Texts
  <2>1. PlainText \in Texts /\ Sent \in Nat /\ Sent <= Len(PlainText)
      BY <1>2, PlainTextIs, CountIs
  <2>2. Sent - Unsaved \in Nat /\ Sent - Unsaved <= Sent
      BY <1>4, <2>1
  <2> QED
      BY <2>1, <2>2, PieceOf DEF Piece
<1> DEFINE dk2 == WriteSector(Here, fr.buf[fr.j], fr.data)
<1>12. /\ Clean(dk2) /\ Entries(dk2) = Entries(Here)
       /\ \A q \in Entries(Here) : InodeAt(dk2, q) = InodeAt(Here, q)
       /\ \A q \in Mine : NameAt(dk2, q) = NameAt(Here, q)
       /\ \A q \in Mine : q # p => Untouched(Here, dk2, InodeAt(Here, q))
       /\ Holds(dk2, InodeAt(dk2, p), m, job.name, t \o Piece)
  <2>1. Clean(Here)
      BY <1>6 DEF Intact, BlocksClean
  <2> QED
      BY <1>4, <1>5, <1>6, <1>7, <1>8, <1>9, <1>10, <1>11, <2>1, PieceWritten
<1>13. disk' = [disk EXCEPT ![drive] = dk2]
    BY <1>1 DEF Write, Here
<1> HIDE DEF dk2
<1>14. /\ FilesPacked' /\ BlocksClean' /\ SameInodes /\ Here' = dk2 /\ Mine' = Mine
       /\ NameAt(dk2, p) = NameAt(Here, p) /\ Text(dk2, InodeAt(dk2, p)) = t \o Piece
       /\ TextSame(Here, dk2, Mine \ {p})
       /\ \A d \in Drives : d # drive => disk'[d] = disk[d]
    BY <1>1, <1>2, <1>5, <1>12, <1>13, FileWritten DEF Intact
<1>15. Text(Here, InodeAt(Here, p)) = t
  <2>1. InodeAt(Here, p) \in Inode
      BY <1>5, <1>6, EntryInode
  <2> QED
      BY <1>5, <1>6, <2>1, HeldText
<1>16. PieceAdded(p, Piece)
    BY <1>5, <1>14, <1>15 DEF PieceAdded
<1>17. PlainText' = PlainText /\ Sent' = Sent
    BY <1>1 DEF PlainText, Sent
<1>18. Arrived' = Sent /\ Arrived = Sent - Unsaved
  <2>1. Sent \in Nat
      BY <1>2, CountIs
  <2> QED
      BY <1>1, <1>17, <2>1 DEF Arrived
<1>19. PICK t2 : t2 = t \o Piece
    OBVIOUS
<1>20. Target(p, m, t2)'
  <2>1. p \in Mine' /\ NameAt(Here', p) = job'.name /\ InodeAt(Here', p).ptrs = fr'.info.ptrs
      BY <1>1, <1>5, <1>6, <1>12, <1>14
  <2>2. Holds(Here', InodeAt(Here', p), m, job'.name, t2)
      BY <1>1, <1>12, <1>14, <1>19
  <2> QED
      BY <2>1, <2>2 DEF Target
<1>21. pc' = "blocks" => AtBlocks(m, t2)'
  <2> SUFFICES ASSUME pc' = "blocks" PROVE AtBlocks(m, t2)'
      OBVIOUS
  <2>1. fr'.j = fr.j + 1 /\ fr.j + 1 <= m
      BY <1>1, <1>4, <1>8, <1>9 DEF Cells
  <2>2. fr.total < Len(PlainText) => Within(job.name, t2, fr.j + 1)
      BY <1>4, <1>19 DEF Grown
  <2> QED
      BY <1>1, <1>4, <1>17, <2>1, <2>2 DEF AtBlocks
<1>22. WritePlace'
    BY <1>1, <1>20, <1>21 DEF WritePlace
<1> QED
    BY <1>1, <1>4, <1>14, <1>16, <1>18, <1>22

-----------------------------------------------------------------------------
(* The text that has still to reach the file.                              *)

LEMMA PendingIs == PendingText = SubSeq(PlainText, Arrived + 1, Len(PlainText))
  BY DEF PendingText, PlainText, Arrived, Sent, Unsaved

LEMMA TextEqual ==
    ASSUME NEW s \in Texts, NEW t \in Texts, NEW n \in Nat, Len(s) = n, Len(t) = n,
           \A k \in 1 .. n : s[k] = t[k]
    PROVE  s = t
  BY DEF Texts

LEMMA SplitAt ==
    ASSUME NEW s \in Texts, NEW n \in Nat, n <= Len(s)
    PROVE  /\ SubSeq(s, 1, n) \in Texts /\ Len(SubSeq(s, 1, n)) = n
           /\ \A k \in 1 .. n : SubSeq(s, 1, n)[k] = s[k]
           /\ SubSeq(s, n + 1, Len(s)) \in Texts
           /\ Len(SubSeq(s, n + 1, Len(s))) = Len(s) - n
           /\ \A k \in 1 .. Len(s) - n : SubSeq(s, n + 1, Len(s))[k] = s[n + k]
<1>1. Len(s) \in Nat /\ Len(s) <= Len(s) /\ 0 \in Nat /\ 0 <= n
    BY DEF Texts
<1>2. /\ SubSeq(s, 0 + 1, n) \in Texts /\ Len(SubSeq(s, 0 + 1, n)) = n - 0
      /\ \A k \in 1 .. n - 0 : SubSeq(s, 0 + 1, n)[k] = s[0 + k]
    BY <1>1, PieceOf
<1>3. 0 + 1 = 1 /\ n - 0 = n
    OBVIOUS
<1>4. \A k \in 1 .. n : 0 + k = k
    OBVIOUS
<1>5. /\ SubSeq(s, n + 1, Len(s)) \in Texts
      /\ Len(SubSeq(s, n + 1, Len(s))) = Len(s) - n
      /\ \A k \in 1 .. Len(s) - n : SubSeq(s, n + 1, Len(s))[k] = s[n + k]
    BY <1>1, PieceOf
<1> QED
    BY <1>2, <1>3, <1>4, <1>5

SplitsAt(rest, T, a, b) ==
    /\ rest \in Texts /\ Len(rest) = Len(T) - a
    /\ SubSeq(rest, 1, b - a) = SubSeq(T, a + 1, b)
    /\ SubSeq(rest, (b - a) + 1, Len(rest)) = SubSeq(T, b + 1, Len(T))

LEMMA RestSplit ==
    ASSUME NEW T \in Texts, NEW a \in Nat, NEW b \in Nat, a <= b, b <= Len(T),
           NEW rest, rest = SubSeq(T, a + 1, Len(T))
    PROVE  SplitsAt(rest, T, a, b)
<1>0. Len(T) \in Nat
    BY DEF Texts
<1>1. /\ rest \in Texts /\ Len(rest) = Len(T) - a
      /\ \A k \in 1 .. Len(T) - a : rest[k] = T[a + k]
    BY <1>0, PieceOf
<1>2. b - a \in Nat /\ b - a <= Len(rest) /\ Len(rest) \in Nat /\ 0 \in Nat
    BY <1>0, <1>1
<1> DEFINE x == SubSeq(rest, 1, b - a)
           y == SubSeq(T, a + 1, b)
           u == SubSeq(rest, (b - a) + 1, Len(rest))
           v == SubSeq(T, b + 1, Len(T))
<1>3. /\ x \in Texts /\ Len(x) = b - a
      /\ \A k \in 1 .. b - a : x[k] = rest[k]
    BY <1>1, <1>2, SplitAt
<1>4. /\ y \in Texts /\ Len(y) = b - a
      /\ \A k \in 1 .. b - a : y[k] = T[a + k]
    BY PieceOf
<1>5. /\ u \in Texts /\ Len(u) = Len(rest) - (b - a)
      /\ \A k \in 1 .. Len(rest) - (b - a) : u[k] = rest[(b - a) + k]
    BY <1>1, <1>2, SplitAt
<1>6. /\ v \in Texts /\ Len(v) = Len(T) - b
      /\ \A k \in 1 .. Len(T) - b : v[k] = T[b + k]
    BY <1>0, PieceOf
<1> HIDE DEF x, y, u, v
<1>7. x = y
  <2>1. \A k \in 1 .. b - a : x[k] = y[k]
      BY <1>0, <1>1, <1>3, <1>4
  <2> QED
      BY <1>2, <1>3, <1>4, <2>1, TextEqual
<1>8. u = v
  <2>1. Len(rest) - (b - a) = Len(T) - b
      BY <1>0, <1>1
  <2>2. \A k \in 1 .. Len(T) - b : u[k] = v[k]
    <3> SUFFICES ASSUME NEW k \in 1 .. Len(T) - b PROVE u[k] = v[k]
        OBVIOUS
    <3>1. (b - a) + k \in 1 .. Len(T) - a /\ a + ((b - a) + k) = b + k
        BY <1>0
    <3> QED
        BY <1>1, <1>5, <1>6, <2>1, <3>1
  <2> QED
    <3>1. Len(T) - b \in Nat
        BY <1>0
    <3> QED
        BY <1>5, <1>6, <2>1, <2>2, <3>1, TextEqual
<1> QED
    BY <1>1, <1>7, <1>8 DEF x, y, u, v, SplitsAt

LEMMA ArrivedIs ==
    ASSUME Intact, WritePlace, pc \in {"pointers", "blocks", "data", "size"}
    PROVE  Arrived \in Nat /\ Arrived <= Len(PlainText)
<1>1. pc \in Writes
    BY DEF Writes
<1>2. Sent \in Nat /\ Sent <= Len(PlainText) /\ Len(PlainText) \in Nat
    BY <1>1, CountIs, PlainTextIs
<1>3. CASE pc = "data"
  <2>1. Unsaved \in Nat /\ Unsaved <= Sent
      BY <1>3 DEF WritePlace, AtData
  <2> QED
      BY <1>2, <1>3, <2>1 DEF Arrived
<1> QED
    BY <1>2, <1>3 DEF Arrived

LEMMA PendingSame ==
    ASSUME PlainText' = PlainText, Arrived' = Arrived
    PROVE  PendingText' = PendingText
<1>1. (PendingText = SubSeq(PlainText, Arrived + 1, Len(PlainText)))'
    BY PendingIs, PTL
<1> QED
    BY <1>1, PendingIs

LEMMA PlaceSize ==
    ASSUME Intact, Context', WriteSize
    PROVE  /\ pc = "size" /\ pc' = "written" /\ Steady /\ PendingText = <<>>
           /\ UNCHANGED <<payload, job, drive>>
<1>1. pc = "size" /\ pc' = "written" /\ UNCHANGED <<payload, job, drive>>
    BY DEF WriteSize, program
<1>2. Steady
    BY StoreSize DEF Intact
<1>3. /\ PlainText \in Texts /\ Len(PlainText) \in Nat
      /\ Len(PlainText) <= Len(payload) /\ payload \in Seq(Nat)
    BY PlainTextIs
<1>4. /\ fr.total \in Nat /\ fr.left \in Int /\ Max({fr.left, 0}) = Len(payload) - fr.total
      /\ Sent = (IF fr.total <= Len(PlainText) THEN fr.total ELSE Len(PlainText))
    BY <1>1, CountIs DEF Writes
<1>5. fr.left <= 0
    BY <1>1 DEF Intact, Counted, Done
<1>6. Max({fr.left, 0}) = 0
  <2>1. Max({fr.left, 0}) = IF fr.left >= 0 THEN fr.left ELSE 0
      BY <1>4, MaxOfTwo
  <2> QED
      BY <1>4, <1>5, <2>1
<1>7. Len(payload) \in Nat
    BY <1>3
<1>8. Sent = Len(PlainText)
    BY <1>3, <1>4, <1>6, <1>7
<1>9. Arrived = Len(PlainText)
    BY <1>1, <1>3, <1>8 DEF Arrived
<1>10. SubSeq(PlainText, Len(PlainText) + 1, Len(PlainText)) = <<>>
  <2>1. /\ SubSeq(PlainText, Len(PlainText) + 1, Len(PlainText)) \in Texts
        /\ Len(SubSeq(PlainText, Len(PlainText) + 1, Len(PlainText))) = Len(PlainText) - Len(PlainText)
      BY <1>3, PieceOf
  <2> QED
      BY <1>3, <2>1 DEF Texts
<1> QED
    BY <1>1, <1>2, <1>9, <1>10, PendingIs

-----------------------------------------------------------------------------
(* What every step of the writes and of the other calls keeps.             *)

StoreInv == Intact /\ CopyMade /\ FormatsShown /\ JobKnown /\ WritePlace

FormatSteps == Format \/ FormatSuperblock \/ FormatInodes
Placing     == WriteCall \/ WritePointer \/ WriteAllocate \/ WriteFull \/ WriteFill \/ WriteData

(* Where the control can come from.                                        *)
LEMMA PcMoves ==
    ASSUME Intact, [Next /\ Spared]_vars
    PROVE  /\ pc' = "zero" => CreateImage \/ UNCHANGED vars
           /\ pc' \in Formats => FormatSteps \/ UNCHANGED vars
           /\ pc' \in {"pointers", "blocks", "data"} =>
                 Placing \/ WriteNextPointer \/ UNCHANGED vars
<1> DEFINE plain == pc' \notin {"zero", "super", "inodes", "pointers", "blocks", "data"}
<1>1. Context /\ FilesPacked /\ BlocksClean
    BY DEF Intact
<1>2. ASSUME Boot \/ Exit \/ SelectDrive \/ Fetch \/ Retry \/ \E j \in Commands : Execute(j)
      PROVE  plain
  <2>1. CASE Boot
      BY <1>1, <2>1, StoreBoot
  <2>2. CASE Exit \/ SelectDrive \/ Fetch \/ Retry
      BY <2>2 DEF Exit, SelectDrive, Fetch, Retry, Calling, Return
  <2>3. CASE \E j \in Commands : Execute(j)
      BY <2>3 DEF Execute
  <2> QED
      BY <1>2, <2>1, <2>2, <2>3
<1>3. ASSUME FileCreate PROVE CreateImage \/ plain
  <2>1. CASE Create
    <3>1. PICK info \in Lookup("create", job.name) :
              CreateFound(info) \/ CreateNone(info) \/ CreateNew(info)
        BY <2>1, CreateParts
    <3> QED
        BY <3>1 DEF CreateFound, CreateNone, CreateNew, CreateInode, Return
  <2>2. CASE CreateZero \/ CreatePointer \/ CreateName \/ CreateSave
      BY <2>2 DEF CreateZero, CreatePointer, CreateName, CreateSave, Return
  <2> QED
      BY <1>3, <2>1, <2>2 DEF FileCreate
<1>4. ASSUME FileDelete PROVE plain
  <2>1. CASE Delete
    <3>1. PICK info \in Lookup("delete", job.name) : DeleteNone(info) \/ DeleteFound(info)
        BY <2>1, DeleteParts
    <3> QED
        BY <3>1 DEF DeleteNone, DeleteFound, Return
  <2>2. CASE DeleteLoad \/ DeleteSave
      BY <2>2 DEF DeleteLoad, DeleteSave, Return
  <2>3. CASE DeleteWipe
      BY <2>3, WipeParts DEF WipeNothing, WipeBlock
  <2> QED
      BY <1>4, <2>1, <2>2, <2>3 DEF FileDelete
<1>5. ASSUME FileWrite PROVE Placing \/ WriteNextPointer \/ plain
  <2>1. CASE WriteSize \/ WriteSave
      BY <2>1 DEF WriteSize, WriteSave, Return
  <2>2. ~WriteChain
      BY <1>1, OwnedWriteChain
  <2> QED
      BY <1>5, <2>1, <2>2 DEF FileWrite, Placing
<1>6. ASSUME Placing \/ WriteNextPointer
      PROVE  pc' \notin {"zero", "super", "inodes"}
  <2>1. CASE WriteCall
    <3>1. PICK info \in Lookup("write", job.name) : WriteNone(info) \/ WriteFound(info)
        BY <2>1, WriteCallParts
    <3> QED
        BY <3>1 DEF WriteNone, WriteFound, Return
  <2>2. CASE WritePointer \/ WriteNextPointer
      BY <2>2 DEF WritePointer, WriteNextPointer
  <2>3. CASE WriteAllocate \/ WriteFull
      BY <2>3 DEF WriteAllocate, WriteFull, AtBlock
  <2>4. CASE WriteFill
      BY <1>1, <2>4, FillParts
  <2>5. CASE WriteData
      BY <2>5 DEF WriteData
  <2> QED
      BY <1>6, <2>1, <2>2, <2>3, <2>4, <2>5 DEF Placing
<1>7. ASSUME FormatDisk
      PROVE  FormatSteps /\ pc' \notin {"zero", "pointers", "blocks", "data"}
    BY <1>7 DEF FormatDisk, FormatSteps, Format, FormatSuperblock, FormatInodes, Return
<1>8. ASSUME CreateImage PROVE pc' \notin {"super", "inodes", "pointers", "blocks", "data"}
    BY <1>8 DEF CreateImage
<1>9. \/ UNCHANGED vars
      \/ (Boot \/ Exit \/ SelectDrive \/ Fetch \/ Retry \/ \E j \in Commands : Execute(j))
      \/ FileCreate \/ FileDelete \/ FileWrite \/ FormatDisk
  <2>1. ASSUME Crash, Spared PROVE FALSE
      BY <1>1, <2>1, NoCrash
  <2> QED
      BY <2>1 DEF Next, Step, Look
<1> HIDE DEF plain
<1>10. plain => /\ pc' # "zero" /\ pc' \notin Formats
                /\ pc' \notin {"pointers", "blocks", "data"}
    BY DEF plain, Formats
<1>11. Formats = {"super", "inodes"}
    BY DEF Formats
<1> QED
    BY <1>2, <1>3, <1>4, <1>5, <1>6, <1>7, <1>8, <1>9, <1>10, <1>11

LEMMA CopyMadeNext == Intact /\ CopyMade /\ [Next /\ Spared]_vars => CopyMade'
<1> SUFFICES ASSUME Intact, CopyMade, [Next /\ Spared]_vars, pc' = "zero" PROVE CopyMade'
    BY DEF CopyMade
<1>1. CASE CreateImage
    BY <1>1, StoreCreateImage DEF Intact
<1>2. CASE UNCHANGED vars
    BY <1>2 DEF vars, CopyMade, Here
<1> QED
    BY <1>1, <1>2, PcMoves

LEMMA FormatsNext == Intact /\ Context' /\ FormatsShown /\ [Next /\ Spared]_vars => FormatsShown'
<1> SUFFICES ASSUME Intact, Context', FormatsShown, [Next /\ Spared]_vars, pc' \in Formats
             PROVE  FormatsShown'
    BY DEF FormatsShown
<1>1. CASE Format \/ FormatSuperblock
    BY <1>1, StoreFormatSame DEF Intact
<1>2. CASE FormatInodes
    BY <1>2, StoreFormatInodes DEF Intact
<1>3. CASE UNCHANGED vars
    BY <1>3 DEF vars, FormatsShown, Here
<1> QED
    BY <1>1, <1>2, <1>3, PcMoves DEF FormatSteps

LEMMA WritePlaceNext ==
    ASSUME Intact, Context', WritePlace, WordsSuffice, "write" \notin StaleCalls,
           [Next /\ Spared]_vars
    PROVE  WritePlace'
<1> SUFFICES ASSUME pc' \in {"pointers", "blocks", "data"} PROVE WritePlace'
    BY DEF WritePlace
<1>1. CASE UNCHANGED vars
    BY <1>1
    DEF vars, WritePlace, Target, AtBlocks, AtData, Here, Mine, Settled, Sent, Unsaved, Piece,
        PlainText, Block
<1>2. CASE WriteNextPointer
    BY <1>2, PlaceNextPointer
<1>3. ASSUME Placing, ~UNCHANGED vars PROVE WritePlace'
  <2>1. Spared
      BY <1>3
  <2>2. CASE WriteCall
      BY <2>2, PlaceCall
  <2>3. CASE WritePointer
      BY <2>3, PlacePointer
  <2>4. CASE WriteAllocate
      BY <2>1, <2>4, PlaceAllocate
  <2>5. CASE WriteFull
      BY <2>1, <2>5, PlaceFull
  <2>6. CASE WriteFill
      BY <2>6, PlaceFill
  <2>7. CASE WriteData
      BY <2>1, <2>7, PlaceData
  <2> QED
      BY <1>3, <2>2, <2>3, <2>4, <2>5, <2>6, <2>7 DEF Placing
<1> QED
    BY <1>1, <1>2, <1>3, PcMoves

LEMMA NameKnown == JobKnown /\ pc \notin {"off", "shell"} => job.name \in Names
  BY DEF JobKnown, Names

LEMMA SeeableNext ==
    ASSUME Intact, HalfMade', Context', CopyMade', pc' \notin Formats
    PROVE  Seeable'
  BY DEF Seeable

LEMMA FilesNext ==
    ASSUME StoreInv, Context', CopyMade', HalfMade, HalfMade', [Next /\ Spared]_vars
    PROVE  FilesPacked' /\ BlocksClean'
<1>0. /\ Context /\ FilesPacked /\ BlocksClean /\ Intact /\ CopyMade /\ FormatsShown
      /\ JobKnown /\ WritePlace
    BY DEF StoreInv, Intact
<1> DEFINE kept == FilesPacked' /\ BlocksClean'
<1>1. Steady => kept
    BY DEF Steady
<1> HIDE DEF kept
<1>2. ASSUME Quiet \/ UNCHANGED vars PROVE kept
    BY <1>0, <1>1, <1>2, StoreQuiet
<1>3. ASSUME Next, Spared PROVE kept
  <2>1. CASE Boot
      BY <1>0, <1>1, <2>1, StoreBoot
  <2>2. CASE Create
      BY <1>0, <1>1, <1>3, <2>2, StoreCreate
  <2>3. CASE CreateImage
      BY <1>0, <1>1, <2>3, StoreCreateImage
  <2>4. CASE CreateZero \/ CreatePointer
      BY <1>0, <1>1, <2>4, StoreCreateBlock
  <2>5. CASE CreateName \/ Delete
    <3>1. /\ pc \notin {"off", "shell"} \union Formats
          /\ pc' \notin Formats
      <4>1. pc \notin {"off", "shell"} \union Formats
          BY <2>5 DEF CreateName, Delete, Calling, Formats
      <4>2. pc' \notin Formats
        <5>1. CASE CreateName
            BY <5>1 DEF CreateName, Formats
        <5>2. CASE Delete
          <6>1. PICK info \in Lookup("delete", job.name) : DeleteNone(info) \/ DeleteFound(info)
              BY <5>2, DeleteParts
          <6> QED
              BY <6>1 DEF DeleteNone, DeleteFound, Return, Formats
        <5> QED
            BY <2>5, <5>1, <5>2
      <4> QED
          BY <4>1, <4>2
    <3>2. Seeable /\ Seeable' /\ job.name \in Names
      <4>1. Seeable
          BY <1>0, <3>1 DEF Seeable
      <4>2. Seeable'
          BY <1>0, <3>1, SeeableNext
      <4> QED
          BY <1>0, <3>1, <4>1, <4>2, NameKnown
    <3>3. CASE CreateName
        BY <1>0, <3>2, <3>3, StoreCreateName DEF kept
    <3>4. CASE Delete
        BY <1>0, <3>2, <3>4, StoreDelete DEF kept
    <3> QED
        BY <2>5, <3>3, <3>4
  <2>6. CASE CreateSave \/ DeleteSave \/ WriteSave
      BY <1>0, <1>1, <2>6, StoreSave
  <2>7. CASE DeleteWipe
      BY <1>0, <1>1, <2>7, StoreWipe
  <2>8. CASE WriteAllocate
      BY <1>0, <1>1, <1>3, <2>8, PlaceAllocate
  <2>9. CASE WriteFull
      BY <1>0, <1>1, <1>3, <2>9, PlaceFull
  <2>10. CASE WriteFill \/ WriteSize
      BY <1>0, <1>1, <2>10, StoreFill, StoreSize
  <2>11. CASE WriteData
      BY <1>0, <1>3, <2>11, PlaceData DEF kept
  <2>12. CASE Format \/ FormatSuperblock
      BY <1>0, <1>1, <2>12, StoreFormat
  <2>13. CASE FormatInodes
      BY <1>0, <2>13, StoreFormatInodes DEF kept
  <2>14. CASE Crash
      BY <1>0, <1>3, <2>14, NoCrash
  <2>15. CASE WriteChain
      BY <1>0, <2>15, OwnedWriteChain
  <2> QED
    <3>1. CASE Step
      <4>1. CASE FileCreate
          BY <2>2, <2>3, <2>4, <2>5, <2>6, <4>1 DEF FileCreate
      <4>2. CASE FileDelete
          BY <1>2, <2>5, <2>6, <2>7, <4>2 DEF FileDelete, Quiet
      <4>3. CASE FileWrite
          BY <1>2, <2>6, <2>8, <2>9, <2>10, <2>11, <2>15, <4>3 DEF FileWrite, Quiet
      <4>4. CASE FormatDisk
          BY <2>12, <2>13, <4>4 DEF FormatDisk
      <4> QED
          BY <1>2, <2>1, <3>1, <4>1, <4>2, <4>3, <4>4 DEF Step, Quiet
    <3> QED
        BY <1>2, <1>3, <2>14, <3>1 DEF Next, Quiet
<1> QED
  <2>1. (Next /\ Spared) \/ UNCHANGED vars
      OBVIOUS
  <2> QED
      BY <1>2, <1>3, <2>1 DEF kept

LEMMA StoreInvNext ==
    ASSUME StoreInv, HalfMade, HalfMade', WordsSuffice, TypedText, "write" \notin StaleCalls,
           [Next /\ Spared]_vars
    PROVE  StoreInv'
<1>1. /\ Context /\ FilesPacked /\ BlocksClean /\ PayloadText /\ Counted
      /\ Intact /\ CopyMade /\ FormatsShown /\ JobKnown /\ WritePlace
    BY DEF StoreInv, Intact
<1>2. Context'
    BY <1>1, ContextNext
<1>3. Counted'
    BY <1>1, CountedNext
<1>4. PayloadText' /\ JobKnown'
    BY <1>1, PayloadNext
<1>5. CopyMade'
    BY <1>1, CopyMadeNext
<1>6. FormatsShown'
    BY <1>1, <1>2, FormatsNext
<1>7. FilesPacked' /\ BlocksClean'
    BY <1>2, <1>5, FilesNext
<1>8. WritePlace'
    BY <1>1, <1>2, WritePlaceNext
<1> QED
    BY <1>2, <1>3, <1>4, <1>5, <1>6, <1>7, <1>8 DEF StoreInv, Intact

-----------------------------------------------------------------------------
(* What FileStore sees of a state.                                         *)

Mode == CASE pc = "off" -> "off"
          [] Writing -> "writing"
          [] pc \in {"super", "inodes"} -> "formatting"
          [] OTHER -> "ready"
Goal == IF Writing THEN <<drive, job.name>> ELSE <<>>
Rest == IF Writing THEN PendingText ELSE <<>>

StoreVars == <<files, Mode, Goal, Rest>>
FilesNow  == files = FilesOf(disk)

LEMMA AbstractSteps ==
    /\ Mode = "off" /\ Mode' = "ready" /\ UNCHANGED <<files, Goal, Rest>> => Store!PowerOn
    /\ Mode = "ready" /\ Mode' = "formatting" /\ UNCHANGED <<files, Goal, Rest>>
           => Store!StartFormat
    /\ Mode = "formatting" /\ Mode' = "ready" /\ UNCHANGED <<files, Goal, Rest>>
           => Store!EndFormat
<1>1. Mode = "off" /\ Mode' = "ready" /\ UNCHANGED <<files, Goal, Rest>> => Store!PowerOn
    BY DEF Store!PowerOn, Mode, Goal, Rest
<1>2. Mode = "ready" /\ Mode' = "formatting" /\ UNCHANGED <<files, Goal, Rest>>
           => Store!StartFormat
    BY DEF Store!StartFormat, Mode, Goal, Rest
<1>3. Mode = "formatting" /\ Mode' = "ready" /\ UNCHANGED <<files, Goal, Rest>>
           => Store!EndFormat
    BY DEF Store!EndFormat, Mode, Goal, Rest
<1> QED
    BY <1>1, <1>2, <1>3

LEMMA AbstractClose ==
    ASSUME Mode = "writing", Rest = <<>>, Mode' = "ready", Goal' = <<>>, Rest' = Rest,
           files' = files
    PROVE  Store!Close
<1>1. Mode = "writing" /\ Rest = <<>> /\ Mode' = "ready"
    OBVIOUS
<1>2. Goal' = <<>> /\ Rest' = Rest /\ files' = files
    OBVIOUS
<1> QED
    BY <1>1, <1>2 DEF Store!Close, Store!Nobody, Mode, Goal, Rest

LEMMA AbstractMake ==
    ASSUME NEW d, NEW n, Mode = "ready", files[d][n] = None,
           files' = [files EXCEPT ![d][n] = <<>>], UNCHANGED <<Mode, Goal, Rest>>
    PROVE  Store!Make(d, n)
  BY DEF Store!Make, Store!Absent, None, Mode, Goal, Rest

LEMMA AbstractRemove ==
    ASSUME NEW d, NEW n, Mode = "ready", files[d][n] # None,
           files' = [files EXCEPT ![d][n] = None], UNCHANGED <<Mode, Goal, Rest>>
    PROVE  Store!Remove(d, n)
  BY DEF Store!Remove, Store!Absent, None, Mode, Goal, Rest

LEMMA AbstractOpen ==
    ASSUME NEW d, NEW n, Mode = "ready", files[d][n] # None, Mode' = "writing",
           Goal' = <<d, n>>, Rest' \in Texts, UNCHANGED files
    PROVE  Store!Open(d, n)
  BY DEF Store!Open, Store!Absent, Store!Texts, None, Texts, Mode, Goal, Rest

LEMMA AbstractExtend ==
    ASSUME NEW k, Mode = "writing",
           files' = [files EXCEPT ![Goal[1]][Goal[2]] = @ \o SubSeq(Rest, 1, k)],
           Rest' = SubSeq(Rest, k + 1, Len(Rest)), UNCHANGED <<Mode, Goal>>
    PROVE  Store!Extend(k)
  BY DEF Store!Extend, Mode, Goal, Rest

LEMMA AbstractForget ==
    ASSUME NEW d, Mode = "formatting", NEW gone \in SUBSET Names,
           files' = [files EXCEPT ![d] =
                        [n \in Names |-> IF n \in gone THEN None ELSE files[d][n]]],
           UNCHANGED <<Mode, Goal, Rest>>
    PROVE  Store!Forget(d)
  BY DEF Store!Forget, Store!Absent, None, Mode, Goal, Rest

ModeKnown ==
    /\ pc = "off" => Mode = "off" /\ Goal = <<>> /\ Rest = <<>>
    /\ pc \in Formats => Mode = "formatting" /\ Goal = <<>> /\ Rest = <<>>
    /\ pc \in {"pointers", "blocks", "data", "chain", "size"} =>
          Mode = "writing" /\ Goal = <<drive, job.name>> /\ Rest = PendingText
    /\ pc \notin {"off", "pointers", "blocks", "data", "chain", "size"} \union Formats =>
          Mode = "ready" /\ Goal = <<>> /\ Rest = <<>>

LEMMA ModeIs == ModeKnown
  BY DEF ModeKnown, Mode, Goal, Rest, Writing, Formats

LEMMA ModeNext == ModeKnown'
  BY ModeIs, PTL

LEMMA FilesAre ==
    ASSUME FilesNow
    PROVE  /\ files = [d \in Drives |-> [n \in Names |-> files[d][n]]]
           /\ \A d \in Drives, n \in Names : files[d][n] = FileText(disk[d], n)
  BY DEF FilesNow, FilesOf

LEMMA FilesAreNext ==
    ASSUME FilesNow'
    PROVE  /\ files' = [d \in Drives |-> [n \in Names |-> files'[d][n]]]
           /\ \A d \in Drives, n \in Names : files'[d][n] = FileText(disk'[d], n)
  BY DEF FilesNow, FilesOf

LEMMA StoreUnseen ==
    ASSUME FilesNow, FilesNow', SameFiles
    PROVE  files' = files
<1>1. \A d \in Drives, n \in Names : files'[d][n] = files[d][n]
    BY FilesAre, FilesAreNext DEF SameFiles
<1>2. \A d \in Drives : [n \in Names |-> files'[d][n]] = [n \in Names |-> files[d][n]]
    BY <1>1
<1> QED
    BY <1>2, FilesAre, FilesAreNext

LEMMA StoreSeen ==
    ASSUME FilesNow, FilesNow', NEW e \in Drives, NEW m \in Names, NEW v,
           FileText(disk'[e], m) = v,
           \A d \in Drives, n \in Names :
              d # e \/ n # m => FileText(disk'[d], n) = FileText(disk[d], n)
    PROVE  files' = [files EXCEPT ![e][m] = v]
<1>1. /\ files'[e][m] = v
      /\ \A d \in Drives, n \in Names : d # e \/ n # m => files'[d][n] = files[d][n]
    BY FilesAre, FilesAreNext
<1>2. /\ files = [d \in Drives |-> [n \in Names |-> files[d][n]]]
      /\ files' = [d \in Drives |-> [n \in Names |-> files'[d][n]]]
    BY FilesAre, FilesAreNext
<1>3. \A d \in Drives : files[d] = [n \in Names |-> files[d][n]]
    BY <1>2
<1>4. \A d \in Drives : files'[d] = [files EXCEPT ![e][m] = v][d]
  <2> TAKE d \in Drives
  <2>1. CASE d = e
    <3>1. files'[e] = [files[e] EXCEPT ![m] = v]
      <4>1. files'[e] = [n \in Names |-> files'[e][n]]
          BY <1>2
      <4>2. \A n \in Names : n # m => files'[e][n] = files[e][n]
          BY <1>1
      <4> QED
          BY <1>1, <1>3, <4>1, <4>2
    <3> QED
        BY <1>2, <2>1, <3>1
  <2>2. CASE d # e
    <3>1. [n \in Names |-> files'[d][n]] = [n \in Names |-> files[d][n]]
        BY <1>1, <2>2
    <3> QED
        BY <1>2, <2>2, <3>1
  <2> QED
      BY <2>1, <2>2
<1> QED
    BY <1>2, <1>4

LEMMA StoreForgets ==
    ASSUME FilesNow, FilesNow', drive \in Drives, SomeForgotten
    PROVE  \E gone \in SUBSET Names :
              files' = [files EXCEPT ![drive] =
                           [n \in Names |-> IF n \in gone THEN None ELSE files[drive][n]]]
<1> DEFINE gone == {n \in Names : files'[drive][n] = None}
           left == [n \in Names |-> IF n \in gone THEN None ELSE files[drive][n]]
<1>1. /\ \A d \in Drives, n \in Names : d # drive => files'[d][n] = files[d][n]
      /\ \A n \in Names : files'[drive][n] \in {files[drive][n], None}
    BY FilesAre, FilesAreNext DEF SomeForgotten
<1>2. /\ files = [d \in Drives |-> [n \in Names |-> files[d][n]]]
      /\ files' = [d \in Drives |-> [n \in Names |-> files'[d][n]]]
    BY FilesAre, FilesAreNext
<1>3. files'[drive] = left
  <2>1. files'[drive] = [n \in Names |-> files'[drive][n]]
      BY <1>2
  <2>2. \A n \in Names : files'[drive][n] = IF n \in gone THEN None ELSE files[drive][n]
      BY <1>1
  <2> QED
      BY <2>1, <2>2
<1> HIDE DEF left
<1>4. \A d \in Drives : d # drive => files'[d] = files[d]
  <2> TAKE d \in Drives
  <2> HAVE d # drive
  <2>1. [n \in Names |-> files'[d][n]] = [n \in Names |-> files[d][n]]
      BY <1>1
  <2> QED
      BY <1>2, <2>1
<1>5. files' = [files EXCEPT ![drive] = left]
    BY <1>2, <1>3, <1>4
<1>6. gone \in SUBSET Names
    OBVIOUS
<1> QED
    BY <1>5, <1>6 DEF left

-----------------------------------------------------------------------------
(* Every step is one of FileStore's or is not seen there.                  *)

Linked       == StoreInv /\ HalfMade /\ FilesNow
AbstractStep == Store!Next \/ UNCHANGED StoreVars
Busy         == {"off", "pointers", "blocks", "data", "chain", "size"} \union Formats
Pouring      == {"pointers", "blocks", "data", "size"}

LEMMA LinkedFacts ==
    ASSUME Linked
    PROVE  /\ Context /\ FilesPacked /\ BlocksClean /\ PayloadText /\ Counted
           /\ Intact /\ CopyMade /\ FormatsShown /\ JobKnown /\ WritePlace
           /\ HalfMade /\ FilesNow
           /\ pc \notin Formats => Seeable
  BY DEF Linked, StoreInv, Intact, Seeable

LEMMA LinkedFactsNext ==
    ASSUME Linked'
    PROVE  /\ Context' /\ HalfMade' /\ FilesNow' /\ CopyMade' /\ Intact' /\ WritePlace'
           /\ pc' \notin Formats => Seeable'
  BY DEF Linked, StoreInv, Intact, Seeable

LEMMA UnseenStep ==
    ASSUME Linked, Linked', Steady, pc \notin Formats, pc' \notin Formats
    PROVE  files' = files
<1>1. SameInodes /\ SameTexts
    BY DEF Steady
<1>2. SameFiles
    BY <1>1, LinkedFacts, LinkedFactsNext, SeenSame
<1> QED
    BY <1>2, LinkedFacts, LinkedFactsNext, StoreUnseen

LEMMA ReadyMode ==
    /\ pc \notin Busy => Mode = "ready" /\ Goal = <<>> /\ Rest = <<>>
    /\ pc' \notin Busy => Mode' = "ready" /\ Goal' = <<>> /\ Rest' = <<>>
<1>1. pc \notin Busy => Mode = "ready" /\ Goal = <<>> /\ Rest = <<>>
    BY ModeIs DEF ModeKnown, Busy, Formats
<1>2. pc' \notin Busy => Mode' = "ready" /\ Goal' = <<>> /\ Rest' = <<>>
    BY ModeNext DEF ModeKnown, Busy, Formats
<1> QED
    BY <1>1, <1>2

LEMMA PouringMode ==
    /\ pc \in Pouring => Mode = "writing" /\ Goal = <<drive, job.name>> /\ Rest = PendingText
    /\ pc' \in Pouring => Mode' = "writing" /\ Goal' = <<drive', job'.name>> /\ Rest' = PendingText'
<1>1. pc \in Pouring => Mode = "writing" /\ Goal = <<drive, job.name>> /\ Rest = PendingText
    BY ModeIs DEF ModeKnown, Pouring
<1>2. pc' \in Pouring =>
         Mode' = "writing" /\ Goal' = <<drive', job'.name>> /\ Rest' = PendingText'
    BY ModeNext DEF ModeKnown, Pouring
<1> QED
    BY <1>1, <1>2

LEMMA ReadyStep ==
    ASSUME Linked, Linked', Steady, pc \notin Busy, pc' \notin Busy
    PROVE  AbstractStep
<1>1. files' = files
    BY UnseenStep DEF Busy
<1> QED
    BY <1>1, ReadyMode DEF AbstractStep, StoreVars

LEMMA PouringStep ==
    ASSUME Linked, Linked', Steady, pc \in Pouring, pc' \in Pouring, Arrived' = Arrived,
           UNCHANGED <<payload, job, drive>>
    PROVE  AbstractStep
<1>1. files' = files
    BY UnseenStep DEF Pouring, Formats
<1>2. PlainText' = PlainText
    BY DEF PlainText
<1>3. PendingText' = PendingText
    BY <1>2, PendingSame
<1> QED
    BY <1>1, <1>3, PouringMode DEF AbstractStep, StoreVars

(* Boot: the machine is switched on.                                       *)
LEMMA StepBoot ==
    ASSUME Linked, Linked', Boot
    PROVE  AbstractStep
<1>1. Steady /\ pc' = "shell" /\ pc = "off"
    BY LinkedFacts, StoreBoot DEF Boot
<1>2. files' = files
    BY <1>1, UnseenStep DEF Formats
<1>3. Mode = "off" /\ Goal = <<>> /\ Rest = <<>>
    BY <1>1, ModeIs DEF ModeKnown
<1>4. Mode' = "ready" /\ Goal' = <<>> /\ Rest' = <<>>
    BY <1>1, ReadyMode DEF Busy, Formats
<1>5. Store!PowerOn
    BY <1>2, <1>3, <1>4, AbstractSteps
<1> QED
    BY <1>5 DEF AbstractStep, Store!Next

LEMMA StepStutter ==
    ASSUME Linked, Linked', UNCHANGED vars
    PROVE  AbstractStep
<1>1. files' = files
  <2>1. SameFiles
      BY LinkedFacts, StoreQuiet
  <2> QED
      BY <2>1, LinkedFacts, LinkedFactsNext, StoreUnseen
<1>2. UNCHANGED <<Mode, Goal, Rest>>
    BY DEF vars, Mode, Goal, Rest, Writing, PendingText, Block
<1> QED
    BY <1>1, <1>2 DEF AbstractStep, StoreVars

LEMMA StepShell ==
    ASSUME Linked, Linked',
           Exit \/ SelectDrive \/ Fetch \/ Retry \/ DeleteLoad \/ \E j \in Commands : Execute(j)
    PROVE  AbstractStep
<1>1. Steady
    BY LinkedFacts, StoreQuiet DEF Quiet
<1>2. pc \notin Busy /\ pc' \notin Busy
  <2>1. CASE Exit \/ SelectDrive \/ Fetch \/ Retry
      BY <2>1 DEF Exit, SelectDrive, Fetch, Retry, Calling, Return, Busy, Formats
  <2>2. CASE DeleteLoad
      BY <2>2 DEF DeleteLoad, Busy, Formats
  <2>3. CASE \E j \in Commands : Execute(j)
      BY <2>3 DEF Execute, Busy, Formats
  <2> QED
      BY <2>1, <2>2, <2>3
<1> QED
    BY <1>1, <1>2, ReadyStep

LEMMA StepCreate ==
    ASSUME Linked, Linked', Spared,
           Create \/ CreateImage \/ CreateZero \/ CreatePointer \/ CreateSave
    PROVE  AbstractStep
<1>1. Steady
  <2>1. CASE Create
      BY <2>1, LinkedFacts, StoreCreate
  <2>2. CASE CreateImage
      BY <2>2, LinkedFacts, StoreCreateImage
  <2>3. CASE CreateZero \/ CreatePointer
      BY <2>3, LinkedFacts, StoreCreateBlock
  <2>4. CASE CreateSave
      BY <2>4, LinkedFacts, StoreSave
  <2> QED
      BY <2>1, <2>2, <2>3, <2>4
<1>2. pc \notin Busy /\ pc' \notin Busy
  <2>1. CASE Create
    <3>1. PICK info \in Lookup("create", job.name) :
              CreateFound(info) \/ CreateNone(info) \/ CreateNew(info)
        BY <2>1, CreateParts
    <3>2. pc = "run"
        BY <2>1 DEF Create, Calling
    <3> QED
        BY <3>1, <3>2
        DEF CreateFound, CreateNone, CreateNew, CreateInode, Return, Busy, Formats
  <2>2. CASE CreateImage \/ CreateZero \/ CreatePointer \/ CreateSave
      BY <2>2 DEF CreateImage, CreateZero, CreatePointer, CreateSave, Return, Busy, Formats
  <2> QED
      BY <2>1, <2>2
<1> QED
    BY <1>1, <1>2, ReadyStep

LEMMA StepEnd ==
    ASSUME Linked, Linked', DeleteWipe \/ DeleteSave \/ WriteSave
    PROVE  AbstractStep
<1>1. Steady
    BY LinkedFacts, StoreWipe, StoreSave
<1>2. pc \notin Busy /\ pc' \notin Busy
  <2>1. CASE DeleteWipe
      BY <2>1, WipeParts DEF WipeNothing, WipeBlock, Busy, Formats
  <2>2. CASE DeleteSave \/ WriteSave
      BY <2>2 DEF DeleteSave, WriteSave, Return, Busy, Formats
  <2> QED
      BY <2>1, <2>2
<1> QED
    BY <1>1, <1>2, ReadyStep

(* file_create: with its name the new file is seen.                        *)
LEMMA StepMake ==
    ASSUME Linked, Linked', CreateName
    PROVE  AbstractStep
<1>1. pc = "name" /\ pc' = "created" /\ drive \in Drives
    BY LinkedFacts, ContextFacts DEF CreateName
<1>2. pc \notin Busy /\ pc' \notin Busy /\ pc \notin {"off", "shell"}
    BY <1>1 DEF Busy, Formats
<1>3. job.name \in Names /\ Seeable /\ Seeable'
    BY <1>2, LinkedFacts, LinkedFactsNext, NameKnown DEF Busy
<1>4. MadeFile
    BY <1>3, LinkedFacts, StoreCreateName
<1>5. files' = [files EXCEPT ![drive][job.name] = <<>>]
  <2>1. /\ FileText(disk'[drive], job.name) = <<>>
        /\ \A d \in Drives, n \in Names :
              d # drive \/ n # job.name => FileText(disk'[d], n) = FileText(disk[d], n)
    <3>1. Here' = disk'[drive]
        BY DEF CreateName, Here
    <3> QED
        BY <1>4, <3>1 DEF MadeFile
  <2> QED
      BY <1>1, <1>3, <2>1, LinkedFacts, LinkedFactsNext, StoreSeen
<1>6. files[drive][job.name] = None
    BY <1>1, <1>3, <1>4, LinkedFacts, FilesAre DEF MadeFile, Here
<1>7. Store!Make(drive, job.name)
    BY <1>2, <1>5, <1>6, ReadyMode, AbstractMake
<1> QED
    BY <1>1, <1>3, <1>7 DEF AbstractStep, Store!Next

(* file_delete: with its inode the file is gone.                           *)
LEMMA StepRemove ==
    ASSUME Linked, Linked', Delete
    PROVE  AbstractStep
<1>1. pc = "run" /\ pc' \notin Busy /\ drive' = drive /\ drive \in Drives
  <2>1. PICK info \in Lookup("delete", job.name) : DeleteNone(info) \/ DeleteFound(info)
      BY DeleteParts
  <2>2. pc = "run" /\ drive' = drive
      BY DeleteParts DEF Delete, Calling
  <2>3. pc' \notin Busy
      BY <2>1 DEF DeleteNone, DeleteFound, Return, Busy, Formats
  <2> QED
      BY <2>2, <2>3, LinkedFacts, ContextFacts
<1>2. pc \notin Busy /\ pc \notin {"off", "shell"}
    BY <1>1 DEF Busy, Formats
<1>3. job.name \in Names /\ Seeable /\ Seeable'
    BY <1>1, <1>2, LinkedFacts, LinkedFactsNext, NameKnown DEF Busy
<1>4. SameFiles \/ RemovedFile
    BY <1>3, LinkedFacts, StoreDelete
<1>5. CASE SameFiles
  <2>1. files' = files
      BY <1>5, LinkedFacts, LinkedFactsNext, StoreUnseen
  <2> QED
      BY <1>1, <1>2, <2>1, ReadyMode DEF AbstractStep, StoreVars
<1>6. CASE RemovedFile
  <2>1. files' = [files EXCEPT ![drive][job.name] = None]
    <3>1. /\ FileText(disk'[drive], job.name) = None
          /\ \A d \in Drives, n \in Names :
                d # drive \/ n # job.name => FileText(disk'[d], n) = FileText(disk[d], n)
        BY <1>1, <1>6 DEF RemovedFile, Here
    <3> QED
        BY <1>1, <1>3, <3>1, LinkedFacts, LinkedFactsNext, StoreSeen
  <2>2. files[drive][job.name] # None
      BY <1>1, <1>3, <1>6, LinkedFacts, FilesAre DEF RemovedFile, Here
  <2>3. Store!Remove(drive, job.name)
      BY <1>1, <1>2, <2>1, <2>2, ReadyMode, AbstractRemove
  <2> QED
      BY <1>1, <1>3, <2>3 DEF AbstractStep, Store!Next
<1> QED
    BY <1>4, <1>5, <1>6

LEMMA RestText == Intact /\ WritePlace /\ pc \in Pouring => PendingText \in Texts
<1> SUFFICES ASSUME Intact, WritePlace, pc \in Pouring PROVE PendingText \in Texts
    OBVIOUS
<1>1. Arrived \in Nat /\ Arrived <= Len(PlainText)
    BY ArrivedIs DEF Pouring
<1>2. PlainText \in Texts /\ Len(PlainText) \in Nat
    BY PlainTextIs
<1>3. SubSeq(PlainText, Arrived + 1, Len(PlainText)) \in Texts
    BY <1>1, <1>2, PieceOf
<1> QED
    BY <1>3, PendingIs

LEMMA RestTextNext == Intact' /\ WritePlace' /\ pc' \in Pouring => PendingText' \in Texts
<1>1. (Intact /\ WritePlace /\ pc \in Pouring => PendingText \in Texts)'
    BY RestText, PTL
<1> QED
    BY <1>1 DEF Texts, Pouring

(* file_write: the text is to go to a file that is there.                  *)
LEMMA StepOpen ==
    ASSUME Linked, Linked', "write" \notin StaleCalls, WriteCall
    PROVE  AbstractStep
<1>1. pc = "run" /\ pc \notin Busy
    BY DEF WriteCall, Calling, Busy, Formats
<1>2. CASE pc' = "run"
  <2>1. Steady
      BY LinkedFacts, StoreQuiet DEF Quiet
  <2>2. pc' \notin Busy
      BY <1>2 DEF Busy, Formats
  <2> QED
      BY <1>1, <2>1, <2>2, ReadyStep
<1>3. CASE pc' # "run"
  <2>1. /\ pc' = "pointers" /\ UNCHANGED <<disk, drive, payload, job>>
        /\ \E p \in Mine : NameAt(Here, p) = job.name
      BY <1>3, LinkedFacts, PlaceCall
  <2>2. PICK p \in Mine : NameAt(Here, p) = job.name
      BY <2>1
  <2>3. job.name \in Names /\ drive \in Drives /\ Here \in Disk /\ Mine \in SUBSET Entries(Here)
        /\ Seeable
    <3>1. pc \notin {"off", "shell"} /\ pc \notin Formats
        BY <1>1 DEF Formats
    <3> QED
        BY <3>1, LinkedFacts, ContextFacts, NameKnown
  <2>4. FileText(Here, job.name) # None
    <3>1. View(Here, Mine)
        BY <2>3, SeesNow DEF Sees, Here, Mine
    <3>2. FileText(Here, job.name) = Text(Here, InodeAt(Here, p))
        BY <2>2, <2>3, <3>1 DEF View
    <3>3. IsFile(Here, p) /\ p \in Entries(Here)
        BY <2>2, <2>3, LinkedFacts DEF FilesPacked, AreFiles, Here, Mine
    <3>4. Text(Here, InodeAt(Here, p)) # None
        BY <2>3, <3>3, FileIsText
    <3> QED
        BY <3>2, <3>4
  <2>5. files[drive][job.name] # None
      BY <2>3, <2>4, LinkedFacts, FilesAre DEF Here
  <2>6. files' = files
    <3>1. SameFiles
        BY <2>1 DEF SameFiles
    <3> QED
        BY <3>1, LinkedFacts, LinkedFactsNext, StoreUnseen
  <2>7. pc' \in Pouring
      BY <2>1 DEF Pouring
  <2>8. Mode' = "writing" /\ Goal' = <<drive, job.name>> /\ Rest' \in Texts
      BY <2>1, <2>7, PouringMode, RestTextNext, LinkedFactsNext
  <2>9. Mode = "ready"
      BY <1>1, ReadyMode
  <2>10. Store!Open(drive, job.name)
      BY <2>5, <2>6, <2>8, <2>9, AbstractOpen
  <2> QED
      BY <2>3, <2>10 DEF AbstractStep, Store!Next
<1> QED
    BY <1>2, <1>3

LEMMA StepPour ==
    ASSUME Linked, Linked', Spared, WordsSuffice,
           WritePointer \/ WriteNextPointer \/ WriteAllocate \/ WriteFull \/ WriteFill
    PROVE  AbstractStep
<1>1. /\ Intact /\ Context' /\ WritePlace
    BY LinkedFacts, LinkedFactsNext
<1>2. /\ Steady /\ pc \in Pouring /\ pc' \in Pouring /\ Arrived' = Arrived
      /\ UNCHANGED <<payload, job, drive>>
  <2>1. CASE WritePointer
      BY <1>1, <2>1, PlacePointer DEF Pouring
  <2>2. CASE WriteNextPointer
      BY <1>1, <2>2, PlaceNextPointer DEF Pouring
  <2>3. CASE WriteAllocate
      BY <1>1, <2>3, PlaceAllocate DEF Pouring
  <2>4. CASE WriteFull
      BY <1>1, <2>4, PlaceFull DEF Pouring
  <2>5. CASE WriteFill
      BY <1>1, <2>5, PlaceFill DEF Pouring
  <2> QED
      BY <2>1, <2>2, <2>3, <2>4, <2>5
<1> QED
    BY <1>2, PouringStep

LEMMA StepClose ==
    ASSUME Linked, Linked', WriteSize
    PROVE  AbstractStep
<1>1. pc = "size" /\ pc' = "written" /\ Steady /\ PendingText = <<>>
    BY LinkedFacts, LinkedFactsNext, PlaceSize
<1>2. pc \in Pouring /\ pc' \notin Busy /\ pc \notin Formats /\ pc' \notin Formats
    BY <1>1 DEF Pouring, Busy, Formats
<1>3. files' = files
    BY <1>1, <1>2, UnseenStep
<1>4. Store!Close
    BY <1>1, <1>2, <1>3, PouringMode, ReadyMode, AbstractClose
<1> QED
    BY <1>4 DEF AbstractStep, Store!Next

(* The text of one file of the drive grew.                                 *)
LEMMA ViewAdded ==
    ASSUME NEW dk, NEW dk2, NEW set, NEW p \in set, View(dk, set), View(dk2, set),
           TextSame(dk, dk2, set \ {p}), NameAt(dk2, p) = NameAt(dk, p),
           NEW n \in Names, NameAt(dk, p) # n
    PROVE  FileText(dk2, n) = FileText(dk, n)
<1>1. CASE \E q \in set : NameAt(dk, q) = n
  <2>1. PICK q \in set : NameAt(dk, q) = n
      BY <1>1
  <2>2. NameAt(dk2, q) = n /\ Text(dk2, InodeAt(dk2, q)) = Text(dk, InodeAt(dk, q))
      BY <2>1 DEF TextSame
  <2> QED
      BY <2>1, <2>2 DEF View
<1>2. CASE \A q \in set : NameAt(dk, q) # n
  <2>1. \A q \in set : NameAt(dk2, q) # n
      BY <1>2 DEF TextSame
  <2> QED
      BY <1>2, <2>1 DEF View, NoneNamed
<1> QED
    BY <1>1, <1>2

LEMMA SeenAdded ==
    ASSUME Seeable, Seeable', SameInodes, drive' = drive, NEW p, NEW x, PieceAdded(p, x),
           job.name \in Names, IsFile(Here, p)
    PROVE  LET old == FileText(Here, job.name)
           IN  /\ old \in Texts /\ FileText(disk'[drive], job.name) = old \o x
               /\ \A d \in Drives, n \in Names :
                     d # drive \/ n # job.name => FileText(disk'[d], n) = FileText(disk[d], n)
<1>1. /\ drive \in Drives /\ Here \in Disk /\ Mine \in SUBSET Entries(Here) /\ Here = disk[drive]
    BY ContextFacts DEF Seeable, Here
<1>2. Here' = disk'[drive]
    BY DEF Here
<1>3. View(Here, Mine)
    BY <1>1, SeesNow DEF Sees, Here, Mine
<1>4. View(disk'[drive], Mine)
  <2>1. \A d \in Drives : View(disk'[d], Settled(d)')
      BY SeesNext DEF Sees
  <2>2. Settled(drive)' = Mine /\ View(disk'[drive], Mine)
    <3>1. \A d \in Drives : View(disk'[d], Settled(d))
        BY <2>1 DEF SameInodes
    <3> QED
        BY <1>1, <3>1 DEF SameInodes, Mine
  <2> QED
      BY <2>2
<1>5. /\ p \in Mine /\ NameAt(Here, p) = job.name /\ NameAt(disk'[drive], p) = job.name
      /\ Text(disk'[drive], InodeAt(disk'[drive], p)) = Text(Here, InodeAt(Here, p)) \o x
      /\ TextSame(Here, disk'[drive], Mine \ {p})
      /\ \A d \in Drives : d # drive => disk'[d] = disk[d]
    BY <1>2 DEF PieceAdded
<1>6. FileText(Here, job.name) = Text(Here, InodeAt(Here, p))
    BY <1>3, <1>5 DEF View
<1>7. FileText(disk'[drive], job.name) = Text(disk'[drive], InodeAt(disk'[drive], p))
    BY <1>4, <1>5 DEF View
<1>8. Text(Here, InodeAt(Here, p)) \in Texts
    BY <1>1, <1>5, FileIsText
<1>9. ASSUME NEW n \in Names, n # job.name
      PROVE  FileText(disk'[drive], n) = FileText(Here, n)
    BY <1>3, <1>4, <1>5, <1>9, ViewAdded
<1>10. \A d \in Drives, n \in Names :
          d # drive \/ n # job.name => FileText(disk'[d], n) = FileText(disk[d], n)
    BY <1>1, <1>5, <1>9
<1> QED
    BY <1>5, <1>6, <1>7, <1>8, <1>10

(* file_write: what is written reaches the end of the file.                *)
LEMMA StepExtend ==
    ASSUME Linked, Linked', Spared, WriteData
    PROVE  AbstractStep
<1>1. /\ pc = "data" /\ pc' \in {"blocks", "size"} /\ SameInodes
      /\ UNCHANGED <<payload, job, drive>>
      /\ Unsaved \in Nat /\ Unsaved <= Sent /\ Arrived' = Sent /\ Arrived = Sent - Unsaved
      /\ \E p : PieceAdded(p, Piece)
    BY LinkedFacts, LinkedFactsNext, PlaceData
<1>2. PICK p : PieceAdded(p, Piece)
    BY <1>1
<1>3. /\ pc \in Pouring /\ pc' \in Pouring /\ pc \notin Formats /\ pc' \notin Formats
      /\ pc \notin {"off", "shell"} /\ pc \in Writes
    BY <1>1 DEF Pouring, Formats, Writes
<1>4. Seeable /\ Seeable' /\ job.name \in Names
    BY <1>3, LinkedFacts, LinkedFactsNext, NameKnown
<1>5. drive \in Drives
    BY LinkedFacts, ContextFacts
<1>6. IsFile(Here, p)
    BY <1>2, <1>5, LinkedFacts DEF PieceAdded, FilesPacked, AreFiles, Here, Mine
<1> DEFINE old == FileText(Here, job.name)
<1>7. /\ old \in Texts /\ FileText(disk'[drive], job.name) = old \o Piece
      /\ \A d \in Drives, n \in Names :
            d # drive \/ n # job.name => FileText(disk'[d], n) = FileText(disk[d], n)
    BY <1>1, <1>2, <1>4, <1>6, SeenAdded
<1>8. files[drive][job.name] = old
    BY <1>4, <1>5, LinkedFacts, FilesAre DEF Here
<1> HIDE DEF old
<1>9. files' = [files EXCEPT ![drive][job.name] = old \o Piece]
    BY <1>4, <1>5, <1>7, LinkedFacts, LinkedFactsNext, StoreSeen
<1>10. PlainText' = PlainText
    BY <1>1 DEF PlainText
<1>11. /\ PlainText \in Texts /\ Len(PlainText) \in Nat
       /\ Sent \in Nat /\ Sent <= Len(PlainText)
    BY <1>3, LinkedFacts, PlainTextIs, CountIs
<1>12. Arrived \in Nat /\ Arrived <= Sent /\ Sent - Arrived = Unsaved
    BY <1>1, <1>11
<1>13. /\ PendingText \in Texts /\ Len(PendingText) = Len(PlainText) - Arrived
       /\ SubSeq(PendingText, 1, Unsaved) = SubSeq(PlainText, Arrived + 1, Sent)
       /\ SubSeq(PendingText, Unsaved + 1, Len(PendingText))
             = SubSeq(PlainText, Sent + 1, Len(PlainText))
  <2>1. PICK rest : rest = SubSeq(PlainText, Arrived + 1, Len(PlainText))
      OBVIOUS
  <2>2. SplitsAt(rest, PlainText, Arrived, Sent)
      BY <1>11, <1>12, <2>1, RestSplit
  <2>3. PendingText = rest
      BY <2>1, PendingIs
  <2> QED
      BY <1>12, <2>2, <2>3 DEF SplitsAt
<1>14. Piece = SubSeq(PlainText, Arrived + 1, Sent)
    BY <1>1 DEF Piece
<1>15. PendingText' = SubSeq(PlainText, Sent + 1, Len(PlainText))
  <2>1. (PendingText = SubSeq(PlainText, Arrived + 1, Len(PlainText)))'
      BY PendingIs, PTL
  <2> QED
      BY <1>1, <1>10, <2>1
<1>16. /\ Mode = "writing" /\ Goal = <<drive, job.name>> /\ Rest = PendingText
       /\ Mode' = "writing" /\ Goal' = <<drive, job.name>> /\ Rest' = PendingText'
    BY <1>1, <1>3, PouringMode
<1>17. CASE Unsaved = 0
  <2>1. Piece \in Texts /\ Len(Piece) = 0
    <3>1. /\ SubSeq(PlainText, Arrived + 1, Sent) \in Texts
          /\ Len(SubSeq(PlainText, Arrived + 1, Sent)) = Sent - Arrived
        BY <1>11, <1>12, PieceOf
    <3> QED
        BY <1>12, <1>14, <1>17, <3>1
  <2>2. old \o Piece = old
    <3>1. Piece = <<>>
        BY <2>1 DEF Texts
    <3> QED
        BY <1>7, <3>1 DEF Texts
  <2>3. files' = files
    <3>1. SameFiles
        BY <1>7, <2>2 DEF SameFiles, old, Here
    <3> QED
        BY <3>1, LinkedFacts, LinkedFactsNext, StoreUnseen
  <2>4. PendingText' = PendingText
    <3>1. Arrived' = Arrived
        BY <1>1, <1>11, <1>12, <1>17
    <3> QED
        BY <1>10, <3>1, PendingSame
  <2> QED
      BY <1>16, <2>3, <2>4 DEF AbstractStep, StoreVars
<1>18. CASE Unsaved # 0
  <2>1. Unsaved \in 1 .. Len(Rest)
      BY <1>1, <1>11, <1>12, <1>13, <1>16, <1>18
  <2>2. files' = [files EXCEPT ![Goal[1]][Goal[2]] = @ \o SubSeq(Rest, 1, Unsaved)]
    <3>1. Goal[1] = drive /\ Goal[2] = job.name
        BY <1>16
    <3>2. SubSeq(Rest, 1, Unsaved) = Piece
        BY <1>13, <1>14, <1>16
    <3> QED
        BY <1>8, <1>9, <3>1, <3>2
  <2>3. Rest' = SubSeq(Rest, Unsaved + 1, Len(Rest))
      BY <1>13, <1>15, <1>16
  <2>4. Store!Extend(Unsaved)
      BY <1>16, <2>2, <2>3, AbstractExtend
  <2>5. \E k \in 1 .. Len(Rest) : Store!Extend(k)
      BY <2>1, <2>4
  <2> QED
      BY <2>5 DEF AbstractStep, Store!Next, Rest
<1> QED
    BY <1>17, <1>18

LEMMA StepFormat ==
    ASSUME Linked, Linked', Format \/ FormatSuperblock \/ FormatInodes
    PROVE  AbstractStep
<1>1. /\ Context /\ Context' /\ FilesPacked /\ BlocksClean /\ FormatsShown /\ FilesNow /\ FilesNow'
    BY LinkedFacts, LinkedFactsNext
<1>2. CASE Format \/ FormatSuperblock
  <2>1. files' = files
      BY <1>1, <1>2, StoreFormatSame, StoreUnseen
  <2>2. CASE Format
    <3>1. pc = "run" /\ pc' = "super"
        BY <2>2 DEF Format, Calling
    <3>2. Mode = "ready" /\ Goal = <<>> /\ Rest = <<>>
        BY <3>1, ReadyMode DEF Busy, Formats
    <3>3. Mode' = "formatting" /\ Goal' = <<>> /\ Rest' = <<>>
        BY <3>1, ModeNext DEF ModeKnown, Formats
    <3>4. Store!StartFormat
        BY <2>1, <3>2, <3>3, AbstractSteps
    <3> QED
        BY <3>4 DEF AbstractStep, Store!Next
  <2>3. CASE FormatSuperblock
    <3>1. pc \in Formats /\ pc' \in Formats
        BY <2>3 DEF FormatSuperblock, Formats
    <3>2. Mode = "formatting" /\ Goal = <<>> /\ Rest = <<>>
        BY <3>1, ModeIs DEF ModeKnown
    <3>3. Mode' = "formatting" /\ Goal' = <<>> /\ Rest' = <<>>
        BY <3>1, ModeNext DEF ModeKnown
    <3> QED
        BY <2>1, <3>2, <3>3 DEF AbstractStep, StoreVars
  <2> QED
      BY <1>2, <2>2, <2>3
<1>3. CASE FormatInodes
  <2>1. pc = "inodes" /\ pc \in Formats /\ drive \in Drives
      BY <1>1, <1>3, ContextFacts DEF FormatInodes, Formats
  <2>2. Mode = "formatting" /\ Goal = <<>> /\ Rest = <<>>
      BY <2>1, ModeIs DEF ModeKnown
  <2>3. (pc' = "run" /\ SameFiles) \/ (pc' = "inodes" /\ SomeForgotten)
      BY <1>1, <1>3, StoreFormatInodes
  <2>4. CASE pc' = "run" /\ SameFiles
    <3>1. files' = files
        BY <1>1, <2>4, StoreUnseen
    <3>2. Mode' = "ready" /\ Goal' = <<>> /\ Rest' = <<>>
        BY <2>4, ReadyMode DEF Busy, Formats
    <3>3. Store!EndFormat
        BY <2>2, <3>1, <3>2, AbstractSteps
    <3> QED
        BY <3>3 DEF AbstractStep, Store!Next
  <2>5. CASE pc' = "inodes" /\ SomeForgotten
    <3>1. PICK gone \in SUBSET Names :
              files' = [files EXCEPT ![drive] =
                           [n \in Names |-> IF n \in gone THEN None ELSE files[drive][n]]]
        BY <1>1, <2>1, <2>5, StoreForgets
    <3>2. Mode' = "formatting" /\ Goal' = <<>> /\ Rest' = <<>>
        BY <2>5, ModeNext DEF ModeKnown, Formats
    <3>3. Store!Forget(drive)
        BY <2>2, <3>1, <3>2, AbstractForget
    <3> QED
        BY <2>1, <3>3 DEF AbstractStep, Store!Next
  <2> QED
      BY <2>3, <2>4, <2>5
<1> QED
    BY <1>2, <1>3

LEMMA StoreNext ==
    ASSUME Linked, Linked', WordsSuffice, "write" \notin StaleCalls, [Next /\ Spared]_vars
    PROVE  AbstractStep
<1>1. CASE UNCHANGED vars
    BY <1>1, StepStutter
<1>2. ASSUME Next, Spared PROVE AbstractStep
  <2>1. CASE FileCreate
      BY <1>2, <2>1, StepCreate, StepMake DEF FileCreate
  <2>2. CASE FileDelete
      BY <2>2, StepRemove, StepShell, StepEnd DEF FileDelete
  <2>3. CASE FileWrite
    <3>1. ~WriteChain
        BY LinkedFacts, OwnedWriteChain
    <3> QED
        BY <1>2, <2>3, <3>1, StepOpen, StepPour, StepExtend, StepClose, StepEnd DEF FileWrite
  <2>4. CASE FormatDisk
      BY <2>4, StepFormat DEF FormatDisk
  <2>5. CASE Boot
      BY <2>5, StepBoot
  <2>6. CASE Exit \/ SelectDrive \/ Fetch \/ Retry \/ \E j \in Commands : Execute(j)
      BY <2>6, StepShell
  <2>7. CASE Crash
      BY <1>2, <2>7, LinkedFacts, NoCrash
  <2>8. CASE Look
      BY <2>8, StepStutter DEF Look
  <2> QED
      BY <1>2, <2>1, <2>2, <2>3, <2>4, <2>5, <2>6, <2>7, <2>8 DEF Next, Step
<1> QED
    BY <1>1, <1>2

LEMMA StoreInit ==
    ASSUME Init, InUse, EntriesShown, FilesPacked, BlocksClean
    PROVE  StoreInv
<1>1. pc = "off" /\ payload = <<>> /\ wsize = 0
    BY DEF Init
<1>2. Context
    BY ContextInit
<1>3. PayloadText
  <2>1. TextFront(<<>>, 0)
      BY DEF TextFront
  <2>2. Max({0, 0}) = 0
      BY MaxOfTwo
  <2> QED
      BY <1>1, <2>1, <2>2 DEF PayloadText
<1>4. Counted
    BY <1>1 DEF Counted, Writes
<1>5. CopyMade /\ FormatsShown /\ JobKnown /\ WritePlace
    BY <1>1 DEF CopyMade, FormatsShown, Formats, JobKnown, WritePlace
<1> QED
    BY <1>2, <1>3, <1>4, <1>5 DEF StoreInv, Intact

LEMMA LinkedInit == Init /\ Linked => Store!Init
<1> SUFFICES ASSUME Init, Linked PROVE Store!Init
    OBVIOUS
<1>1. pc = "off" /\ pc \notin Formats
    BY DEF Init, Formats
<1>2. Mode = "off" /\ Goal = <<>> /\ Rest = <<>>
    BY <1>1, ModeIs DEF ModeKnown
<1>3. ASSUME NEW d \in Drives, NEW n \in Names PROVE files[d][n] \in Texts \union {None}
  <2>1. View(disk[d], Settled(d))
      BY <1>1, LinkedFacts, SeesNow DEF Sees
  <2>2. /\ disk[d] \in Disk /\ Settled(d) \in SUBSET Entries(disk[d])
        /\ \A p \in Settled(d) : IsFile(disk[d], p)
      BY LinkedFacts, ContextSettled DEF FilesPacked, AreFiles
  <2>3. FileText(disk[d], n) \in Texts \union {None}
    <3>1. CASE \E p \in Settled(d) : NameAt(disk[d], p) = n
      <4>1. PICK p \in Settled(d) : NameAt(disk[d], p) = n
          BY <3>1
      <4>2. Text(disk[d], InodeAt(disk[d], p)) \in Texts
          BY <2>2, FileIsText
      <4> QED
          BY <2>1, <4>1, <4>2 DEF View
    <3>2. CASE \A p \in Settled(d) : NameAt(disk[d], p) # n
        BY <2>1, <3>2 DEF View, NoneNamed
    <3> QED
        BY <3>1, <3>2
  <2> QED
      BY <2>3, LinkedFacts, FilesAre
<1>4. files \in [Drives -> [Names -> Texts \union {None}]]
  <2>1. files = [d \in Drives |-> [n \in Names |-> files[d][n]]]
      BY LinkedFacts, FilesAre
  <2>2. [d \in Drives |-> [n \in Names |-> files[d][n]]]
           \in [Drives -> [Names -> Texts \union {None}]]
      BY <1>3
  <2> QED
      BY <2>1, <2>2
<1> QED
    BY <1>2, <1>4
    DEF Store!Init, Store!Texts, Store!Absent, Store!Nobody, None, Texts, Mode, Goal, Rest

(* As long as the buffers a program writes hold texts, no file_write takes *)
(* its inode from the call before, a text fits the words of one pointer    *)
(* block and nobody asks for a file by the name a half-made one shows, what*)
(* programs see of the drives is what FileStore promises, for any number   *)
(* of drives and commands: file_create, file_delete, file_write and        *)
(* format_disk (fs.c) take dozens of writes of sectors, and each of these  *)
(* either makes, removes, lengthens or forgets the file it is for or is    *)
(* not seen in any file.                                                   *)
THEOREM StoreRefinement ==
    ASSUME TypedText, "write" \notin StaleCalls
    PROVE  StoreSpec /\ SparedSpec /\ FilesPacked /\ BlocksClean
              /\ []WordsSuffice /\ []HalfMade => ImplementsFileStore
<1>1. Init /\ InUse /\ EntriesShown /\ FilesPacked /\ BlocksClean => StoreInv
    BY StoreInit
<1>2. StoreInv /\ HalfMade /\ HalfMade' /\ WordsSuffice /\ [Next /\ Spared]_vars => StoreInv'
    BY StoreInvNext
<1>3. FilesNow /\ [Next /\ files' = FilesOf(disk')]_<<vars, files>> => FilesNow'
  <2> SUFFICES ASSUME FilesNow, UNCHANGED <<vars, files>> PROVE FilesNow'
      BY DEF FilesNow
  <2>1. disk' = disk /\ files' = files
      BY DEF vars
  <2> QED
      BY <2>1 DEF FilesNow, FilesOf
<1>4. Init /\ StoreInv /\ HalfMade /\ FilesNow => Store!Init
    BY LinkedInit DEF Linked
<1>5. StoreInv /\ StoreInv' /\ HalfMade /\ HalfMade' /\ FilesNow /\ FilesNow' /\ WordsSuffice
         /\ [Next /\ Spared]_vars => [Store!Next]_StoreVars
    BY StoreNext DEF Linked, AbstractStep
<1> QED
    BY <1>1, <1>2, <1>3, <1>4, <1>5, PTL
    DEF StoreSpec, SparedSpec, FilesNow, ImplementsFileStore, Store!Spec, StoreVars,
        Mode, Goal, Rest

-----------------------------------------------------------------------------
(* The sizes on record.                                                    *)

(* The size covers the name, its NUL and the text.                         *)
Covered(dk, p) ==
    TextEnd(NameAt(dk, p), Text(dk, InodeAt(dk, p))) <= InodeAt(dk, p).size

(* While file_write runs, the size of its file is in the inode in hand.    *)
Pours(d, p) == pc \in Pouring /\ d = drive /\ NameAt(disk[d], p) = job.name

SizesCover == \A d \in Drives : \A p \in Settled(d) : Pours(d, p) \/ Covered(disk[d], p)

(* What has been counted in it and what is left make room for the text on  *)
(* the disk and the text still to come.                                    *)
SizeRoom ==
    pc \in Pouring =>
        /\ 0 <= fr.left /\ fr.info.size + fr.left < WordRange
        /\ \A p \in Mine :
              NameAt(Here, p) = job.name =>
                  TextEnd(job.name, Text(Here, InodeAt(Here, p))) + Len(PlainText)
                      <= fr.info.size + fr.left + Arrived

(* An inode is made with room for its name and the NUL.                    *)
SizeMade == pc \in Makes => InodeAt(Here, fr.entry).size = Len(job.name) + 1

SizeInv == SizesCover /\ SizeRoom /\ SizeMade

(* The sizes that programs pass to file_write are not negative, and added  *)
(* to that on record they stay in an int.                                  *)
SizesFit ==
    Calling("write") =>
        /\ 0 <= wsize
        /\ \A p \in Matches(Here, job.name) : InodeAt(Here, p).size + wsize < WordRange

EntriesSame ==
    \A d \in Drives : \A p \in Entries(disk[d]) : InodeAt(disk'[d], p) = InodeAt(disk[d], p)

PoursAlike ==
    \/ pc \notin Pouring /\ pc' \notin Pouring
    \/ pc \in Pouring /\ pc' \in Pouring /\ drive' = drive /\ job' = job

LEMMA CoversKept ==
    ASSUME SizesCover, SameInodes, PoursAlike,
           \A d \in Drives : \A p \in Settled(d) :
              /\ NameAt(disk'[d], p) = NameAt(disk[d], p)
              /\ Pours(d, p) \/ /\ Text(disk'[d], InodeAt(disk'[d], p))
                                      = Text(disk[d], InodeAt(disk[d], p))
                                /\ InodeAt(disk'[d], p).size = InodeAt(disk[d], p).size
    PROVE  SizesCover'
<1> SUFFICES ASSUME NEW d \in Drives, NEW p \in Settled(d)'
             PROVE  Pours(d, p)' \/ Covered(disk'[d], p)
    BY DEF SizesCover
<1>1. p \in Settled(d)
    BY DEF SameInodes
<1>2. NameAt(disk'[d], p) = NameAt(disk[d], p)
    BY <1>1
<1>3. Pours(d, p) => Pours(d, p)'
    BY <1>2 DEF Pours, PoursAlike
<1>4. ASSUME ~Pours(d, p) PROVE Covered(disk'[d], p)
  <2>1. Covered(disk[d], p)
      BY <1>1, <1>4 DEF SizesCover
  <2>2. /\ Text(disk'[d], InodeAt(disk'[d], p)) = Text(disk[d], InodeAt(disk[d], p))
        /\ InodeAt(disk'[d], p).size = InodeAt(disk[d], p).size
      BY <1>1, <1>4
  <2> QED
      BY <1>2, <2>1, <2>2 DEF Covered
<1> QED
    BY <1>3, <1>4

LEMMA CoversSteady ==
    ASSUME SizesCover, Steady, EntriesSame, PoursAlike
    PROVE  SizesCover'
<1>1. ASSUME NEW d \in Drives, NEW p \in Settled(d)
      PROVE  /\ NameAt(disk'[d], p) = NameAt(disk[d], p)
             /\ Text(disk'[d], InodeAt(disk'[d], p)) = Text(disk[d], InodeAt(disk[d], p))
             /\ InodeAt(disk'[d], p).size = InodeAt(disk[d], p).size
  <2>1. TextSame(disk[d], disk'[d], Settled(d))
      BY DEF Steady, SameTexts
  <2>2. p \in Entries(disk[d])
      BY DEF Settled
  <2>3. InodeAt(disk'[d], p) = InodeAt(disk[d], p)
      BY <2>2 DEF EntriesSame
  <2> QED
      BY <2>1, <2>3 DEF TextSame
<1> QED
    BY <1>1, CoversKept DEF Steady

(* The steps that leave the inodes of the table alone.                     *)
LEMMA EntriesQuiet == disk' = disk => EntriesSame
  BY DEF EntriesSame

LEMMA EntriesSaved ==
    ASSUME Context, NEW e \in Drives, NEW s, IsSuperblock(s),
           disk' = [disk EXCEPT ![e] = WriteSector(disk[e], SuperblockBlock, SuperblockSector(s))]
    PROVE  EntriesSame
<1>1. disk \in [Drives -> Disk] /\ disk[e] \in Disk /\ s \in Superblock
    BY ContextFacts, SuperblockFacts
<1>2. \A p \in Entries(disk[e]) :
          InodeAt(WriteSector(disk[e], SuperblockBlock, SuperblockSector(s)), p) = InodeAt(disk[e], p)
    BY <1>1, SuperblockWrite
<1> QED
    BY <1>1, <1>2 DEF EntriesSame

LEMMA EntriesData ==
    ASSUME Context, NEW b \in DataArea, NEW data, Write(b, data)
    PROVE  EntriesSame
<1>1. disk \in [Drives -> Disk] /\ drive \in Drives /\ disk[drive] \in Disk
    BY ContextFacts DEF Here
<1>2. disk' = [disk EXCEPT ![drive] = WriteSector(disk[drive], b, data)]
    BY DEF Write
<1>3. \A s : InTable(s) => WriteSector(disk[drive], b, data)[s] = disk[drive][s]
    BY <1>1, DataOutside, OutsideTable
<1>4. ASSUME NEW p \in Entries(disk[drive])
      PROVE  InodeAt(WriteSector(disk[drive], b, data), p) = InodeAt(disk[drive], p)
    BY <1>3, EntryFacts, TableSame
<1> QED
    BY <1>1, <1>2, <1>4 DEF EntriesSame

(* The steps outside file_create and file_write.                           *)
LEMMA SizedIdle ==
    ASSUME SizeInv, Steady, EntriesSame, pc \notin Pouring, pc' \notin Pouring \union Makes
    PROVE  SizeInv'
<1>1. SizesCover'
    BY CoversSteady DEF SizeInv, PoursAlike
<1> QED
    BY <1>1 DEF SizeInv, SizeRoom, SizeMade

LEMMA SizedSaved ==
    ASSUME Intact, SizeInv, CreateSave \/ DeleteSave \/ WriteSave
    PROVE  SizeInv'
<1>1. Steady
    BY StoreSave DEF Intact
<1>2. /\ pc \in {"created", "load", "written"} /\ pc' = "run" /\ SaveSuperblock
      /\ lab' = lab \/ (pc = "load" /\ fr.i = PtrsPerInode /\ lab' = fr.least)
    BY DEF CreateSave, DeleteSave, WriteSave, Return
<1>3. lab' \in DataArea
  <2>1. lab \in DataArea
      BY <1>2, CallFacts DEF Intact
  <2>2. pc = "load" => fr.least \in DataArea \union {0}
      BY DeletesFacts DEF Deletes, Intact
  <2>3. pc = "load" /\ fr.i = PtrsPerInode => fr.least # 0
    <3>1. PtrsPerInode # 0
        BY DiskAssumption
    <3> QED
        BY <3>1 DEF Intact, Context, Owned, InDelete
  <2> QED
      BY <1>2, <2>1, <2>2, <2>3
<1> DEFINE s == [sb EXCEPT !.last_allocated_block = lab']
<1>4. IsSuperblock(s)
  <2>1. sb = Geometry(Capacity, sb.last_allocated_block)
      BY <1>2, CallFacts DEF Intact, IsSuperblock
  <2>2. s = Geometry(Capacity, lab') /\ s.last_allocated_block = lab'
      BY <2>1 DEF Geometry
  <2> QED
      BY <1>3, <2>2 DEF IsSuperblock
<1>5. disk' = [disk EXCEPT ![drive] =
                  WriteSector(disk[drive], SuperblockBlock, SuperblockSector(s))]
    BY <1>2 DEF SaveSuperblock, Write
<1> HIDE DEF s
<1>6. EntriesSame
    BY <1>4, <1>5, ContextFacts, EntriesSaved DEF Intact
<1> QED
    BY <1>1, <1>2, <1>6, SizedIdle DEF Pouring, Makes

LEMMA SizedBoot ==
    ASSUME Intact, SizeInv, Boot
    PROVE  SizeInv'
<1> DEFINE s == SuperblockOf(disk[BootDrive])
<1>1. Steady /\ pc' = "shell" /\ pc = "off"
    BY StoreBoot DEF Intact, Boot
<1>2. BootDrive \in Drives /\ IsSuperblock(s)
    BY ESFSAssumption DEF Intact, Context, Owned, Geometries
<1>3. disk' = [disk EXCEPT ![BootDrive] =
                  WriteSector(disk[BootDrive], SuperblockBlock, SuperblockSector(s))]
    BY <1>2, InitFsInUse DEF Boot
<1> HIDE DEF s
<1>4. EntriesSame
    BY <1>2, <1>3, EntriesSaved DEF Intact
<1> QED
    BY <1>1, <1>4, SizedIdle DEF Pouring, Makes

LEMMA SizedFormat ==
    ASSUME Intact, SizeInv, Format \/ FormatSuperblock
    PROVE  SizeInv'
<1>1. Steady /\ drive \in Drives
    BY StoreFormat, ContextFacts DEF Intact
<1>2. pc \in {"run", "super"} /\ pc' \in {"super", "inodes"}
    BY DEF Format, FormatSuperblock, Calling
<1>3. EntriesSame
  <2>1. CASE Format
    <3> DEFINE s == SuperblockOf(disk[drive])
    <3>1. IsSuperblock(s)
        BY ContextFacts DEF Here, Intact
    <3>2. disk' = [disk EXCEPT ![drive] =
                      WriteSector(disk[drive], SuperblockBlock, SuperblockSector(s))]
        BY <2>1, <3>1, InitFsInUse DEF Format, Write
    <3> HIDE DEF s
    <3> QED
        BY <1>1, <3>1, <3>2, EntriesSaved DEF Intact
  <2>2. CASE FormatSuperblock
    <3>1. pc = "super"
        BY <2>2 DEF FormatSuperblock
    <3>2. IsSuperblock(sb)
        BY <3>1, FormatFacts DEF Intact
    <3>3. disk' = [disk EXCEPT ![drive] =
                      WriteSector(disk[drive], SuperblockBlock, SuperblockSector(sb))]
        BY <2>2 DEF FormatSuperblock, Write
    <3> QED
        BY <1>1, <3>2, <3>3, EntriesSaved DEF Intact
  <2> QED
      BY <2>1, <2>2
<1> QED
    BY <1>1, <1>2, <1>3, SizedIdle DEF Pouring, Makes

LEMMA SizedWipe ==
    ASSUME Intact, SizeInv, DeleteWipe
    PROVE  SizeInv'
<1>1. Steady /\ pc = "wipe" /\ drive' = drive
    BY StoreWipe, WipeParts DEF Intact
<1>2. CASE WipeNothing
  <2>1. pc' = "load" /\ disk' = disk
      BY <1>2 DEF WipeNothing
  <2> QED
      BY <1>1, <2>1, EntriesQuiet, SizedIdle DEF Pouring, Makes
<1>3. ASSUME NEW c \in fr.rest, WipeBlock(c) PROVE SizeInv'
  <2>1. c \in Cells /\ fr.buf[c] # 0
    <3>1. fr \in Frame
        BY ContextFacts DEF Intact, TypeOK
    <3> QED
        BY <1>1, <1>3, <3>1 DEF Intact, Context, IInv, PlacesSet, Frame
  <2>2. PICK i \in Pointers : fr.info.ptrs[i] # 0 /\ fr.buf = Here[fr.info.ptrs[i]]
      BY <1>1, <1>3 DEF Intact, Context, Owned, InDelete
  <2>3. /\ fr.info.ptrs = stale.ptrs /\ WellFormed(Here, stale)
      BY <1>1, DeletesFacts DEF Intact, Deletes
  <2>4. fr.buf[c] \in DataArea
    <3>1. Claim(Here, stale, i, -1) \in DataArea \union {0}
        BY <2>3, PlaceFacts DEF WellFormed
    <3>2. stale.ptrs[i] \in Sectors
        BY <2>2, <2>3, <3>1, PointerClaimed, DataOutside
    <3>3. fr.buf[c] = Claim(Here, stale, i, c)
        BY <2>1, <2>2, <2>3, <3>2, PlaceFacts DEF Claim, ReadSector
    <3>4. Claim(Here, stale, i, c) \in DataArea \union {0}
        BY <2>1, <2>3, PlaceFacts DEF WellFormed
    <3> QED
        BY <2>1, <3>3, <3>4
  <2>5. Write(fr.buf[c], ZeroSector) /\ pc' = "wipe"
      BY <1>1, <1>3 DEF WipeBlock
  <2>6. EntriesSame
      BY <2>4, <2>5, EntriesData DEF Intact
  <2> QED
      BY <1>1, <2>5, <2>6, SizedIdle DEF Pouring, Makes
<1> QED
    BY <1>2, <1>3, WipeParts

LEMMA CoversIdle ==
    ASSUME SizesCover, FilesMade, pc \notin Pouring, pc' \notin Pouring \union Makes,
           \A d, p : FileMade(d, p) => Covered(disk'[d], p)
    PROVE  SizeInv'
<1>1. SizesCover'
  <2> SUFFICES ASSUME NEW d \in Drives, NEW p \in Settled(d)' PROVE Covered(disk'[d], p)
      BY DEF SizesCover
  <2>1. ASSUME FileSame(d, p) PROVE Covered(disk'[d], p)
    <3>1. Covered(disk[d], p)
        BY <2>1 DEF FileSame, SizesCover, Pours
    <3> QED
        BY <2>1, <3>1 DEF FileSame, Covered
  <2> QED
      BY <2>1 DEF FilesMade
<1> QED
    BY <1>1 DEF SizeInv, SizeRoom, SizeMade

LEMMA CoversFewer ==
    ASSUME SizeInv, FilesKept, pc \notin Pouring \union Makes, pc' \notin Pouring \union Makes
    PROVE  SizeInv'
<1>1. SizesCover'
  <2> SUFFICES ASSUME NEW d \in Drives, NEW p \in Settled(d)' PROVE Covered(disk'[d], p)
      BY DEF SizesCover
  <2>1. FileSame(d, p)
      BY DEF FilesKept
  <2>2. Covered(disk[d], p)
      BY <2>1 DEF FileSame, SizeInv, SizesCover, Pours
  <2> QED
      BY <2>1, <2>2 DEF FileSame, Covered
<1> QED
    BY <1>1 DEF SizeInv, SizeRoom, SizeMade

LEMMA SizedName ==
    ASSUME Intact, SizeInv, CreateName, FilesMade
    PROVE  SizeInv'
<1>1. pc = "name" /\ pc' = "created"
    BY DEF CreateName
<1>2. ASSUME NEW d, NEW p, FileMade(d, p) PROVE Covered(disk'[d], p)
  <2>1. InodeAt(disk'[d], p).size = Len(job.name) + 1
      BY <1>1, <1>2 DEF FileMade, SizeInv, SizeMade, Makes
  <2>2. job.name \in Seq(Nat)
      BY ContextFacts DEF Intact
  <2>3. Len(job.name) \in Nat
      BY <2>2, LenProperties
  <2>4. TextEnd(job.name, <<>>) = Len(job.name) + 1
      BY <2>3 DEF TextEnd
  <2>5. Len(job.name) + 1 <= Len(job.name) + 1
      BY <2>3
  <2> QED
      BY <1>2, <2>1, <2>4, <2>5 DEF FileMade, Covered
<1> QED
    BY <1>1, <1>2, CoversIdle DEF SizeInv, Pouring, Makes

LEMMA SizedFewer ==
    ASSUME SizeInv, FilesKept, Delete \/ FormatInodes
    PROVE  SizeInv'
<1>1. pc \in {"run", "inodes"} /\ pc' \in {"run", "load", "inodes"}
  <2>1. CASE Delete
      BY <2>1, DeleteParts DEF Calling, DeleteNone, DeleteFound, Return
  <2>2. CASE FormatInodes
      BY <2>2 DEF FormatInodes, Return
  <2> QED
      BY <2>1, <2>2
<1> QED
    BY <1>1, CoversFewer DEF Pouring, Makes

LEMMA SizedQuiet ==
    ASSUME Intact, SizeInv,
           Exit \/ SelectDrive \/ Fetch \/ Retry \/ DeleteLoad \/ \E j \in Commands : Execute(j)
    PROVE  SizeInv'
<1>1. Steady
    BY StoreQuiet DEF Intact, Quiet
<1>2. disk' = disk /\ pc \in {"run", "load", "shell"} /\ pc' \in {"run", "shell", "wipe"}
  <2>1. CASE Exit \/ SelectDrive
      BY <2>1 DEF Exit, SelectDrive, Calling, Return
  <2>2. CASE Fetch \/ Retry
      BY <2>2 DEF Fetch, Retry, Calling, Return
  <2>3. CASE DeleteLoad
      BY <2>3 DEF DeleteLoad
  <2>4. CASE \E j \in Commands : Execute(j)
      BY <2>4 DEF Execute
  <2> QED
      BY <2>1, <2>2, <2>3, <2>4
<1> QED
    BY <1>1, <1>2, EntriesQuiet, SizedIdle DEF Pouring, Makes

LEMMA SizedStutter ==
    ASSUME Intact, SizeInv, UNCHANGED vars
    PROVE  SizeInv'
<1>1. Steady
    BY StoreQuiet DEF Intact
<1>2. UNCHANGED <<disk, drive, pc, job, payload, fr>>
    BY DEF vars
<1>3. SizesCover'
    BY <1>1, <1>2, EntriesQuiet, CoversSteady DEF SizeInv, PoursAlike
<1>4. SizeRoom'
  <2>1. /\ Here' = Here /\ Mine' = Mine /\ PlainText' = PlainText /\ Arrived' = Arrived
      BY <1>2 DEF Here, Mine, Settled, PlainText, Arrived, Sent, Unsaved, Block
  <2> QED
      BY <1>2, <2>1 DEF SizeInv, SizeRoom
<1>5. SizeMade'
    BY <1>2 DEF SizeInv, SizeMade, Here
<1> QED
    BY <1>3, <1>4, <1>5 DEF SizeInv

LEMMA SizedMaking ==
    ASSUME Intact, SizeInv, CreateImage \/ CreateZero \/ CreatePointer
    PROVE  SizeInv'
<1>1. Steady
    BY StoreCreateImage, StoreCreateBlock DEF Intact
<1>2. pc \in Makes /\ pc' \in Makes /\ job' = job /\ drive' = drive /\ \E data : Write(fr.block, data)
    BY DEF CreateImage, CreateZero, CreatePointer, Makes, program
<1>3. fr'.entry = fr.entry
  <2>1. fr \in Frame
      BY ContextFacts DEF Intact, TypeOK
  <2> QED
      BY <2>1 DEF CreateImage, CreateZero, CreatePointer, Frame
<1>4. fr.entry \in Entries(Here) /\ fr.block \in DataArea
    BY <1>2, MakesFacts DEF Intact
<1>5. EntriesSame
    BY <1>2, <1>4, EntriesData DEF Intact
<1>6. pc \notin Pouring /\ pc' \notin Pouring
    BY <1>2 DEF Makes, Pouring
<1>7. SizesCover'
    BY <1>1, <1>5, <1>6, CoversSteady DEF SizeInv, PoursAlike
<1>8. SizeMade'
  <2>1. InodeAt(Here', fr.entry) = InodeAt(Here, fr.entry)
    <3>1. drive \in Drives /\ fr.entry \in Entries(disk[drive])
        BY <1>4, ContextFacts DEF Here, Intact
    <3>2. InodeAt(disk'[drive], fr.entry) = InodeAt(disk[drive], fr.entry)
        BY <1>5, <3>1 DEF EntriesSame
    <3> QED
        BY <1>2, <3>2 DEF Here
  <2> QED
      BY <1>2, <1>3, <2>1 DEF SizeInv, SizeMade
<1> QED
    BY <1>6, <1>7, <1>8 DEF SizeInv, SizeRoom

LEMMA SizedCreateInode ==
    ASSUME Intact, SizeInv, Calling("create"), NEW e \in FreeEntry(disk[drive], sb),
           CreateInode(e), pc' = "image", UNCHANGED <<drive, job>>, Spared
    PROVE  SizeInv'
<1> PICK block, ino, image : CreateInodeAs(e, block, ino, image)
    BY CreateInodeTerms
<1> USE DEF CreateInodeAs
<1> DEFINE dk  == disk[drive]
           b   == InodeSector(e)
           dk2 == WriteSector(dk, b, image)
<1>1. /\ dk \in Disk /\ dk = Here /\ pc = "run" /\ drive \in Drives
      /\ disk \in [Drives -> Disk]
      /\ lab \in DataArea /\ IsSuperblock(sb) /\ StartLab = lab /\ job.name \in Seq(Nat)
    BY ContextFacts, CallFacts DEF Here, Calling, Intact
<1>2. Steady
    BY StoreCreateInode DEF Intact
<1>3. e \in Positions /\ IsInode(e) /\ b <= TableEnd /\ e \notin Entries(dk)
    BY <1>1, FreeEntryFacts
<1>4. block \in DataArea
  <2>1. FreeBlocks(dk, sb, StartLab) # {}
      BY DEF Spared, BlockFound
  <2> QED
      BY <1>1, <2>1, Allocated
<1>5. ino \in Inode /\ ino.valid = 1 /\ ino.size = Len(job.name) + 1
  <2>1. InitialSize(job.name) \in Nat
      BY <1>1, LenProperties DEF InitialSize
  <2>2. block \in Nat
      BY <1>4, AreaFacts
  <2> DEFINE ptrs == [NoInode.ptrs EXCEPT ![0] = block]
  <2>3. ptrs \in [0 .. PtrsPerInode - 1 -> Nat]
      BY <2>2 DEF NoInode
  <2> HIDE DEF ptrs
  <2> QED
      BY <2>1, <2>3 DEF Inode, ptrs, InitialSize
<1>6. PutAt(dk, dk2, e, ino)
    BY <1>1, <1>3, <1>5, PutByWrite
<1>7. disk' = [disk EXCEPT ![drive] = dk2]
    BY DEF Write
<1> HIDE DEF dk2
<1>8. /\ Entries(dk2) = Entries(dk) \union {e}
      /\ \A p \in Entries(dk) : InodeAt(dk2, p) = InodeAt(dk, p)
  <2>1. InodeInTable(e)
      BY <1>3 DEF InodeInTable
  <2> QED
      BY <1>3, <1>5, <1>6, <2>1, PutEntries
<1>9. EntriesSame
    BY <1>1, <1>7, <1>8 DEF EntriesSame
<1>10. pc \notin Pouring /\ pc' \notin Pouring
    BY <1>1 DEF Pouring
<1>11. SizesCover'
    BY <1>2, <1>9, <1>10, CoversSteady DEF SizeInv, PoursAlike
<1>12. SizeMade'
  <2>1. fr'.entry = e
      BY DEF NoFrame
  <2>2. Here' = dk2
      BY <1>1, <1>7 DEF Here
  <2>3. InodeAt(dk2, e) = ino
      BY <1>6 DEF PutAt
  <2> QED
      BY <1>5, <2>1, <2>2, <2>3 DEF SizeMade
<1> QED
    BY <1>10, <1>11, <1>12 DEF SizeInv, SizeRoom

LEMMA SizedCreate ==
    ASSUME Intact, SizeInv, Create, Spared
    PROVE  SizeInv'
<1>1. Calling("create") /\ UNCHANGED <<drive, job>> /\ Steady
    BY CreateParts, StoreCreate DEF program, Intact
<1>2. PICK info \in Lookup("create", job.name) :
          stale' = info /\ (CreateFound(info) \/ CreateNone(info) \/ CreateNew(info))
    BY CreateParts
<1>3. CASE CreateFound(info) \/ CreateNone(info)
  <2>1. disk' = disk /\ pc = "run" /\ pc' = "run"
      BY <1>1, <1>3 DEF CreateFound, CreateNone, Return, Calling
  <2> QED
      BY <1>1, <2>1, EntriesQuiet, SizedIdle DEF Pouring, Makes
<1>4. CASE CreateNew(info)
  <2>1. pc' = "image"
      BY <1>4 DEF CreateNew
  <2>2. PICK e \in FreeEntry(disk[drive], sb) : CreateInode(e)
      BY <1>4 DEF CreateNew
  <2> QED
      BY <1>1, <2>1, <2>2, SizedCreateInode
<1> QED
    BY <1>2, <1>3, <1>4

(* file_write.                                                             *)
LEMMA RoomSteady ==
    ASSUME SizeInv, Steady, EntriesSame, drive \in Drives, pc \in Pouring, pc' \in Pouring,
           UNCHANGED <<payload, job, drive>>, Arrived' = Arrived,
           fr'.left = fr.left, fr'.info = fr.info
    PROVE  SizeInv'
<1>1. SizesCover'
    BY CoversSteady DEF SizeInv, PoursAlike
<1>2. PlainText' = PlainText
    BY DEF PlainText
<1>3. ASSUME NEW p \in Mine
      PROVE  /\ NameAt(Here', p) = NameAt(Here, p)
             /\ Text(Here', InodeAt(Here', p)) = Text(Here, InodeAt(Here, p))
  <2>1. TextSame(disk[drive], disk'[drive], Settled(drive))
      BY DEF Steady, SameTexts
  <2> QED
      BY <2>1 DEF TextSame, Here, Mine
<1>4. SizeRoom'
  <2>1. Mine' = Mine
      BY DEF Steady, SameInodes, Mine
  <2> QED
      BY <1>2, <1>3, <2>1 DEF SizeInv, SizeRoom
<1>5. pc' \notin Makes
    BY DEF Pouring, Makes
<1> QED
    BY <1>1, <1>4, <1>5 DEF SizeInv, SizeMade

LEMMA ArrivedPours == Intact /\ WritePlace /\ pc \in Pouring => Arrived \in Nat
  BY ArrivedIs DEF Pouring

LEMMA ArrivedNext == Intact' /\ WritePlace' /\ pc' \in Pouring => Arrived' \in Nat
<1>1. (Intact /\ WritePlace /\ pc \in Pouring => Arrived \in Nat)'
    BY ArrivedPours, PTL
<1> QED
    BY <1>1 DEF Pouring

LEMMA EndNat ==
    ASSUME Intact, NEW p \in Mine
    PROVE  /\ Text(Here, InodeAt(Here, p)) \in Texts /\ InodeAt(Here, p).size \in Nat
           /\ TextEnd(job.name, Text(Here, InodeAt(Here, p))) \in Nat
<1>1. Here \in Disk /\ p \in Entries(Here) /\ drive \in Drives /\ job.name \in Seq(Nat)
    BY ContextFacts DEF Intact
<1>2. IsFile(Here, p)
    BY <1>1 DEF Intact, FilesPacked, AreFiles, Here, Mine
<1>3. Text(Here, InodeAt(Here, p)) \in Texts
    BY <1>1, <1>2, FileIsText
<1>4. InodeAt(Here, p).size \in Nat
    BY <1>1, EntryInode DEF Inode
<1>5. Len(job.name) \in Nat /\ Len(Text(Here, InodeAt(Here, p))) \in Nat
    BY <1>1, <1>3, LenProperties DEF Texts
<1> QED
    BY <1>3, <1>4, <1>5 DEF TextEnd

LEMMA SizedLoop ==
    ASSUME Intact, Context', WritePlace, WordsSuffice, SizeInv, Spared,
           WritePointer \/ WriteNextPointer \/ WriteAllocate \/ WriteFull
    PROVE  SizeInv'
<1>1. /\ pc \in {"pointers", "blocks"} /\ pc' \in {"blocks", "size"} /\ Arrived' = Arrived
      /\ Steady /\ UNCHANGED <<payload, job, drive>>
    BY PlacePointer, PlaceNextPointer, PlaceAllocate, PlaceFull
<1>2. fr \in Frame /\ drive \in Drives
    BY ContextFacts DEF Intact, TypeOK
<1>3. fr'.left = fr.left /\ fr'.info = fr.info
  <2>1. CASE WritePointer
      BY <1>2, <2>1 DEF WritePointer, Frame
  <2>2. CASE WriteNextPointer
      BY <1>2, <2>2 DEF WriteNextPointer, Frame
  <2>3. CASE WriteAllocate
    <3>1. PICK buf : fr' = [fr EXCEPT !.buf = buf]
        BY <2>3 DEF WriteAllocate
    <3> QED
        BY <1>2, <3>1 DEF Frame
  <2>4. CASE WriteFull
    <3>1. \/ fr' = [fr EXCEPT !.j = @ + 1]
          \/ \E buf : fr' = [fr EXCEPT !.j = @ + 1, !.buf = buf]
        BY <2>4 DEF WriteFull
    <3> QED
        BY <1>2, <3>1 DEF Frame
  <2> QED
      BY <2>1, <2>2, <2>3, <2>4
<1>4. EntriesSame
  <2>1. \/ disk' = disk
        \/ pc = "blocks" /\ \E buf : Write(fr.info.ptrs[fr.i], buf)
    <3>1. CASE WritePointer \/ WriteNextPointer
        BY <3>1 DEF WritePointer, WriteNextPointer
    <3>2. CASE WriteAllocate
        BY <3>2 DEF WriteAllocate, AtBlock
    <3>3. CASE WriteFull
        BY <3>3 DEF WriteFull, AtBlock
    <3> QED
        BY <3>1, <3>2, <3>3
  <2>2. pc = "blocks" => fr.info.ptrs[fr.i] \in DataArea
      BY LoopFacts DEF Intact
  <2> QED
      BY <2>1, <2>2, EntriesQuiet, EntriesData DEF Intact
<1> QED
    BY <1>1, <1>2, <1>3, <1>4, RoomSteady DEF Pouring

LEMMA SizedCall ==
    ASSUME Intact, "write" \notin StaleCalls, WriteCall, SizeInv, SizesFit, Intact', WritePlace'
    PROVE  SizeInv'
<1>1. Calling("write") /\ pc = "run" /\ UNCHANGED <<disk, drive, job, payload, wsize>>
    BY WriteCallParts DEF Calling, program
<1>2. Steady
    BY StoreQuiet DEF Intact, Quiet
<1>3. EntriesSame /\ drive \in Drives
    BY <1>1, EntriesQuiet, ContextFacts DEF Intact
<1>4. PICK info \in Lookup("write", job.name) : WriteNone(info) \/ WriteFound(info)
    BY WriteCallParts
<1>5. CASE WriteNone(info)
  <2>1. pc' = "run"
      BY <1>5 DEF WriteNone, Return
  <2> QED
      BY <1>1, <1>2, <1>3, <2>1, SizedIdle DEF Pouring, Makes
<1>6. CASE WriteFound(info)
  <2>1. /\ info.valid = 1 /\ fr' = [NoFrame EXCEPT !.info = info, !.left = wsize]
        /\ pc' = "pointers"
      BY <1>6 DEF WriteFound
  <2>2. fr'.info = info /\ fr'.left = wsize
      BY <2>1 DEF NoFrame
  <2>3. Here' = Here /\ Mine' = Mine
      BY <1>1, <2>1 DEF Here, Mine, Settled, Makes
  <2>4. SizesCover'
    <3> SUFFICES ASSUME NEW d \in Drives, NEW p \in Settled(d)' PROVE Covered(disk'[d], p)
        BY DEF SizesCover
    <3>1. p \in Settled(d)
        BY <1>2 DEF Steady, SameInodes
    <3> QED
        BY <1>1, <3>1 DEF SizeInv, SizesCover, Pours, Pouring
  <2>5. PICK p \in Mine :
            /\ Matches(Here, job.name) = {p} /\ NameAt(Here, p) = job.name
            /\ info = InodeAt(Here, p)
    <3>1. CASE Matches(Here, job.name) = {}
      <4>1. Lookup("write", job.name) = {NoInode}
          BY <3>1 DEF Lookup, GetFileInfo, Here
      <4> QED
          BY <2>1, <4>1 DEF NoInode
    <3>2. CASE Matches(Here, job.name) # {}
        BY <1>1, <3>2, LookupFacts DEF Intact
    <3> QED
        BY <3>1, <3>2
  <2>6. 0 <= wsize /\ info.size + wsize < WordRange
      BY <1>1, <2>5 DEF SizesFit
  <2>7. Arrived' \in Nat /\ Len(PlainText) <= wsize /\ Len(PlainText) \in Nat /\ wsize \in Int
        /\ PlainText' = PlainText
    <3>1. Arrived' \in Nat
        BY <2>1, ArrivedNext DEF Pouring
    <3>2. wsize \in Int
        BY ContextFacts DEF Intact, TypeOK
    <3>3. Max({wsize, 0}) = wsize
      <4>1. Max({wsize, 0}) = IF wsize >= 0 THEN wsize ELSE 0
          BY <3>2, MaxOfTwo
      <4> QED
          BY <2>6, <3>2, <4>1
    <3> QED
        BY <1>1, <3>1, <3>2, <3>3, PlainTextIs DEF PlainText
  <2>8. ASSUME NEW q \in Mine, NameAt(Here, q) = job.name
        PROVE  TextEnd(job.name, Text(Here, InodeAt(Here, q))) <= info.size
    <3>1. q = p
      <4>1. Separate(Here, Mine)
          BY ContextFacts DEF Intact
      <4> QED
          BY <2>5, <2>8, <4>1 DEF Separate, NamedOnce
    <3>2. Covered(Here, p)
        BY <1>1, <1>3, <2>5 DEF SizeInv, SizesCover, Pours, Pouring, Here, Mine
    <3> QED
        BY <2>5, <3>1, <3>2 DEF Covered
  <2>9. ASSUME NEW q \in Mine, NameAt(Here, q) = job.name
        PROVE  TextEnd(job.name, Text(Here, InodeAt(Here, q))) + Len(PlainText)
                   <= info.size + wsize + Arrived'
    <3>1. TextEnd(job.name, Text(Here, InodeAt(Here, q))) \in Nat
        BY <2>9, EndNat
    <3>2. info.size \in Nat
        BY <2>5, EndNat
    <3> QED
        BY <2>7, <2>8, <2>9, <3>1, <3>2
  <2>10. SizeRoom'
      BY <1>1, <2>2, <2>3, <2>6, <2>7, <2>9 DEF SizeRoom
  <2> QED
      BY <2>1, <2>4, <2>10 DEF SizeInv, SizeMade, Makes
<1> QED
    BY <1>4, <1>5, <1>6

LEMMA InodeStored ==
    ASSUME Context, pc \in Writes, NEW ino \in Inode, ino.valid = 1, ino.ptrs = fr.info.ptrs,
           NEW dk2, dk2 = SetFileInfo(Here, job.name, ino), NEW q \in Mine
    PROVE  /\ NameAt(Here, q) # job.name => InodeAt(dk2, q) = InodeAt(Here, q)
           /\ NameAt(Here, q) = job.name => InodeAt(dk2, q) = ino
<1>1. /\ Here \in Disk /\ Mine \in SUBSET Entries(Here) /\ Separate(Here, Mine)
      /\ drive \in Drives /\ Mine = Entries(Here)
    BY ContextFacts, WritesFacts
<1>2. Reached(Here, NullFiles) = Entries(Here)
    BY <1>1 DEF Context, EntriesShown, Formats, Writes, Here
<1>3. NamedOnce(Here, Mine)
    BY <1>1 DEF Separate
<1>4. CASE Matches(Here, job.name) = {} /\ NoneNamed(Here, Entries(Here), job.name)
  <2>1. dk2 = Here
      BY <1>1, <1>4, UpdateNone
  <2> QED
      BY <1>1, <1>4, <2>1 DEF NoneNamed
<1>5. ASSUME NEW p \in Mine, Matches(Here, job.name) = {p}, NameAt(Here, p) = job.name
      PROVE  /\ NameAt(Here, q) # job.name => InodeAt(dk2, q) = InodeAt(Here, q)
             /\ NameAt(Here, q) = job.name => InodeAt(dk2, q) = ino
  <2>1. p \in Positions /\ IsInode(p) /\ InodeSector(p) <= TableEnd
      BY <1>1, EntryFacts
  <2>2. dk2 = WriteSector(Here, InodeSector(p), WithInode(Here[InodeSector(p)], p, ino))
      BY <1>1, <1>5, <2>1, UpdateOne
  <2>3. PutAt(Here, dk2, p, ino)
      BY <1>1, <2>1, <2>2, PutByWrite
  <2>4. InodeInTable(p)
      BY <2>1 DEF InodeInTable
  <2>5. /\ Entries(dk2) = Entries(Here) \union {p}
        /\ \A x \in Entries(Here) : x # p => InodeAt(dk2, x) = InodeAt(Here, x)
      BY <2>3, <2>4, PutEntries
  <2>6. InodeAt(dk2, p) = ino
      BY <2>3 DEF PutAt
  <2>7. NameAt(Here, q) = job.name => q = p
      BY <1>3, <1>5 DEF NamedOnce
  <2> QED
      BY <1>1, <1>5, <2>5, <2>6, <2>7
<1> QED
    BY <1>1, <1>2, <1>3, <1>4, <1>5, MatchesOne

(* The inode of the file that is written, and no other.                    *)
StoredAs(ino) ==
    /\ \A d \in Drives : \A q \in Settled(d) :
          Pours(d, q) \/ InodeAt(disk'[d], q) = InodeAt(disk[d], q)
    /\ \A q \in Mine : NameAt(Here, q) = job.name => InodeAt(Here', q) = ino

LEMMA StoredInode ==
    ASSUME Intact, pc \in Pouring, NEW ino \in Inode, ino.valid = 1, ino.ptrs = fr.info.ptrs,
           disk' = [disk EXCEPT ![drive] = SetFileInfo(Here, job.name, ino)], drive' = drive
    PROVE  StoredAs(ino)
<1> DEFINE dk2 == SetFileInfo(Here, job.name, ino)
<1>1. \A q \in Mine : /\ NameAt(Here, q) # job.name => InodeAt(dk2, q) = InodeAt(Here, q)
                      /\ NameAt(Here, q) = job.name => InodeAt(dk2, q) = ino
    BY InodeStored DEF Intact, Pouring, Writes
<1> HIDE DEF dk2
<1>2. /\ drive \in Drives /\ disk \in [Drives -> Disk] /\ Here = disk[drive]
      /\ Mine = Settled(drive)
    BY ContextFacts DEF Intact, Here, Mine
<1>3. disk'[drive] = dk2 /\ Here' = dk2
    BY <1>2 DEF Here, dk2
<1>4. \A d \in Drives : d # drive => disk'[d] = disk[d]
    BY <1>2
<1>5. \A d \in Drives : \A q \in Settled(d) :
          Pours(d, q) \/ InodeAt(disk'[d], q) = InodeAt(disk[d], q)
    BY <1>1, <1>2, <1>3, <1>4 DEF Pours
<1> QED
    BY <1>1, <1>3, <1>5 DEF StoredAs

LEMMA NamesAlike ==
    ASSUME Steady, NEW d \in Drives, NEW q \in Settled(d)
    PROVE  /\ NameAt(disk'[d], q) = NameAt(disk[d], q)
           /\ Text(disk'[d], InodeAt(disk'[d], q)) = Text(disk[d], InodeAt(disk[d], q))
<1>1. TextSame(disk[d], disk'[d], Settled(d))
    BY DEF Steady, SameTexts
<1> QED
    BY <1>1 DEF TextSame

LEMMA MineAlike ==
    ASSUME Context, Steady, drive' = drive, NEW q \in Mine
    PROVE  /\ NameAt(Here', q) = NameAt(Here, q)
           /\ Text(Here', InodeAt(Here', q)) = Text(Here, InodeAt(Here, q))
           /\ Mine' = Mine
<1>1. drive \in Drives
    BY ContextFacts
<1>2. Mine' = Mine
    BY <1>1 DEF Steady, SameInodes, Mine
<1> QED
    BY <1>1, <1>2, NamesAlike DEF Here, Mine

LEMMA SizedFill ==
    ASSUME Intact, Context', WritePlace, WriteFill, SizeInv
    PROVE  SizeInv'
<1> DEFINE n == FillCount(Block, fr.i = 0 /\ fr.j = 0, fr.left)
<1>1. /\ pc = "blocks" /\ pc' = "data" /\ fr.j \in Cells /\ fr.buf[fr.j] # 0
      /\ UNCHANGED <<drive, job, payload>>
      /\ disk' = [disk EXCEPT ![drive] = SetFileInfo(Here, job.name, FillInfo)]
      /\ FillInfo \in Inode /\ FillInfo.valid = 1 /\ FillInfo.ptrs = fr.info.ptrs
      /\ fr'.info = FillInfo
    BY FillParts DEF Intact
<1>2. Steady /\ Arrived' = Arrived
    BY PlaceFill
<1>3. fr \in Frame /\ fr.info \in Inode /\ fr.left \in Int /\ fr.info.size \in Nat
    BY <1>1, WritesFacts DEF Intact, Writes, Frame, Inode
<1>4. fr'.left = fr.left - n
  <2>1. \E info, total, data :
            fr' = [fr EXCEPT !.info = info, !.left = @ - n, !.total = total, !.data = data]
      BY DEF WriteFill
  <2> HIDE DEF n
  <2> QED
      BY <1>3, <2>1 DEF Frame
<1>5. 0 <= fr.left /\ fr.info.size + fr.left < WordRange
    BY <1>1 DEF SizeInv, SizeRoom, Pouring
<1>6. n \in Nat /\ n <= fr.left
  <2>1. Here \in Disk /\ fr.buf[fr.j] \in DataArea
      BY <1>1, LoopFacts, ContextFacts DEF Intact
  <2>2. Block \in Sector
      BY <2>1, DataOutside DEF Block, ReadSector, Here, Disk
  <2> QED
      BY <1>3, <1>5, <2>2, FillCountType
<1>7. FillInfo.size = fr.info.size + n
  <2>1. FillInfo.size = (fr.info.size + n) % WordRange
      BY <1>3 DEF FillInfo, Inode
  <2>2. fr.info.size + n \in 0 .. WordRange - 1
      BY <1>3, <1>5, <1>6, DiskAssumption
  <2> HIDE DEF n
  <2> QED
      BY <2>1, <2>2, DiskAssumption
<1> HIDE DEF n
<1>8. StoredAs(FillInfo)
    BY <1>1, StoredInode DEF Pouring
<1>9. SizesCover'
  <2>1. ASSUME NEW d \in Drives, NEW q \in Settled(d)
        PROVE  /\ NameAt(disk'[d], q) = NameAt(disk[d], q)
               /\ Pours(d, q) \/ /\ Text(disk'[d], InodeAt(disk'[d], q))
                                       = Text(disk[d], InodeAt(disk[d], q))
                                 /\ InodeAt(disk'[d], q).size = InodeAt(disk[d], q).size
      BY <1>2, <1>8, NamesAlike DEF StoredAs
  <2> QED
      BY <1>1, <1>2, <2>1, CoversKept DEF Steady, SizeInv, PoursAlike, Pouring
<1>10. SizeRoom'
  <2>1. ASSUME NEW q \in Mine', NameAt(Here', q) = job.name
        PROVE  TextEnd(job.name, Text(Here', InodeAt(Here', q))) + Len(PlainText')
                   <= fr'.info.size + fr'.left + Arrived'
    <3>1. q \in Mine
      <4>1. drive \in Drives
          BY ContextFacts DEF Intact
      <4> QED
          BY <1>1, <1>2, <4>1 DEF Steady, SameInodes, Mine
    <3>2. NameAt(Here, q) = job.name /\ Text(Here', InodeAt(Here', q)) = Text(Here, InodeAt(Here, q))
        BY <1>1, <1>2, <2>1, <3>1, MineAlike DEF Intact
    <3>3. TextEnd(job.name, Text(Here, InodeAt(Here, q))) + Len(PlainText)
              <= fr.info.size + fr.left + Arrived
        BY <1>1, <3>1, <3>2 DEF SizeInv, SizeRoom, Pouring
    <3>4. PlainText' = PlainText
        BY <1>1 DEF PlainText
    <3>5. fr'.info.size + fr'.left = fr.info.size + fr.left
        BY <1>1, <1>3, <1>4, <1>6, <1>7
    <3> QED
        BY <1>2, <3>2, <3>3, <3>4, <3>5
  <2>2. 0 <= fr'.left /\ fr'.info.size + fr'.left < WordRange
      BY <1>1, <1>3, <1>4, <1>5, <1>6, <1>7
  <2> QED
      BY <1>1, <2>1, <2>2 DEF SizeRoom
<1> QED
    BY <1>1, <1>9, <1>10 DEF SizeInv, SizeMade, Makes

LEMMA SizedData ==
    ASSUME Intact, Context', WritePlace, WriteData, Spared, SizeInv
    PROVE  SizeInv'
<1>1. /\ pc = "data" /\ pc' \in {"blocks", "size"} /\ SameInodes
      /\ UNCHANGED <<payload, job, drive>>
      /\ Unsaved \in Nat /\ Unsaved <= Sent /\ Arrived' = Sent /\ Arrived = Sent - Unsaved
      /\ \E p : PieceAdded(p, Piece)
    BY PlaceData
<1>2. PICK p : PieceAdded(p, Piece)
    BY <1>1
<1>3. /\ p \in Mine /\ NameAt(Here, p) = job.name /\ NameAt(Here', p) = job.name
      /\ Text(Here', InodeAt(Here', p)) = Text(Here, InodeAt(Here, p)) \o Piece
      /\ TextSame(Here, Here', Mine \ {p})
      /\ \A d \in Drives : d # drive => disk'[d] = disk[d]
    BY <1>2 DEF PieceAdded
<1>4. /\ Write(fr.buf[fr.j], fr.data) /\ fr'.info = fr.info
    BY DataParts
<1>5. /\ drive \in Drives /\ Here = disk[drive] /\ Here' = disk'[drive]
      /\ Mine = Settled(drive) /\ Separate(Here, Mine) /\ fr \in Frame
      /\ job.name \in Seq(Nat)
    BY <1>1, ContextFacts DEF Intact, TypeOK, Here, Mine
<1>6. fr'.left = fr.left
  <2>1. fr' = fr \/ fr' = [fr EXCEPT !.j = @ + 1]
      BY <1>1 DEF WriteData
  <2> QED
      BY <1>5, <2>1 DEF Frame
<1>7. EntriesSame
  <2>1. fr.j \in Cells /\ fr.buf[fr.j] # 0
      BY <1>1 DEF Intact, Context, Owned, InWrite
  <2>2. fr.buf[fr.j] \in DataArea
      BY <1>1, <2>1, LoopFacts DEF Intact
  <2> QED
      BY <1>4, <2>2, EntriesData DEF Intact
<1>8. \A d \in Drives : \A q \in Settled(d) : InodeAt(disk'[d], q) = InodeAt(disk[d], q)
    BY <1>7 DEF EntriesSame, Settled
<1>9. ASSUME NEW d \in Drives, NEW q \in Settled(d)
      PROVE  /\ NameAt(disk'[d], q) = NameAt(disk[d], q)
             /\ Pours(d, q) \/ /\ Text(disk'[d], InodeAt(disk'[d], q))
                                     = Text(disk[d], InodeAt(disk[d], q))
                               /\ InodeAt(disk'[d], q).size = InodeAt(disk[d], q).size
  <2>1. CASE d # drive
      BY <1>3, <2>1
  <2>2. CASE d = drive /\ q = p
      BY <1>1, <1>3, <1>5, <2>2 DEF Pours, Pouring
  <2>3. CASE d = drive /\ q # p
      BY <1>3, <1>5, <1>8, <2>3 DEF TextSame
  <2> QED
      BY <2>1, <2>2, <2>3
<1>10. SizesCover'
    BY <1>1, <1>9, CoversKept DEF SizeInv, PoursAlike, Pouring
<1>11. Piece \in Texts /\ Len(Piece) = Unsaved
  <2>1. PlainText \in Texts /\ Sent \in Nat /\ Sent <= Len(PlainText)
      BY <1>1, PlainTextIs, CountIs DEF Writes
  <2>2. PICK a \in Nat : a = Sent - Unsaved
      BY <1>1, <2>1
  <2>3. a <= Sent
      BY <1>1, <2>1, <2>2
  <2>4. SubSeq(PlainText, a + 1, Sent) \in Texts /\ Len(SubSeq(PlainText, a + 1, Sent)) = Sent - a
      BY <2>1, <2>3, PieceOf
  <2>5. Sent - a = Unsaved
      BY <1>1, <2>1, <2>2
  <2> QED
      BY <2>2, <2>4, <2>5 DEF Piece
<1>12. TextEnd(job.name, Text(Here', InodeAt(Here', p)))
           = TextEnd(job.name, Text(Here, InodeAt(Here, p))) + Unsaved
  <2>1. Text(Here, InodeAt(Here, p)) \in Texts
      BY <1>3, EndNat
  <2>2. PICK t : t = Text(Here, InodeAt(Here, p))
      OBVIOUS
  <2>3. TextEnd(job.name, t \o Piece) = TextEnd(job.name, t) + Len(Piece)
      BY <1>5, <1>11, <2>1, <2>2, JoinContent
  <2> QED
      BY <1>3, <1>11, <2>2, <2>3
<1>13. SizeRoom'
  <2>1. 0 <= fr'.left /\ fr'.info.size + fr'.left < WordRange
      BY <1>1, <1>4, <1>6 DEF SizeInv, SizeRoom, Pouring
  <2>2. ASSUME NEW q \in Mine', NameAt(Here', q) = job'.name
        PROVE  TextEnd(job'.name, Text(Here', InodeAt(Here', q))) + Len(PlainText')
                   <= fr'.info.size + fr'.left + Arrived'
    <3>1. q \in Mine
        BY <1>1, <1>5 DEF SameInodes, Mine
    <3>2. NameAt(Here, q) = job.name
        BY <1>1, <1>5, <1>9, <2>2, <3>1
    <3>3. q = p
        BY <1>3, <1>5, <3>1, <3>2 DEF Separate, NamedOnce
    <3>4. TextEnd(job.name, Text(Here, InodeAt(Here, p))) + Len(PlainText)
              <= fr.info.size + fr.left + Arrived
        BY <1>1, <1>3 DEF SizeInv, SizeRoom, Pouring
    <3>5. PlainText' = PlainText
        BY <1>1 DEF PlainText
    <3>6. /\ TextEnd(job.name, Text(Here, InodeAt(Here, p))) \in Nat
          /\ fr.info.size \in Nat /\ fr.left \in Int /\ Sent \in Nat /\ Len(PlainText) \in Nat
        BY <1>1, <1>3, <1>5, EndNat, CountIs, PlainTextIs DEF Frame, Inode, Writes
    <3>7. TextEnd(job.name, Text(Here, InodeAt(Here, p))) + Unsaved + Len(PlainText)
              <= fr.info.size + fr.left + Sent
        BY <1>1, <3>4, <3>6
    <3> QED
        BY <1>1, <1>4, <1>6, <1>12, <3>3, <3>5, <3>7
  <2> QED
      BY <2>1, <2>2 DEF SizeRoom
<1> QED
    BY <1>1, <1>10, <1>13 DEF SizeInv, SizeMade, Makes

LEMMA SizedSize ==
    ASSUME Intact, Context', WritePlace, WriteSize, SizeInv
    PROVE  SizeInv'
<1> DEFINE info == [fr.info EXCEPT !.size = (@ + fr.left) % WordRange]
<1>1. /\ pc = "size" /\ pc' = "written" /\ UNCHANGED <<drive, job, payload>>
      /\ disk' = [disk EXCEPT ![drive] = SetFileInfo(Here, job.name, info)]
    BY DEF WriteSize, Here, program
<1>2. Steady
    BY StoreSize DEF Intact
<1>3. /\ fr.info \in Inode /\ fr.info.valid = 1 /\ fr.left \in Int /\ fr.info.size \in Nat
    BY <1>1, WritesFacts DEF Intact, Writes, Frame, Inode
<1>4. 0 <= fr.left /\ fr.info.size + fr.left < WordRange
    BY <1>1 DEF SizeInv, SizeRoom, Pouring
<1>5. /\ info \in Inode /\ info.valid = 1 /\ info.ptrs = fr.info.ptrs
      /\ info.size = fr.info.size + fr.left
  <2>1. fr.info.size + fr.left \in 0 .. WordRange - 1
      BY <1>3, <1>4, DiskAssumption
  <2>2. (fr.info.size + fr.left) % WordRange = fr.info.size + fr.left
      BY <2>1, DiskAssumption
  <2> QED
      BY <1>3, <2>1, <2>2 DEF Inode
<1> HIDE DEF info
<1>6. StoredAs(info)
    BY <1>1, <1>5, StoredInode DEF Pouring
<1>7. Arrived \in Nat /\ Arrived <= Len(PlainText) /\ Len(PlainText) \in Nat
    BY <1>1, ArrivedIs, PlainTextIs
<1>8. SizesCover'
  <2> SUFFICES ASSUME NEW d \in Drives, NEW q \in Settled(d)' PROVE Covered(disk'[d], q)
      BY DEF SizesCover
  <2>1. q \in Settled(d)
      BY <1>2 DEF Steady, SameInodes
  <2>2. /\ NameAt(disk'[d], q) = NameAt(disk[d], q)
        /\ Text(disk'[d], InodeAt(disk'[d], q)) = Text(disk[d], InodeAt(disk[d], q))
      BY <1>2, <2>1, NamesAlike
  <2>3. CASE ~Pours(d, q)
    <3>1. InodeAt(disk'[d], q) = InodeAt(disk[d], q)
        BY <1>6, <2>1, <2>3 DEF StoredAs
    <3>2. Covered(disk[d], q)
        BY <2>1, <2>3 DEF SizeInv, SizesCover
    <3> QED
        BY <2>2, <3>1, <3>2 DEF Covered
  <2>4. CASE Pours(d, q)
    <3>1. d = drive /\ q \in Mine /\ NameAt(Here, q) = job.name
        BY <2>1, <2>4 DEF Pours, Here, Mine
    <3>2. InodeAt(disk'[d], q) = info
        BY <1>1, <1>6, <3>1 DEF StoredAs, Here
    <3>3. TextEnd(job.name, Text(Here, InodeAt(Here, q))) + Len(PlainText)
              <= fr.info.size + fr.left + Arrived
        BY <1>1, <3>1 DEF SizeInv, SizeRoom, Pouring
    <3>4. TextEnd(job.name, Text(Here, InodeAt(Here, q))) \in Nat
        BY <3>1, EndNat
    <3>5. TextEnd(job.name, Text(Here, InodeAt(Here, q))) <= info.size
        BY <1>3, <1>5, <1>7, <3>3, <3>4
    <3> QED
        BY <2>2, <3>1, <3>2, <3>5 DEF Covered, Here
  <2> QED
      BY <2>3, <2>4
<1> QED
    BY <1>1, <1>8 DEF SizeInv, SizeRoom, SizeMade, Pouring, Makes

Made == StoreInv /\ HalfMade

LEMMA MadeFacts ==
    ASSUME Made
    PROVE  /\ Context /\ FilesPacked /\ BlocksClean /\ Intact /\ FormatsShown /\ WritePlace
           /\ pc \notin Formats => Seeable
           /\ pc \notin {"off", "shell"} => job.name \in Names
  BY NameKnown DEF Made, StoreInv, Intact, Seeable

LEMMA MadeFactsNext ==
    ASSUME Made'
    PROVE  /\ Context' /\ Intact' /\ WritePlace' /\ HalfMade' /\ CopyMade'
           /\ pc' \notin Formats => Seeable'
  BY DEF Made, StoreInv, Intact, Seeable

LEMMA MadeStep ==
    ASSUME Made, Made', CreateName \/ Delete
    PROVE  /\ CreateName => MadeFile /\ FilesMade
           /\ Delete => FilesKept
<1>1. pc \notin {"off", "shell"} \union Formats /\ pc' \notin Formats
  <2>1. CASE CreateName
      BY <2>1 DEF CreateName, Formats
  <2>2. CASE Delete
    <3>1. PICK info \in Lookup("delete", job.name) : DeleteNone(info) \/ DeleteFound(info)
        BY <2>2, DeleteParts
    <3>2. Calling("delete")
        BY <2>2 DEF Delete
    <3> QED
        BY <3>1, <3>2 DEF DeleteNone, DeleteFound, Return, Calling, Formats
  <2> QED
      BY <2>1, <2>2
<1>2. Context /\ FilesPacked /\ BlocksClean /\ Seeable /\ job.name \in Names
    BY <1>1, MadeFacts
<1>3. Seeable'
    BY <1>1, MadeFactsNext
<1>4. CASE CreateName
    BY <1>2, <1>3, <1>4, StoreCreateName DEF CreateName, Delete, Calling
<1>5. CASE Delete
    BY <1>2, <1>3, <1>5, StoreDelete DEF CreateName, Delete, Calling
<1> QED
    BY <1>4, <1>5

LEMMA SizeInvNext ==
    ASSUME Made, Made', WordsSuffice, SizesFit, "write" \notin StaleCalls, SizeInv,
           [Next /\ Spared]_vars
    PROVE  SizeInv'
<1>0. /\ Intact /\ Intact' /\ Context /\ Context' /\ WritePlace /\ WritePlace' /\ FormatsShown
      /\ FilesPacked /\ BlocksClean
    BY MadeFacts, MadeFactsNext
<1>1. CASE UNCHANGED vars
    BY <1>0, <1>1, SizedStutter
<1>2. ASSUME Next, Spared PROVE SizeInv'
  <2>1. CASE FileCreate
    <3>1. CASE CreateName
        BY <1>0, <3>1, MadeStep, SizedName
    <3> QED
        BY <1>0, <1>2, <2>1, <3>1, SizedCreate, SizedMaking, SizedSaved DEF FileCreate
  <2>2. CASE FileDelete
    <3>1. CASE Delete
        BY <3>1, MadeStep, SizedFewer
    <3> QED
        BY <1>0, <2>2, <3>1, SizedQuiet, SizedWipe, SizedSaved DEF FileDelete
  <2>3. CASE FileWrite
    <3>1. ~WriteChain
        BY <1>0, OwnedWriteChain
    <3>2. CASE WriteCall
        BY <1>0, <3>2, SizedCall
    <3>3. CASE WritePointer \/ WriteNextPointer \/ WriteAllocate \/ WriteFull
        BY <1>0, <1>2, <3>3, SizedLoop
    <3>4. CASE WriteFill \/ WriteData \/ WriteSize \/ WriteSave
        BY <1>0, <1>2, <3>4, SizedFill, SizedData, SizedSize, SizedSaved
    <3> QED
        BY <2>3, <3>1, <3>2, <3>3, <3>4 DEF FileWrite
  <2>4. CASE FormatDisk
    <3>1. CASE FormatInodes
        BY <1>0, <3>1, StoreFormatInodes, SizedFewer
    <3> QED
        BY <1>0, <2>4, <3>1, SizedFormat DEF FormatDisk
  <2>5. CASE Boot
      BY <1>0, <2>5, SizedBoot
  <2>6. CASE Exit \/ SelectDrive \/ Fetch \/ Retry \/ \E j \in Commands : Execute(j)
      BY <1>0, <2>6, SizedQuiet
  <2>7. CASE Crash
      BY <1>0, <1>2, <2>7, NoCrash
  <2>8. CASE Look
      BY <1>0, <2>8, SizedStutter DEF Look
  <2> QED
      BY <1>2, <2>1, <2>2, <2>3, <2>4, <2>5, <2>6, <2>7, <2>8 DEF Next, Step
<1> QED
    BY <1>1, <1>2

LEMMA SizeInit == Init /\ SizesCover => SizeInv
  BY DEF Init, SizeInv, SizeRoom, SizeMade, Pouring, Makes

LEMMA SizesShown == Context /\ SizeInv => SizeCoversText
<1> SUFFICES ASSUME Context, SizeInv, AtShell, NEW d \in Drives, NEW n \in Names,
                    NEW p \in Matches(disk[d], n), NEW text,
                    text = Text(disk[d], InodeAt(disk[d], p)), text # <<>>
             PROVE  InodeAt(disk[d], p).size >= Len(n) + 1 + Len(text)
    BY DEF SizeCoversText, SizeCovers
<1>1. p \in Files(d) /\ NameAt(disk[d], p) = n
    BY DEF Matches, Files, NameAt
<1>2. p \in Settled(d)
  <2>1. p \in Entries(disk[d])
      BY <1>1, FilesOwned
  <2> QED
      BY <2>1 DEF Settled, AtShell, Makes
<1>3. Covered(disk[d], p)
    BY <1>2 DEF SizeInv, SizesCover, Pours, Pouring, AtShell
<1> QED
    BY <1>1, <1>3 DEF Covered, TextEnd

(* Whenever the shell waits, the size on record of a file covers its name, *)
(* the NUL behind it and all of its text: for drives whose files are so at *)
(* the start, for every number of drives and commands, and as long as      *)
(* programs pass file_write sizes that are not negative and that, added to *)
(* the size on record, stay in an int.  The code nowhere computes the size *)
(* from the text: file_write (fs.c) adds to it what it puts into each      *)
(* block, before the block is written, and at its end what it could not    *)
(* put anywhere.                                                           *)
THEOREM SizesStayCovered ==
    ASSUME TypedText, "write" \notin StaleCalls
    PROVE  SparedSpec /\ FilesPacked /\ BlocksClean /\ SizesCover
              /\ []WordsSuffice /\ []HalfMade /\ []SizesFit => []SizeCoversText
<1>1. Init /\ InUse /\ EntriesShown /\ FilesPacked /\ BlocksClean => StoreInv
    BY StoreInit
<1>2. StoreInv /\ HalfMade /\ HalfMade' /\ WordsSuffice /\ [Next /\ Spared]_vars => StoreInv'
    BY StoreInvNext
<1>3. Init /\ SizesCover => SizeInv
    BY SizeInit
<1>4. /\ StoreInv /\ StoreInv' /\ HalfMade /\ HalfMade' /\ WordsSuffice /\ SizesFit /\ SizeInv
      /\ [Next /\ Spared]_vars
      => SizeInv'
    BY SizeInvNext DEF Made
<1>5. StoreInv /\ SizeInv => SizeCoversText
    BY SizesShown DEF StoreInv, Intact
<1> QED
    BY <1>1, <1>2, <1>3, <1>4, <1>5, PTL DEF SparedSpec

-----------------------------------------------------------------------------
(* What file_create says.                                                  *)

MadeEmpty == pc = "created" => FileText(Here, job.name) = <<>>

LEMMA MadeEmptyNext ==
    ASSUME Made, Made', MadeEmpty, [Next /\ Spared]_vars
    PROVE  MadeEmpty'
<1> SUFFICES ASSUME pc' = "created" PROVE FileText(Here', job'.name) = <<>>
    BY DEF MadeEmpty
<1>1. CreateName \/ UNCHANGED vars
  <2>1. ASSUME Boot \/ Exit \/ SelectDrive \/ Fetch \/ Retry \/ \E j \in Commands : Execute(j)
        PROVE  FALSE
    <3>1. CASE Boot
        BY <3>1, MadeFacts, StoreBoot
    <3> QED
        BY <2>1, <3>1 DEF Exit, SelectDrive, Fetch, Retry, Calling, Return, Execute
  <2>2. ASSUME FileCreate PROVE CreateName
    <3>1. CASE Create
      <4>1. PICK info \in Lookup("create", job.name) :
                CreateFound(info) \/ CreateNone(info) \/ CreateNew(info)
          BY <3>1, CreateParts
      <4> QED
          BY <4>1 DEF CreateFound, CreateNone, CreateNew, Return
    <3> QED
        BY <2>2, <3>1 DEF FileCreate, CreateImage, CreateZero, CreatePointer, CreateSave, Return
  <2>3. ASSUME FileDelete PROVE FALSE
    <3>1. CASE Delete
      <4>1. PICK info \in Lookup("delete", job.name) : DeleteNone(info) \/ DeleteFound(info)
          BY <3>1, DeleteParts
      <4> QED
          BY <4>1 DEF DeleteNone, DeleteFound, Return
    <3>2. CASE DeleteWipe
        BY <3>2, WipeParts DEF WipeNothing, WipeBlock
    <3> QED
        BY <2>3, <3>1, <3>2 DEF FileDelete, DeleteLoad, DeleteSave, Return
  <2>4. ASSUME FileWrite PROVE FALSE
    <3>1. CASE WriteCall
      <4>1. PICK info \in Lookup("write", job.name) : WriteNone(info) \/ WriteFound(info)
          BY <3>1, WriteCallParts
      <4> QED
          BY <4>1 DEF WriteNone, WriteFound, Return
    <3>2. CASE WritePointer \/ WriteNextPointer \/ WriteAllocate \/ WriteFull
        BY <3>2 DEF WritePointer, WriteNextPointer, WriteAllocate, WriteFull, AtBlock
    <3>3. CASE WriteFill \/ WriteData \/ WriteChain
        BY <3>3 DEF WriteFill, WriteData, WriteChain
    <3> QED
        BY <2>4, <3>1, <3>2, <3>3 DEF FileWrite, WriteSize, WriteSave, Return
  <2>5. ~FormatDisk
      BY DEF FormatDisk, Format, FormatSuperblock, FormatInodes, Return
  <2>6. ~Crash
      BY DEF Crash
  <2> QED
      BY <2>1, <2>2, <2>3, <2>4, <2>5, <2>6 DEF Next, Step, Look
<1>2. CASE CreateName
  <2>1. MadeFile /\ job' = job
      BY <1>2, MadeStep DEF CreateName, program
  <2> QED
      BY <2>1 DEF MadeFile
<1>3. CASE UNCHANGED vars
  <2>1. pc = pc' /\ Here' = Here /\ job' = job
      BY <1>3 DEF vars, Here
  <2> QED
      BY <2>1 DEF MadeEmpty
<1> QED
    BY <1>1, <1>2, <1>3

LEMMA CreatedShown ==
    ASSUME Made, Made', MadeEmpty, CreateSave
    PROVE  FileText(disk'[drive], job.name) = <<>>
<1>1. pc = "created" /\ pc' = "run"
    BY DEF CreateSave, Return
<1>2. Steady
    BY MadeFacts, StoreSave
<1>3. /\ Context /\ Context' /\ HalfMade /\ HalfMade' /\ CopyMade /\ CopyMade'
      /\ job.name \in Names /\ drive \in Drives
    BY <1>1, MadeFacts, MadeFactsNext, ContextFacts DEF Made, StoreInv
<1>4. SameFiles
    BY <1>1, <1>2, <1>3, SeenSame DEF Steady, Formats
<1> QED
    BY <1>1, <1>3, <1>4 DEF SameFiles, MadeEmpty, Here

(* When file_create returns 0 the file is there and it is empty: what made *)
(* it visible is the last of its five writes of sectors, that of the name, *)
(* and the save of the superblock that follows changes no file.            *)
THEOREM CreatedFilesThere ==
    ASSUME TypedText, "write" \notin StaleCalls
    PROVE  SparedSpec /\ FilesPacked /\ BlocksClean /\ []WordsSuffice /\ []HalfMade
              => CreatedFileThere
<1>1. Init /\ InUse /\ EntriesShown /\ FilesPacked /\ BlocksClean => StoreInv
    BY StoreInit
<1>2. StoreInv /\ HalfMade /\ HalfMade' /\ WordsSuffice /\ [Next /\ Spared]_vars => StoreInv'
    BY StoreInvNext
<1>3. Init => MadeEmpty
    BY DEF Init, MadeEmpty
<1>4. StoreInv /\ StoreInv' /\ HalfMade /\ HalfMade' /\ MadeEmpty /\ [Next /\ Spared]_vars
         => MadeEmpty'
    BY MadeEmptyNext DEF Made
<1>5. StoreInv /\ StoreInv' /\ HalfMade /\ HalfMade' /\ MadeEmpty /\ [Next /\ Spared]_vars
         => [CreateSave => FileText(disk'[drive], job.name) = <<>>]_vars
    BY CreatedShown DEF Made
<1> QED
    BY <1>1, <1>2, <1>3, <1>4, <1>5, PTL DEF SparedSpec, CreatedFileThere
=============================================================================
