--------------------------- MODULE Sectors_proofs ---------------------------
(***************************************************************************)
(* What becomes of the sectors that are no file's: those of the kernel,    *)
(* the superblock and its cursor, the table that is formatted, the blocks  *)
(* that a deletion gives back and those it loses.                          *)
(***************************************************************************)
EXTENDS Machine_proofs

-----------------------------------------------------------------------------
(* The sectors before the superblock.                                      *)

KernelAlone == \A d \in Drives : ReservedKept(d)

(* The sectors before the superblock are no one's target.                  *)
LEMMA WriteAlone ==
    ASSUME TypeOK, NEW b \in Nat, b >= SuperblockBlock, NEW data, Write(b, data)
    PROVE  KernelAlone
<1>1. ReservedKept(drive)
    BY WriteBehind
<1>2. ASSUME NEW d \in Drives, d # drive PROVE ReservedKept(d)
  <2>1. disk'[d] = disk[d]
      BY <1>2 DEF Write, TypeOK
  <2> QED
      BY <2>1 DEF ReservedKept
<1> QED
    BY <1>1, <1>2 DEF KernelAlone

LEMMA DataAlone ==
    ASSUME Context, NEW b \in DataArea, NEW data, Write(b, data)
    PROVE  KernelAlone
<1>1. b \in Nat /\ b >= SuperblockBlock
  <2>1. b \in Nat /\ b > TableEnd /\ TableEnd \in Nat /\ TableEnd >= SuperblockBlock
      BY AreaFacts
  <2> QED
      BY <2>1, DiskAssumption
<1> QED
    BY <1>1, ContextFacts, WriteAlone

LEMMA SaveAlone ==
    ASSUME Context, NEW data, Write(SuperblockBlock, data)
    PROVE  KernelAlone
  BY DiskAssumption, ContextFacts, WriteAlone

LEMMA UpdateAlone ==
    ASSUME TypeOK, NEW name, NEW ino,
           disk' = [disk EXCEPT ![drive] = SetFileInfo(@, name, ino)]
    PROVE  KernelAlone
<1>1. disk \in [Drives -> Disk] /\ drive \in Drives
    BY DEF TypeOK
<1>2. ASSUME NEW k \in 0 .. SuperblockBlock - 1
      PROVE  SetFileInfo(disk[drive], name, ino)[k] = disk[drive][k]
  <2>1. k \in Sectors
      BY DiskAssumption DEF Sectors
  <2>2. \A p \in Matches(disk[drive], name) : InodeSector(p) # k
    <3> SUFFICES ASSUME NEW p \in Matches(disk[drive], name) PROVE InodeSector(p) # k
        OBVIOUS
    <3>1. InodeSector(p) \in Sectors /\ InodeSector(p) > SuperblockBlock
        BY MatchesPlace, PositionPlace
    <3> QED
        BY <3>1, DiskAssumption DEF Sectors
  <2> QED
      BY <2>1, <2>2 DEF SetFileInfo
<1>3. ASSUME NEW d \in Drives PROVE ReservedKept(d)
    BY <1>1, <1>2 DEF ReservedKept
<1> QED
    BY <1>3 DEF KernelAlone

LEMMA KernelNext == Context /\ [Next /\ Spared]_vars => KernelAlone
<1> SUFFICES ASSUME Context, [Next /\ Spared]_vars PROVE KernelAlone
    OBVIOUS
<1>0. TypeOK /\ fr \in Frame
    BY ContextFacts DEF TypeOK
<1>1. ASSUME UNCHANGED disk PROVE KernelAlone
    BY <1>1 DEF KernelAlone, ReservedKept
<1>2. CASE Create
  <2>1. PICK info \in Lookup("create", job.name) :
            CreateFound(info) \/ CreateNone(info) \/ CreateNew(info)
      BY <1>2, CreateParts
  <2>2. CASE CreateNew(info)
    <3>1. PICK e \in FreeEntry(disk[drive], sb) : CreateInode(e)
        BY <2>2 DEF CreateNew
    <3>2. PICK block, ino, image : CreateInodeAs(e, block, ino, image)
        BY <3>1, CreateInodeTerms
    <3>3. Write(InodeSector(e), image)
        BY <3>2 DEF CreateInodeAs
    <3>4. InodeSector(e) \in Nat /\ InodeSector(e) >= SuperblockBlock
      <4>1. InodeSector(e) \in Sectors /\ InodeSector(e) > SuperblockBlock
          BY FreeEntryType, PositionPlace
      <4> QED
          BY <4>1, DiskAssumption DEF Sectors
    <3> QED
        BY <1>0, <3>3, <3>4, WriteAlone
  <2> QED
      BY <1>1, <2>1, <2>2 DEF CreateFound, CreateNone
<1>3. CASE CreateImage \/ CreateZero \/ CreatePointer \/ CreateName
  <2>1. fr.block \in DataArea /\ (pc # "image" => fr.block2 \in DataArea)
      BY <1>3
      DEF Context, Owned, InCreate, Makes, CreateImage, CreateZero, CreatePointer, CreateName
  <2>2. \E data : Write(fr.block, data) \/ (pc # "image" /\ Write(fr.block2, data))
      BY <1>3 DEF CreateImage, CreateZero, CreatePointer, CreateName
  <2> QED
      BY <2>1, <2>2, DataAlone
<1>4. CASE CreateSave \/ DeleteSave \/ WriteSave
    BY <1>4, SaveAlone DEF CreateSave, DeleteSave, WriteSave, SaveSuperblock
<1>5. CASE Delete
    BY <1>0, <1>1, <1>5, UpdateAlone DEF Delete
<1>6. CASE DeleteWipe
  <2>1. CASE UNCHANGED disk
      BY <1>1, <2>1
  <2>2. ASSUME NEW c \in fr.rest, Write(fr.buf[c], ZeroSector) PROVE KernelAlone
    <3>1. pc = "wipe"
        BY <1>6 DEF DeleteWipe
    <3>2. PICK i \in Pointers : fr.info.ptrs[i] # 0 /\ fr.buf = Here[fr.info.ptrs[i]]
        BY <2>2, <3>1 DEF Context, Owned, InDelete
    <3>3. IsGhost(stale) /\ fr.info.ptrs = stale.ptrs /\ WellFormed(Here, stale)
        BY <3>1, DeletesFacts DEF Deletes
    <3>4. /\ stale.ptrs[i] # 0 /\ fr.buf = ReadSector(Here, stale.ptrs[i])
        BY <3>2, <3>3, PointerPlace
    <3>5. fr.buf[c] # 0 /\ c \in Cells
        BY <1>0, <2>2, <3>1 DEF Context, IInv, PlacesSet, Frame
    <3>6. fr.buf[c] \in DataArea
        BY <3>3, <3>4, <3>5, GhostBlock DEF IsGhost
    <3> QED
        BY <2>2, <3>6, DataAlone
  <2> QED
      BY <1>6, <2>1, <2>2 DEF DeleteWipe
<1>7. CASE WriteAllocate \/ WriteFull
  <2>1. fr.info.ptrs[fr.i] \in DataArea
      BY <1>7, LoopFacts DEF WriteAllocate, WriteFull, AtBlock
  <2>2. UNCHANGED disk \/ \E data : Write(fr.info.ptrs[fr.i], data)
      BY <1>7 DEF WriteAllocate, WriteFull
  <2> QED
      BY <1>1, <2>1, <2>2, DataAlone
<1>8. CASE WriteFill \/ WriteSize \/ WriteChain
    BY <1>0, <1>8, UpdateAlone DEF WriteFill, WriteSize, WriteChain
<1>9. CASE WriteData
  <2>1. pc = "data" /\ Write(fr.buf[fr.j], fr.data)
      BY <1>9 DEF WriteData
  <2>2. fr.j \in Cells /\ fr.buf[fr.j] # 0
      BY <2>1 DEF Context, Owned, InWrite
  <2>3. fr.buf[fr.j] \in DataArea
      BY <2>1, <2>2, LoopFacts
  <2> QED
      BY <2>1, <2>3, DataAlone
<1>10. CASE Boot
  <2>1. PICK new : disk' = [disk EXCEPT ![BootDrive] =
                               WriteSector(@, SuperblockBlock, SuperblockSector(new))]
      BY <1>10 DEF Boot
  <2>2. disk \in [Drives -> Disk] /\ BootDrive \in Drives
      BY <1>0, ESFSAssumption DEF TypeOK
  <2>3. ASSUME NEW k \in 0 .. SuperblockBlock - 1
        PROVE  WriteSector(disk[BootDrive], SuperblockBlock, SuperblockSector(new))[k]
                  = disk[BootDrive][k]
    <3>1. k \in Sectors /\ k # SuperblockBlock /\ disk[BootDrive] \in Disk
        BY <2>2, DiskAssumption DEF Sectors
    <3> QED
        BY <3>1, WriteSectorElsewhere
  <2>4. ASSUME NEW d \in Drives PROVE ReservedKept(d)
      BY <2>1, <2>2, <2>3 DEF ReservedKept
  <2> QED
      BY <2>4 DEF KernelAlone
<1>11. CASE Format \/ FormatSuperblock
    BY <1>11, SaveAlone DEF Format, FormatSuperblock
<1>12. CASE FormatInodes
  <2>1. InodeTableSector(fr.i) \in Nat /\ InodeTableSector(fr.i) >= SuperblockBlock
      BY <1>0, DiskAssumption DEF InodeTableSector, Frame
  <2> QED
      BY <1>0, <1>1, <1>12, <2>1, WriteAlone DEF FormatInodes
<1>13. CASE \/ Exit \/ SelectDrive \/ Fetch \/ Retry \/ DeleteLoad \/ WriteCall
            \/ WritePointer \/ WriteNextPointer \/ Look \/ Crash \/ UNCHANGED vars
            \/ \E j \in Commands : Execute(j)
    BY <1>1, <1>13 DEF Exit, SelectDrive, Fetch, Retry, DeleteLoad, WriteCall,
       WritePointer, WriteNextPointer, Look, Crash, Execute, vars
<1> QED
    BY <1>2, <1>3, <1>4, <1>5, <1>6, <1>7, <1>8, <1>9, <1>10, <1>11, <1>12, <1>13
    DEF Next, Step, FileCreate, FileDelete, FileWrite, FormatDisk

(* No step of any call changes a sector before the superblock, where the   *)
(* boot loader and the kernel are: what the cursor, the pointers and the   *)
(* words of the pointer blocks send a write to is in the data area.        *)
THEOREM KernelStays == SparedSpec => KernelKept
<1>1. Context /\ [Next /\ Spared]_vars
        => [\A d \in Drives : \A b \in 0 .. SuperblockBlock - 1 :
               disk'[d][b] = disk[d][b]]_vars
    BY KernelNext DEF KernelAlone, ReservedKept
<1> QED
    BY <1>1, ContextInvariance, PTL DEF SparedSpec, KernelKept

-----------------------------------------------------------------------------
(* The cursor on the drive.                                                *)

SingleDrive == Drives = {BootDrive}

(* Between two calls the superblock of the drive has the kernel's cursor.  *)
CursorHere == SuperblockOf(Here).last_allocated_block
CursorSaved ==
    /\ pc \in {"shell", "run", "super", "inodes"} => CursorHere = lab
    /\ pc = "super" => sb.last_allocated_block = lab

(* A superblock that is written is the one on the drive.                   *)
LEMMA CursorWritten ==
    ASSUME Context, SingleDrive, pc \notin {"off", "shell"}, NEW s, IsSuperblock(s),
           Write(SuperblockBlock, SuperblockSector(s)), s.last_allocated_block = lab',
           pc' # "super" \/ sb' = s, drive' = drive
    PROVE  CursorSaved'
<1>1. Here \in Disk /\ s \in Superblock /\ drive \in Drives /\ disk \in [Drives -> Disk]
    BY ContextFacts, SuperblockFacts
<1>2. Here' = WriteSector(Here, SuperblockBlock, SuperblockSector(s))
    BY <1>1 DEF Write, Here
<1>3. SuperblockOf(Here') = s
    BY <1>1, <1>2, SuperblockWrite
<1> QED
    BY <1>3 DEF CursorSaved, CursorHere

LEMMA CursorSave ==
    ASSUME Context, SingleDrive, pc \notin {"off", "shell"}, SaveSuperblock, lab' \in DataArea,
           drive' = drive, pc' = "run"
    PROVE  CursorSaved'
<1> DEFINE s == [sb EXCEPT !.last_allocated_block = lab']
<1>1. IsSuperblock(s) /\ s.last_allocated_block = lab'
  <2>1. sb = Geometry(Capacity, sb.last_allocated_block)
      BY CallFacts DEF IsSuperblock
  <2>2. s = Geometry(Capacity, lab') /\ s.last_allocated_block = lab'
      BY <2>1 DEF Geometry
  <2> QED
      BY <2>2 DEF IsSuperblock
<1>2. Write(SuperblockBlock, SuperblockSector(s))
    BY DEF SaveSuperblock
<1> HIDE DEF s
<1> QED
    BY <1>1, <1>2, CursorWritten

(* One where neither the superblock of the drive nor the cursor changes.   *)
LEMMA CursorQuiet ==
    ASSUME CursorSaved, pc \in {"shell", "run", "super", "inodes"}, UNCHANGED lab,
           SuperblockOf(Here') = SuperblockOf(Here), pc' # "super"
    PROVE  CursorSaved'
  BY DEF CursorSaved, CursorHere

LEMMA CursorNext == Context /\ SingleDrive /\ CursorSaved /\ [Next /\ Spared]_vars => CursorSaved'
<1> SUFFICES ASSUME Context, SingleDrive, CursorSaved, [Next /\ Spared]_vars PROVE CursorSaved'
    OBVIOUS
<1>0. /\ TypeOK /\ Here \in Disk /\ drive = BootDrive /\ disk \in [Drives -> Disk]
      /\ BootDrive \in Drives /\ IsSuperblock(SuperblockOf(Here))
    BY ContextFacts, ESFSAssumption DEF SingleDrive
<1>1. ASSUME UNCHANGED <<disk, lab>>, pc \in {"shell", "run"}, pc' # "super", drive' \in Drives
      PROVE  CursorSaved'
  <2>1. Here' = Here
      BY <1>0, <1>1 DEF Here, SingleDrive
  <2> QED
      BY <1>1, <2>1, CursorQuiet
<1>2. drive' \in Drives
    BY NextIInv DEF Context, IInv, TypeOK, Spared
<1>3. CASE Exit \/ SelectDrive \/ Fetch \/ Retry \/ Look \/ \E j \in Commands : Execute(j)
  <2>1. UNCHANGED <<disk, lab>> /\ pc \in {"shell", "run"} /\ pc' # "super"
      BY <1>3 DEF Exit, SelectDrive, Fetch, Retry, Look, Execute, Calling, Return, env, vars
  <2> QED
      BY <1>1, <1>2, <2>1
<1>4. CASE Create \/ Delete \/ WriteCall
  <2>1. pc = "run" /\ lab = StartLab
    <3>1. pc = "run"
        BY <1>4, CreateParts, DeleteParts, WriteCallParts DEF Calling
    <3> QED
        BY <3>1, CallFacts
  <2>2. pc' \in {"image", "load", "pointers"} \/ (UNCHANGED <<disk, lab>> /\ pc' = "run")
    <3>1. CASE Create
      <4>1. PICK info \in Lookup("create", job.name) :
                CreateFound(info) \/ CreateNone(info) \/ CreateNew(info)
          BY <3>1, CreateParts
      <4> QED
          BY <2>1, <4>1 DEF CreateFound, CreateNone, CreateNew, Return
    <3>2. CASE Delete
      <4>1. PICK info \in Lookup("delete", job.name) : DeleteNone(info) \/ DeleteFound(info)
          BY <3>2, DeleteParts
      <4> QED
          BY <3>2, <4>1, DeleteParts DEF DeleteNone, DeleteFound, Return, env
    <3>3. CASE WriteCall
      <4>1. PICK info \in Lookup("write", job.name) : WriteNone(info) \/ WriteFound(info)
          BY <3>3, WriteCallParts
      <4> QED
          BY <3>3, <4>1, WriteCallParts DEF WriteNone, WriteFound, Return
    <3> QED
        BY <1>4, <3>1, <3>2, <3>3
  <2>3. CASE pc' \in {"image", "load", "pointers"}
      BY <2>3 DEF CursorSaved
  <2> QED
      BY <1>1, <1>2, <2>1, <2>2, <2>3
<1>5. CASE CreateSave \/ DeleteSave \/ WriteSave
  <2>1. pc \notin {"off", "shell"} /\ SaveSuperblock /\ drive' = drive /\ pc' = "run"
      BY <1>5 DEF CreateSave, DeleteSave, WriteSave, Return
  <2>2. lab' \in DataArea
    <3>1. Owned'
        BY OwnedNext
    <3> QED
        BY <2>1, <3>1 DEF Owned, Geometries
  <2> QED
      BY <2>1, <2>2, CursorSave
<1>6. CASE \/ CreateImage \/ CreateZero \/ CreatePointer \/ CreateName \/ DeleteLoad
           \/ WritePointer \/ WriteNextPointer \/ WriteFill \/ WriteData \/ WriteChain
           \/ WriteSize
  <2>1. pc' \notin {"shell", "run", "super", "inodes"}
      BY <1>6
      DEF CreateImage, CreateZero, CreatePointer, CreateName, DeleteLoad, WritePointer,
          WriteNextPointer, WriteFill, WriteData, WriteChain, WriteSize
  <2> QED
      BY <2>1 DEF CursorSaved
<1>7. CASE DeleteWipe \/ WriteAllocate \/ WriteFull \/ Crash
  <2>1. pc' \notin {"shell", "run", "super", "inodes"}
      BY <1>7 DEF DeleteWipe, WriteAllocate, WriteFull, AtBlock, Crash
  <2> QED
      BY <2>1 DEF CursorSaved
<1>8. CASE Boot
  <2> DEFINE s == SuperblockOf(disk[BootDrive])
  <2>1. IsSuperblock(s)
      BY <1>0 DEF Here
  <2>2. /\ sb' = s /\ lab' = s.last_allocated_block /\ drive' = BootDrive
        /\ disk' = [disk EXCEPT ![BootDrive] =
                       WriteSector(@, SuperblockBlock, SuperblockSector(s))]
      BY <1>8, <2>1, InitFsInUse DEF Boot
  <2> HIDE DEF s
  <2>3. s \in Superblock
      BY <2>1, SuperblockFacts
  <2>4. Here' = WriteSector(Here, SuperblockBlock, SuperblockSector(s))
      BY <1>0, <2>2 DEF Here
  <2>5. SuperblockOf(Here') = s
      BY <1>0, <2>3, <2>4, SuperblockWrite
  <2> QED
      BY <2>2, <2>5 DEF CursorSaved, CursorHere
<1>9. CASE Format
  <2> DEFINE s == SuperblockOf(Here)
  <2>1. /\ sb' = s /\ Write(SuperblockBlock, SuperblockSector(s)) /\ pc = "run"
        /\ drive' = drive /\ lab' = lab
      BY <1>0, <1>9, InitFsInUse DEF Format, Calling, Here, env
  <2>2. s.last_allocated_block = lab'
      BY <2>1 DEF CursorSaved, CursorHere
  <2> HIDE DEF s
  <2> QED
      BY <1>0, <2>1, <2>2, CursorWritten DEF s
<1>10. CASE FormatSuperblock
  <2>1. /\ pc = "super" /\ Write(SuperblockBlock, SuperblockSector(sb)) /\ pc' = "inodes"
        /\ drive' = drive /\ lab' = lab
      BY <1>10 DEF FormatSuperblock, env
  <2>2. IsSuperblock(sb) /\ sb.last_allocated_block = lab'
      BY <2>1, CallFacts DEF CursorSaved
  <2> QED
      BY <2>1, <2>2, CursorWritten
<1>11. CASE FormatInodes
  <2>1. /\ pc = "inodes" /\ pc' # "super" /\ lab' = lab /\ drive' = drive
      BY <1>11 DEF FormatInodes, Return, env
  <2>2. UNCHANGED disk \/ Write(InodeTableSector(fr.i), ZeroSector)
      BY <1>11 DEF FormatInodes
  <2>3. InodeTableSector(fr.i) # SuperblockBlock /\ SuperblockBlock \in Sectors
    <3>1. fr.i # 0 /\ fr.i \in Nat
        BY <1>0, <2>1 DEF Context, Owned, InFormat, TypeOK, Frame
    <3> QED
        BY <3>1, DiskAssumption DEF InodeTableSector, Sectors
  <2>4. Here'[SuperblockBlock] = Here[SuperblockBlock]
    <3>1. CASE UNCHANGED disk
        BY <2>1, <3>1 DEF Here
    <3>2. CASE Write(InodeTableSector(fr.i), ZeroSector)
      <4>1. Here' = WriteSector(Here, InodeTableSector(fr.i), ZeroSector)
          BY <1>0, <2>1, <3>2 DEF Write, Here
      <4> QED
          BY <1>0, <2>3, <4>1, WriteSectorElsewhere
    <3> QED
        BY <2>2, <3>1, <3>2
  <2>5. SuperblockOf(Here') = SuperblockOf(Here)
      BY <2>4 DEF SuperblockOf
  <2> QED
      BY <2>1, <2>5, CursorQuiet
<1>12. CASE UNCHANGED vars
    BY <1>12 DEF vars, CursorSaved, CursorHere, Here
<1> QED
    BY <1>3, <1>4, <1>5, <1>6, <1>7, <1>8, <1>9, <1>10, <1>11, <1>12
    DEF Next, Step, FileCreate, FileDelete, FileWrite, FormatDisk

(* With one drive, the cursor a reboot would start from is the one in use  *)
(* whenever the shell waits: no call that moves it returns without saving  *)
(* it, and format, whose superblock init_fs has filled before format_disk  *)
(* writes it again, leaves the cursor where it was.                        *)
THEOREM CursorStaysPersisted == SparedSpec /\ SingleDrive => []CursorPersisted
<1>1. Init => CursorSaved
    BY DEF Init, CursorSaved
<1>2. Context /\ SingleDrive /\ CursorSaved => CursorPersisted
  <2> SUFFICES ASSUME Context, SingleDrive, CursorSaved, AtShell, NEW d \in Drives
               PROVE  SuperblockOf(disk[d]).last_allocated_block = lab
      BY DEF CursorPersisted
  <2>1. d = drive
      BY ContextFacts DEF SingleDrive
  <2> QED
      BY <2>1 DEF AtShell, CursorSaved, CursorHere, Here
<1>3. SUFFICES ASSUME SingleDrive PROVE SparedSpec => []CursorPersisted
    OBVIOUS
<1>4. Context /\ CursorSaved /\ [Next /\ Spared]_vars => CursorSaved'
    BY <1>3, CursorNext
<1>5. Context /\ CursorSaved => CursorPersisted
    BY <1>2, <1>3
<1> QED
    BY <1>1, <1>4, <1>5, ContextInvariance, PTL DEF SparedSpec

-----------------------------------------------------------------------------
(* Formatting.                                                             *)

(* What format has passed is cleared.                                      *)
Cleared ==
    pc = "inodes" => \A p \in Entries(Here) : InodeSector(p) >= InodeTableSector(fr.i)

LEMMA ClearedNext == Context /\ Cleared /\ [Next /\ Spared]_vars => Cleared'
<1> SUFFICES ASSUME Context, Cleared, [Next /\ Spared]_vars, pc' = "inodes",
                    NEW p \in Entries(Here')
             PROVE  InodeSector(p) >= InodeTableSector(fr'.i)
    BY DEF Cleared
<1>1. CASE FormatSuperblock
  <2>1. fr \in Frame /\ fr' = [fr EXCEPT !.i = 1]
      BY <1>1, ContextFacts DEF FormatSuperblock, TypeOK
  <2>2. p \in Positions
      BY EntryFacts
  <2>3. fr'.i = 1 /\ InodeSector(p) > SuperblockBlock /\ InodeSector(p) \in Sectors
      BY <2>1, <2>2, PositionPlace DEF Frame
  <2> QED
      BY <2>3, DiskAssumption DEF InodeTableSector, Sectors
<1>2. CASE FormatInodes
  <2> DEFINE b == InodeTableSector(fr.i)
  <2>1. /\ pc = "inodes" /\ fr.i <= sb.inode_blocks /\ Write(b, ZeroSector)
        /\ fr' = [fr EXCEPT !.i = @ + 1] /\ UNCHANGED drive
      BY <1>2 DEF FormatInodes, Return
  <2>2. fr \in Frame /\ fr.i \in Nat /\ fr.i # 0 /\ Here \in Disk
      BY <2>1, ContextFacts DEF Context, Owned, InFormat, TypeOK, Frame
  <2>3. IsSuperblock(sb) /\ lab \in DataArea
      BY <2>1, CallFacts
  <2>4. InTable(b) /\ b \in Sectors
      BY <2>1, <2>2, <2>3, TablePlace
  <2>5. Here' = WriteSector(Here, b, ZeroSector)
      BY <2>1, ContextFacts DEF Write, Here
  <2>6. p \in Entries(Here) /\ InodeSector(p) # b
      BY <2>2, <2>4, <2>5, TableCleared
  <2>7. InodeSector(p) >= b
      BY <2>1, <2>6 DEF Cleared
  <2>8. fr'.i = fr.i + 1
      BY <2>1, <2>2 DEF Frame
  <2>9. InodeSector(p) \in Nat
    <3>1. p \in Positions
        BY EntryFacts
    <3> QED
        BY <3>1, PositionPlace, DiskAssumption DEF Sectors
  <2> QED
      BY <2>2, <2>6, <2>7, <2>8, <2>9, DiskAssumption DEF InodeTableSector
<1>3. CASE UNCHANGED vars
    BY <1>3 DEF vars, Cleared, Here
<1>4. FormatSuperblock \/ FormatInodes \/ UNCHANGED vars
  <2>1. ASSUME Create \/ Delete \/ WriteCall PROVE FALSE
    <3>1. CASE Create
      <4>1. PICK info \in Lookup("create", job.name) :
                CreateFound(info) \/ CreateNone(info) \/ CreateNew(info)
          BY <3>1, CreateParts
      <4> QED
          BY <4>1 DEF CreateFound, CreateNone, CreateNew, Return
    <3>2. CASE Delete
      <4>1. PICK info \in Lookup("delete", job.name) : DeleteNone(info) \/ DeleteFound(info)
          BY <3>2, DeleteParts
      <4> QED
          BY <4>1 DEF DeleteNone, DeleteFound, Return
    <3>3. CASE WriteCall
      <4>1. PICK info \in Lookup("write", job.name) : WriteNone(info) \/ WriteFound(info)
          BY <3>3, WriteCallParts
      <4> QED
          BY <4>1 DEF WriteNone, WriteFound, Return
    <3> QED
        BY <2>1, <3>1, <3>2, <3>3
  <2>2. ASSUME \/ CreateImage \/ CreateZero \/ CreatePointer \/ CreateName \/ DeleteLoad
               \/ WritePointer \/ WriteNextPointer \/ WriteFill \/ WriteData \/ WriteChain
               \/ WriteSize
        PROVE  FALSE
      BY <2>2
      DEF CreateImage, CreateZero, CreatePointer, CreateName, DeleteLoad, WritePointer,
          WriteNextPointer, WriteFill, WriteData, WriteChain, WriteSize
  <2>3. ASSUME \/ DeleteWipe \/ WriteAllocate \/ WriteFull \/ CreateSave \/ DeleteSave
               \/ WriteSave \/ Crash
        PROVE  FALSE
      BY <2>3 DEF DeleteWipe, WriteAllocate, WriteFull, AtBlock, CreateSave, DeleteSave,
         WriteSave, Return, Crash
  <2>4. ASSUME \/ Boot \/ Exit \/ SelectDrive \/ Fetch \/ Retry \/ Format
               \/ \E j \in Commands : Execute(j)
        PROVE  FALSE
      BY <2>4 DEF Boot, Exit, SelectDrive, Fetch, Retry, Format, Execute, Calling, Return
  <2> QED
      BY <2>1, <2>2, <2>3, <2>4
      DEF Next, Step, Look, FileCreate, FileDelete, FileWrite, FormatDisk
<1> QED
    BY <1>1, <1>2, <1>3, <1>4

(* Formatting a drive in use wipes all of its files: format_disk clears    *)
(* every block of the inode table from the first to the last, for tables   *)
(* of every size (manual.txt).                                             *)
THEOREM FormatWipesAll == SparedSpec => FormatWipes
<1>1. Init => Cleared
    BY DEF Init, Cleared
<1>2. Context /\ Cleared /\ [Next /\ Spared]_vars
        => [Formatted => \A n \in Names : FileText(disk'[drive], n) = None]_vars
  <2> SUFFICES ASSUME Context, Cleared, Next, Spared, Formatted, NEW n \in Names
               PROVE  FileText(disk'[drive], n) = None
      BY Zenon
  <2>1. pc = "inodes" /\ pc' = "run" /\ FormatInodes
      BY DEF Formatted, FormatInodes
  <2>2. ~(fr.i <= sb.inode_blocks) /\ UNCHANGED <<disk, drive>>
      BY <2>1 DEF FormatInodes
  <2>3. Entries(Here) = {}
    <3> SUFFICES ASSUME NEW p \in Entries(Here) PROVE FALSE
        OBVIOUS
    <3>1. InodeSector(p) >= InodeTableSector(fr.i)
        BY <2>1 DEF Cleared
    <3>2. p \in Positions /\ InodeSector(p) <= TableEnd
        BY EntryFacts
    <3>3. IsSuperblock(sb) /\ fr.i \in Nat
        BY <2>1, CallFacts, ContextFacts DEF TypeOK, Frame
    <3>4. TableEnd = SuperblockBlock + sb.inode_blocks /\ sb.inode_blocks \in Nat
        BY <3>3, SuperblockFacts DEF Superblock
    <3>5. InodeSector(p) \in Nat
        BY <3>2, PositionPlace, DiskAssumption DEF Sectors
    <3> QED
        BY <2>2, <3>1, <3>2, <3>3, <3>4, <3>5, DiskAssumption DEF InodeTableSector
  <2>4. Reached(disk'[drive], NullFiles) \subseteq Entries(disk'[drive])
    <3>1. drive \in Drives
        BY ContextFacts
    <3> QED
        BY <2>1, <3>1 DEF Spared, EntriesShown, Formats
  <2>5. disk'[drive] = Here
      BY <2>2 DEF Here
  <2>6. Matches(disk'[drive], n) = {}
      BY <2>3, <2>4, <2>5 DEF Matches
  <2> QED
      BY <2>6 DEF FileText
<1> QED
    BY <1>1, <1>2, ClearedNext, ContextInvariance, PTL DEF SparedSpec, FormatWipes

-----------------------------------------------------------------------------
(* Deleting.                                                               *)

(* A block that word c of pointer block i of the inode in hand names has   *)
(* been cleared, and the cursor will not be set behind it.                 *)
Gone(dk, fm, i, c) ==
    LET b == Claim(dk, fm.info, i, c)
    IN  b # 0 => /\ fm.least # 0 /\ fm.least <= b
                 /\ ReadSector(dk, b) = ZeroSector

(* The pointers passed, and the words passed of the one in hand.           *)
Wiped ==
    /\ pc = "load" => \A i \in Pointers, c \in Cells : i < fr.i => Gone(Here, fr, i, c)
    /\ pc = "wipe" =>
          /\ fr.i - 1 \in Pointers
          /\ \A i \in Pointers, c \in Cells : i < fr.i - 1 => Gone(Here, fr, i, c)
          /\ \A c \in Cells \ fr.rest : Gone(Here, fr, fr.i - 1, c)
          /\ fr.rest # {} => /\ fr.info.ptrs[fr.i - 1] # 0
                             /\ fr.buf = Here[fr.info.ptrs[fr.i - 1]]

LEMMA GoneSame ==
    ASSUME Here' = Here, fr'.info = fr.info, fr'.least = fr.least, NEW i, NEW c,
           Gone(Here, fr, i, c)
    PROVE  Gone(Here', fr', i, c)
  BY DEF Gone

LEMMA WipedDelete == Context /\ Delete => Wiped'
<1> SUFFICES ASSUME Context, Delete PROVE Wiped'
    OBVIOUS
<1>1. PICK info \in Lookup("delete", job.name) : DeleteNone(info) \/ DeleteFound(info)
    BY DeleteParts
<1>2. CASE DeleteNone(info)
    BY <1>2 DEF DeleteNone, Return, Wiped
<1>3. CASE DeleteFound(info)
  <2>1. pc' = "load" /\ fr'.i = 0
      BY <1>3 DEF DeleteFound, NoFrame
  <2>2. \A i \in Pointers : ~(i < 0)
      BY DEF Pointers
  <2> QED
      BY <2>1, <2>2 DEF Wiped
<1> QED
    BY <1>1, <1>2, <1>3

LEMMA WipedLoad == Context /\ Wiped /\ DeleteLoad => Wiped'
<1> SUFFICES ASSUME Context, Wiped, DeleteLoad PROVE Wiped'
    OBVIOUS
<1> DEFINE ptr == fr.info.ptrs[fr.i]
           buf == ReadSector(Here, ptr)
<1>1. /\ pc = "load" /\ pc' = "wipe" /\ fr.i < PtrsPerInode
      /\ fr' = [fr EXCEPT !.i = @ + 1, !.buf = buf,
                          !.rest = IF ptr = 0 THEN {} ELSE PointersIn(buf)]
      /\ UNCHANGED <<disk, drive>>
    BY DEF DeleteLoad, Here
<1>2. fr \in Frame /\ fr.i \in Pointers /\ fr.i \in Nat
  <2>1. fr \in Frame
      BY ContextFacts DEF TypeOK
  <2>2. fr.i \in Nat
      BY <2>1 DEF Frame
  <2> QED
      BY <1>1, <2>1, <2>2, DiskAssumption DEF Pointers
<1>3. /\ fr'.info = fr.info /\ fr'.least = fr.least /\ fr'.buf = buf /\ fr'.i = fr.i + 1
      /\ fr'.rest = IF ptr = 0 THEN {} ELSE PointersIn(buf)
    BY <1>1, <1>2 DEF Frame
<1>4. Here' = Here
    BY <1>1 DEF Here
<1>5. fr'.i - 1 = fr.i
    BY <1>2, <1>3
<1>6. ASSUME NEW i \in Pointers, NEW c \in Cells, i < fr'.i - 1 PROVE Gone(Here', fr', i, c)
  <2>1. Gone(Here, fr, i, c)
      BY <1>1, <1>5, <1>6 DEF Wiped
  <2> QED
      BY <1>3, <1>4, <2>1, GoneSame
<1>7. ASSUME NEW c \in Cells \ fr'.rest PROVE Gone(Here', fr', fr'.i - 1, c)
  <2>1. Claim(Here, fr.info, fr.i, c) = 0
    <3>1. CASE ptr = 0
        BY <3>1 DEF Claim
    <3>2. CASE ptr # 0
      <4>1. buf[c] = 0
          BY <1>3, <1>7, <3>2 DEF PointersIn
      <4>2. c # -1
          BY PlaceFacts
      <4> QED
          BY <3>2, <4>1, <4>2 DEF Claim
    <3> QED
        BY <3>1, <3>2
  <2>2. Claim(Here', fr'.info, fr'.i - 1, c) = 0
      BY <1>3, <1>4, <1>5, <2>1
  <2> QED
      BY <1>4, <2>2 DEF Gone
<1>8. ASSUME fr'.rest # {} PROVE ptr # 0 /\ buf = Here[ptr]
  <2>1. ptr # 0
      BY <1>3, <1>8
  <2>2. WellFormed(Here, stale) /\ fr.info.ptrs = stale.ptrs
      BY <1>1, DeletesFacts DEF Deletes
  <2> QED
      BY <1>2, <2>1, <2>2, PointerPlace
<1>9. fr'.rest # {} => /\ fr'.info.ptrs[fr'.i - 1] # 0
                       /\ fr'.buf = Here'[fr'.info.ptrs[fr'.i - 1]]
    BY <1>3, <1>4, <1>5, <1>8
<1>10. fr'.i - 1 \in Pointers
    BY <1>2, <1>5
<1> HIDE DEF ptr, buf
<1> QED
    BY <1>1, <1>6, <1>7, <1>9, <1>10 DEF Wiped

LEMMA WipedWipe == Context /\ Wiped /\ DeleteWipe => Wiped'
<1> SUFFICES ASSUME Context, Wiped, DeleteWipe PROVE Wiped'
    OBVIOUS
<1>1. pc = "wipe" /\ UNCHANGED drive
    BY DEF DeleteWipe
<1>2. /\ Here \in Disk /\ drive \in Drives /\ disk \in [Drives -> Disk]
      /\ fr \in Frame /\ fr.rest \in SUBSET Cells /\ fr.i \in Nat
  <2>1. Here \in Disk /\ drive \in Drives /\ disk \in [Drives -> Disk] /\ TypeOK
      BY ContextFacts
  <2> QED
      BY <2>1 DEF TypeOK, Frame
<1>3. /\ fr.i - 1 \in Pointers
      /\ \A i \in Pointers, c \in Cells : i < fr.i - 1 => Gone(Here, fr, i, c)
      /\ \A c \in Cells \ fr.rest : Gone(Here, fr, fr.i - 1, c)
      /\ fr.rest # {} => /\ fr.info.ptrs[fr.i - 1] # 0
                         /\ fr.buf = Here[fr.info.ptrs[fr.i - 1]]
    BY <1>1 DEF Wiped
<1>4. /\ IsGhost(stale) /\ fr.info.ptrs = stale.ptrs /\ WellFormed(Here, stale)
      /\ fr.least \in DataArea \union {0}
    BY <1>1, DeletesFacts DEF Deletes
<1>5. CASE fr.rest = {} /\ pc' = "load" /\ UNCHANGED <<disk, fr>>
  <2>1. Here' = Here
      BY <1>1, <1>5 DEF Here
  <2>2. ASSUME NEW i \in Pointers, NEW c \in Cells, i < fr'.i PROVE Gone(Here', fr', i, c)
    <3>1. i < fr.i - 1 \/ i = fr.i - 1
        BY <1>2, <1>5, <2>2 DEF Pointers
    <3>2. Gone(Here, fr, i, c)
        BY <1>3, <1>5, <3>1
    <3> QED
        BY <1>5, <2>1, <3>2, GoneSame
  <2> QED
      BY <1>5, <2>2 DEF Wiped
<1>6. ASSUME NEW c \in fr.rest, Write(fr.buf[c], ZeroSector), pc' = pc,
             fr' = [fr EXCEPT !.rest = @ \ {c}, !.least = Least(@, fr.buf[c])]
      PROVE  Wiped'
  <2> DEFINE b == fr.buf[c]
             k == fr.i - 1
  <2>1. k \in Pointers /\ fr.info.ptrs[k] # 0 /\ fr.buf = Here[fr.info.ptrs[k]] /\ c \in Cells
      BY <1>2, <1>3, <1>6
  <2>2. b # 0
      BY <1>1, <1>6 DEF Context, IInv, PlacesSet
  <2>3. fr.buf = ReadSector(Here, stale.ptrs[k]) /\ stale.ptrs[k] # 0
      BY <1>4, <2>1, PointerPlace
  <2>4. b \in DataArea /\ \A j \in Pointers : stale.ptrs[j] # b
    <3>1. Ghost(Here, Mine, job.name, stale)
        BY <1>4 DEF IsGhost
    <3> QED
        BY <2>1, <2>2, <2>3, <3>1, GhostBlock
  <2>5. /\ fr'.info = fr.info /\ fr'.buf = fr.buf /\ fr'.least = Least(fr.least, b)
        /\ fr'.rest = fr.rest \ {c} /\ fr'.i = fr.i
      BY <1>2, <1>6 DEF Frame
  <2>6. Here' = WriteSector(Here, b, ZeroSector)
      BY <1>1, <1>2, <1>6 DEF Write, Here
  <2>7. Claim(Here, fr.info, k, c) = b
    <3>1. c # -1
        BY <2>1, PlaceFacts
    <3> QED
        BY <1>4, <2>3, <3>1 DEF Claim
  <2> HIDE DEF b
  <2>8. \A i \in Pointers, e \in Cells : Claim(Here', fr'.info, i, e) = Claim(Here, fr.info, i, e)
    <3>1. Alike(Here, Here', fr.info)
        BY <1>2, <1>4, <2>4, <2>6, AlikeWrite
    <3> QED
        BY <2>5, <3>1, PlaceFacts DEF Alike
  <2>9. /\ fr'.least # 0 /\ fr'.least <= b
        /\ \A x \in Nat : fr.least # 0 /\ fr.least <= x => fr'.least <= x
    <3>1. b \in Nat /\ b # 0 /\ fr.least \in Nat
        BY <1>4, <2>4, AreaFacts
    <3> QED
        BY <2>5, <3>1 DEF Least
  <2>10. ReadSector(Here', b) = ZeroSector
      BY <1>2, <2>4, <2>6, DataOutside, ReadWritten
  <2>11. ASSUME NEW i \in Pointers, NEW e \in Cells, Gone(Here, fr, i, e)
         PROVE  Gone(Here', fr', i, e)
    <3> DEFINE x == Claim(Here, fr.info, i, e)
    <3>1. CASE x = 0
        BY <2>8, <3>1 DEF Gone
    <3>2. CASE x # 0
      <4>1. fr.least # 0 /\ fr.least <= x /\ ReadSector(Here, x) = ZeroSector
          BY <2>11, <3>2 DEF Gone
      <4>2. x \in Nat
        <5>1. e \in Places /\ x = Claim(Here, stale, i, e)
            BY <1>4, PlaceFacts, ClaimOfPointers
        <5>2. x \in DataArea \union {0}
            BY <1>4, <5>1 DEF WellFormed
        <5> QED
            BY <5>2, AreaFacts
      <4> HIDE DEF x
      <4>3. fr'.least # 0 /\ fr'.least <= x
          BY <2>9, <4>1, <4>2
      <4>4. ReadSector(Here', x) = ZeroSector
          BY <1>2, <2>6, <2>10, <4>1, ReadOther
      <4>5. Claim(Here', fr'.info, i, e) = x
          BY <2>8 DEF x
      <4> QED
          BY <4>3, <4>4, <4>5 DEF Gone
    <3> QED
        BY <3>1, <3>2
  <2>12. Gone(Here', fr', k, c)
    <3>1. Claim(Here', fr'.info, k, c) = b
        BY <2>1, <2>7, <2>8
    <3>2. fr'.i = fr.i
        BY <2>5
    <3> QED
        BY <2>9, <2>10, <3>1, <3>2 DEF Gone, k
  <2>13. fr'.i - 1 \in Pointers
      BY <2>1, <2>5
  <2>14. ASSUME NEW i \in Pointers, NEW e \in Cells, i < fr'.i - 1 PROVE Gone(Here', fr', i, e)
    <3>1. Gone(Here, fr, i, e)
        BY <1>3, <2>5, <2>14
    <3> QED
        BY <2>11, <3>1
  <2>15. ASSUME NEW e \in Cells \ fr'.rest PROVE Gone(Here', fr', fr'.i - 1, e)
    <3>1. e = c \/ e \in Cells \ fr.rest
        BY <2>5
    <3>2. CASE e = c
        BY <2>5, <2>12, <3>2 DEF k
    <3>3. CASE e \in Cells \ fr.rest
      <4>1. Gone(Here, fr, k, e)
          BY <1>3, <3>3
      <4>2. Gone(Here', fr', k, e)
          BY <2>1, <2>11, <4>1
      <4> QED
          BY <2>5, <4>2 DEF k
    <3> QED
        BY <3>1, <3>2, <3>3
  <2>16. /\ fr'.info.ptrs[fr'.i - 1] # 0
         /\ fr'.buf = Here'[fr'.info.ptrs[fr'.i - 1]]
    <3>1. fr.info.ptrs[k] # b /\ fr.info.ptrs[k] \in DataArea
        BY <1>4, <2>1, <2>4, PointerPlace
    <3>2. Here'[fr.info.ptrs[k]] = Here[fr.info.ptrs[k]]
        BY <1>2, <2>6, <3>1, DataOutside, WriteSectorElsewhere
    <3> QED
        BY <2>1, <2>5, <3>2
  <2> HIDE DEF k
  <2> QED
      BY <1>1, <1>6, <2>13, <2>14, <2>15, <2>16 DEF Wiped
<1> QED
    BY <1>5, <1>6 DEF DeleteWipe

LEMMA WipedNext == Context /\ Wiped /\ [Next /\ Spared]_vars => Wiped'
<1> SUFFICES ASSUME Context, Wiped, [Next /\ Spared]_vars PROVE Wiped'
    OBVIOUS
<1>1. ASSUME pc' \notin Deletes PROVE Wiped'
    BY <1>1 DEF Wiped, Deletes
<1>2. CASE Delete \/ DeleteLoad \/ DeleteWipe
    BY <1>2, WipedDelete, WipedLoad, WipedWipe
<1>3. CASE UNCHANGED vars
    BY <1>3 DEF vars, Wiped, Gone, Here
<1>4. CASE Create
  <2>1. PICK info \in Lookup("create", job.name) :
            CreateFound(info) \/ CreateNone(info) \/ CreateNew(info)
      BY <1>4, CreateParts
  <2> QED
      BY <1>1, <2>1 DEF CreateFound, CreateNone, CreateNew, Return, Deletes
<1>5. CASE WriteCall
  <2>1. PICK info \in Lookup("write", job.name) : WriteNone(info) \/ WriteFound(info)
      BY <1>5, WriteCallParts
  <2> QED
      BY <1>1, <2>1 DEF WriteNone, WriteFound, Return, Deletes
<1>6. CASE \/ CreateImage \/ CreateZero \/ CreatePointer \/ CreateName \/ CreateSave \/ DeleteSave
           \/ WritePointer \/ WriteNextPointer \/ WriteFill \/ WriteData \/ WriteChain
           \/ WriteSize \/ WriteSave \/ WriteAllocate \/ WriteFull
    BY <1>1, <1>6
    DEF CreateImage, CreateZero, CreatePointer, CreateName, CreateSave, DeleteSave, WritePointer,
        WriteNextPointer, WriteFill, WriteData, WriteChain, WriteSize, WriteSave, WriteAllocate,
        WriteFull, AtBlock, Return, Deletes
<1>7. CASE \/ Boot \/ Exit \/ SelectDrive \/ Fetch \/ Retry \/ Format \/ FormatSuperblock
           \/ FormatInodes \/ Crash \/ \E j \in Commands : Execute(j)
    BY <1>1, <1>7
    DEF Boot, Exit, SelectDrive, Fetch, Retry, Format, FormatSuperblock, FormatInodes, Crash,
        Execute, Calling, Return, Deletes
<1> QED
    BY <1>2, <1>3, <1>4, <1>5, <1>6, <1>7
    DEF Next, Step, Look, FileCreate, FileDelete, FileWrite, FormatDisk

(* What the words of an inode's pointer blocks name.                       *)
LEMMA DataBlocksClaimed ==
    ASSUME NEW dk, NEW ino, NEW b \in DataBlocks(dk, ino)
    PROVE  b # 0 /\ \E i \in Pointers, c \in Cells :
                       ino.ptrs[i] # 0 /\ b = Claim(dk, ino, i, c)
<1> DEFINE words(s) == {ReadSector(dk, s)[c] : c \in Cells}
<1>1. b \in UNION {words(s) : s \in PointerBlocks(dk, ino)} /\ b # 0
    BY DEF DataBlocks
<1> HIDE DEF words
<1>2. PICK s \in PointerBlocks(dk, ino) : b \in words(s)
    BY <1>1
<1>3. PICK i \in Pointers : s = ino.ptrs[i]
    BY <1>2 DEF PointerBlocks, Pointers
<1>4. s # 0
    BY <1>2 DEF PointerBlocks
<1>5. PICK c \in Cells : b = ReadSector(dk, s)[c]
    BY <1>2 DEF words
<1>6. Claim(dk, ino, i, c) = b
    BY <1>3, <1>4, <1>5, PlaceFacts DEF Claim
<1> QED
    BY <1>1, <1>3, <1>4, <1>6

(* Blocks that the search follows the pointers of files to are claimed or  *)
(* named by a word of the boot sector, which it takes for a pointer block  *)
(* where an inode has none.                                                *)
BootBlocks(dk) == {dk[0][c] : c \in Cells}

LEMMA PointedClaimed ==
    ASSUME NEW dk, NEW b \in PointedTo(dk), Reached(dk, NullFiles + 1) \subseteq Entries(dk)
    PROVE  Claimed(dk, Entries(dk), b) \/ b \in BootBlocks(dk)
<1> DEFINE words(p, i) == {ReadSector(dk, InodeAt(dk, p).ptrs[i])[c] : c \in Cells}
<1>1. PointedTo(dk) = UNION {words(p, i) : p \in Reached(dk, NullFiles + 1),
                                           i \in 0 .. PtrsPerInode - 1}
    BY DEF PointedTo
<1> HIDE DEF words
<1>2. PICK p \in Reached(dk, NullFiles + 1), i \in 0 .. PtrsPerInode - 1 : b \in words(p, i)
    BY <1>1
<1>3. p \in Entries(dk) /\ i \in Pointers
    BY <1>2 DEF Pointers
<1>4. PICK c \in Cells : b = ReadSector(dk, InodeAt(dk, p).ptrs[i])[c]
    BY <1>2 DEF words
<1>5. CASE InodeAt(dk, p).ptrs[i] = 0
  <2>1. ReadSector(dk, 0) = dk[0]
      BY DiskAssumption DEF ReadSector, Sectors
  <2> QED
      BY <1>4, <1>5, <2>1 DEF BootBlocks
<1>6. CASE InodeAt(dk, p).ptrs[i] # 0
  <2>1. b = Claim(dk, InodeAt(dk, p), i, c) /\ c \in Places
      BY <1>4, <1>6, PlaceFacts DEF Claim
  <2> QED
      BY <1>3, <2>1 DEF Claimed
<1> QED
    BY <1>5, <1>6

(* What deleting needs besides: the scan that looks one null entry further *)
(* than the others takes nothing behind the table for an inode, and no     *)
(* word of a boot sector looks like the number of a data block.            *)
ScanEnds   == \A d \in Drives : pc \notin Formats => Listed(disk[d]) \subseteq Entries(disk[d])
BootNoData == \A d \in Drives, c \in Cells : disk[d][0][c] \notin DataArea

LEMMA BootNoDataNext == Context /\ BootNoData /\ [Next /\ Spared]_vars => BootNoData'
<1> SUFFICES ASSUME Context, BootNoData, [Next /\ Spared]_vars, NEW d \in Drives, NEW c \in Cells
             PROVE  disk'[d][0][c] \notin DataArea
    BY DEF BootNoData
<1>1. 0 \in 0 .. SuperblockBlock - 1
    BY DiskAssumption
<1>2. disk'[d][0] = disk[d][0]
    BY <1>1, KernelNext DEF KernelAlone, ReservedKept
<1> QED
    BY <1>2 DEF BootNoData

(* A block of the deleted file, on the drive as the call leaves it.        *)
LEMMA BlockReclaimed ==
    ASSUME Context, Wiped, pc = "load", fr.i = PtrsPerInode,
           NEW b \in DataBlocks(Here, fr.info),
           NEW dk, DataSame(Here, dk), Same(Here, dk, Mine), Entries(dk) = Mine,
           Reached(dk, NullFiles + 1) \subseteq Entries(dk),
           \A c \in Cells : dk[0][c] \notin DataArea
    PROVE  b \in FreeBlocks(dk, sb, fr.least)
<1>1. PICK i \in Pointers, c \in Cells : fr.info.ptrs[i] # 0 /\ b = Claim(Here, fr.info, i, c)
    BY DataBlocksClaimed
<1>2. b # 0
    BY DataBlocksClaimed
<1>3. /\ IsGhost(stale) /\ fr.info.ptrs = stale.ptrs /\ IsSuperblock(sb)
      /\ fr.least \in DataArea \union {0}
    BY DeletesFacts DEF Deletes
<1>4. Claim(Here, stale, i, c) = b /\ c \in Places
    BY <1>1, <1>3, ClaimOfPointers, PlaceFacts
<1>5. b \in DataArea /\ ~Claimed(Here, Mine, b)
  <2>1. b \in DataArea \union {0}
      BY <1>3, <1>4 DEF IsGhost, Ghost, WellFormed
  <2> QED
      BY <1>2, <1>3, <1>4, <2>1 DEF IsGhost, Ghost
<1>6. fr.least # 0 /\ fr.least <= b /\ ReadSector(Here, b) = ZeroSector
  <2>1. i < fr.i
      BY DiskAssumption DEF Pointers
  <2>2. Gone(Here, fr, i, c)
      BY <2>1 DEF Wiped
  <2> QED
      BY <1>1, <1>2, <2>2 DEF Gone
<1>7. LooksEmpty(ReadSector(dk, b))
    BY <1>5, <1>6 DEF DataSame, LooksEmpty, ZeroSector
<1>8. b \in fr.least .. sb.blocks
  <2>1. fr.least \in Nat /\ b \in Nat
      BY <1>3, <1>5, AreaFacts
  <2>2. DataArea = TableEnd + 1 .. sb.blocks /\ sb.blocks \in Nat /\ TableEnd \in Nat
      BY <1>3, SuperblockFacts, AreaFacts DEF Superblock
  <2> QED
      BY <1>5, <1>6, <2>1, <2>2
<1>9. b \notin PointedTo(dk)
  <2>1. ~Claimed(dk, Mine, b)
      BY <1>5, SameClaimed
  <2>2. b \notin BootBlocks(dk)
      BY <1>5 DEF BootBlocks
  <2> QED
      BY <2>1, <2>2, PointedClaimed
<1> QED
    BY <1>2, <1>7, <1>8, <1>9 DEF FreeBlocks

LEMMA ReclaimStep ==
    ASSUME Context, Context', Wiped, BootNoData', ScanEnds', DeleteSave
    PROVE  /\ FileText(disk'[drive], job.name) = None
           /\ DataBlocks(disk[drive], fr.info) \subseteq FreeBlocks(disk'[drive], sb, lab')
<1> DEFINE s   == [sb EXCEPT !.last_allocated_block = lab']
           dk2 == WriteSector(Here, SuperblockBlock, SuperblockSector(s))
<1>1. /\ pc = "load" /\ fr.i = PtrsPerInode /\ lab' = fr.least /\ pc' = "run"
      /\ SaveSuperblock /\ drive' = drive
    BY DEF DeleteSave, Return
<1>2. /\ IsGhost(stale) /\ IsSuperblock(sb) /\ Here \in Disk /\ Mine \in SUBSET Entries(Here)
      /\ Separate(Here, Mine) /\ drive \in Drives /\ disk \in [Drives -> Disk]
    BY <1>1, DeletesFacts, ContextFacts DEF Deletes
<1>3. Mine = Entries(Here)
    BY <1>1 DEF Mine, Settled, Here, Makes
<1>4. IsSuperblock(s)
  <2>1. sb = Geometry(Capacity, sb.last_allocated_block)
      BY <1>2 DEF IsSuperblock
  <2>2. s = Geometry(Capacity, lab') /\ s.last_allocated_block = lab'
      BY <2>1 DEF Geometry
  <2>3. IsSuperblock(sb')
      BY <1>1 DEF Context, Owned, Geometries
  <2>4. sb' = s
      BY <1>1 DEF SaveSuperblock
  <2> QED
      BY <2>3, <2>4
<1>5. disk'[drive] = dk2
    BY <1>1, <1>2 DEF SaveSuperblock, Write, Here
<1> HIDE DEF s
<1>6. dk2 = WriteSector(Here, SuperblockBlock, SuperblockSector(s))
    OBVIOUS
<1> HIDE DEF dk2
<1>7. /\ DataSame(Here, dk2) /\ Entries(dk2) = Entries(Here)
      /\ \A p \in Mine : WellFormed(Here, InodeAt(Here, p))
      /\ \A p \in Mine : InodeAt(dk2, p).ptrs = InodeAt(Here, p).ptrs
    BY <1>2, <1>4, <1>6, SavedDrive
<1>8. Same(Here, dk2, Mine)
    BY <1>7, DataSameSame
<1>9. /\ Reached(dk2, NullFiles) \subseteq Entries(dk2)
      /\ Reached(dk2, NullFiles + 1) \subseteq Entries(dk2)
      /\ \A c \in Cells : dk2[0][c] \notin DataArea
    BY <1>1, <1>2, <1>5 DEF Context, EntriesShown, ScanEnds, Listed, BootNoData, Formats
<1>10. FileText(dk2, job.name) = None
  <2>1. NoneNamed(dk2, Entries(dk2), job.name)
      BY <1>2, <1>3, <1>7, <1>8, SameNoneNamed DEF IsGhost, Ghost
  <2>2. Matches(dk2, job.name) = {}
      BY <1>9, <2>1 DEF Matches, NoneNamed, NameAt
  <2> QED
      BY <2>2 DEF FileText
<1>11. DataBlocks(Here, fr.info) \subseteq FreeBlocks(dk2, sb, fr.least)
  <2> SUFFICES ASSUME NEW b \in DataBlocks(Here, fr.info)
               PROVE  b \in FreeBlocks(dk2, sb, fr.least)
      OBVIOUS
  <2> QED
      BY <1>1, <1>3, <1>7, <1>8, <1>9, BlockReclaimed
<1>12. disk[drive] = Here
    BY DEF Here
<1> QED
    BY <1>1, <1>5, <1>10, <1>11, <1>12

(* A deleted file is gone when file_delete returns, and the search for a   *)
(* free block finds every one of its data blocks again from where the call *)
(* has set the cursor: the least block it cleared.  For this the blocks    *)
(* must not only be clear: no other file may name one, which is what       *)
(* Owned says of the inode in hand, and nothing the search mistakes for an *)
(* inode or a pointer block may either.                                    *)
THEOREM DeletesReclaim == SparedSpec /\ BootNoData /\ []ScanEnds => DeleteReclaims
<1>1. Init => Wiped
    BY DEF Init, Wiped
<1>2. Context /\ Context' /\ Wiped /\ BootNoData' /\ ScanEnds' /\ [Next /\ Spared]_vars
        => [DeleteSave =>
              /\ FileText(disk'[drive], job.name) = None
              /\ DataBlocks(disk[drive], fr.info)
                    \subseteq FreeBlocks(disk'[drive], sb, lab')]_vars
    BY ReclaimStep
<1> QED
    BY <1>1, <1>2, WipedNext, BootNoDataNext, ContextInvariance, PTL DEF SparedSpec, DeleteReclaims

-----------------------------------------------------------------------------
(* LeakBounded: the blocks that are lost.                                  *)

(* No file has a second pointer block.                                     *)
Single(ino) == \A i \in Pointers : i # 0 => ino.ptrs[i] = 0
OnePointer  == \A d \in Drives : \A p \in Settled(d) : Single(InodeAt(disk[d], p))

(* What looks used, belongs to no file and is not kept for a call.         *)
Waste(dk, set, kept) ==
    {b \in DataArea : ~LooksEmpty(dk[b]) /\ ~Claimed(dk, set, b) /\ b \notin kept}

(* file_create keeps the pointer block of the file it makes, file_delete   *)
(* the data blocks of the one it deletes.                                  *)
Words(dk, ino) == {Claim(dk, ino, i, c) : i \in Pointers, c \in Cells}
Owed == (IF pc \in Makes THEN {fr.block} ELSE {})
            \union (IF pc \in Deletes THEN Words(Here, fr.info) ELSE {})
OwedOn(d) == IF d = drive THEN Owed ELSE {}
Lost(d)   == Waste(disk[d], Settled(d), OwedOn(d))

NothingLost == \A d \in Drives : Lost(d) = {}
NoMoreLost  == \A d \in Drives : Lost(d)' \subseteq Lost(d)

(* At most one block for every command, and none before its delete.        *)
Leak == \A d \in Drives :
            Cardinality(Lost(d)) + (IF Calling("delete") THEN 1 ELSE 0) <= commands

(* file_write has found the file it writes.                                *)
NamedWrite == pc \in Writes => ~NoneNamed(Here, Mine, job.name)

Carried == OnePointer' /\ NoMoreLost /\ NamedWrite'

LEMMA WasteShrinks ==
    ASSUME NEW dk, NEW dk2, NEW set, NEW set2, NEW kept, NEW kept2,
           \A b \in DataArea : /\ ~LooksEmpty(dk2[b]) =>
                                    ~LooksEmpty(dk[b]) \/ Claimed(dk2, set2, b) \/ b \in kept2
                               /\ Claimed(dk, set, b) \/ b \in kept =>
                                    \/ Claimed(dk2, set2, b) \/ b \in kept2
                                    \/ LooksEmpty(dk2[b])
    PROVE  Waste(dk2, set2, kept2) \subseteq Waste(dk, set, kept)
  BY DEF Waste

(* Claims that are the same leave the same waste, where blocks are.        *)
LEMMA WasteSame ==
    ASSUME NEW dk, NEW dk2, NEW set, Same(dk, dk2, set), DataSame(dk, dk2), NEW kept
    PROVE  Waste(dk2, set, kept) \subseteq Waste(dk, set, kept)
<1>1. \A b \in DataArea : dk2[b] = dk[b]
    BY DataOutside DEF DataSame, ReadSector
<1>2. \A b : Claimed(dk2, set, b) <=> Claimed(dk, set, b)
    BY SameClaimed
<1> QED
    BY <1>1, <1>2 DEF Waste

(* A block written is claimed, kept or made empty.                         *)
LEMMA WasteWrite ==
    ASSUME NEW dk \in Disk, NEW b \in DataArea, NEW data, NEW set, NEW kept,
           Same(dk, WriteSector(dk, b, data), set),
           LooksEmpty(data) \/ Claimed(dk, set, b) \/ b \in kept
    PROVE  Waste(WriteSector(dk, b, data), set, kept) \subseteq Waste(dk, set, kept)
<1> DEFINE dk2 == WriteSector(dk, b, data)
<1>1. b \in Sectors /\ DataArea \subseteq Sectors
    BY AreaFacts
<1>2. dk2[b] = data /\ \A x \in DataArea : x # b => dk2[x] = dk[x]
    BY <1>1, ReadWritten DEF WriteSector
<1>3. \A x : Claimed(dk2, set, x) <=> Claimed(dk, set, x)
    BY SameClaimed
<1> HIDE DEF dk2
<1>4. \A x \in DataArea : /\ ~LooksEmpty(dk2[x]) =>
                               ~LooksEmpty(dk[x]) \/ Claimed(dk2, set, x) \/ x \in kept
                          /\ Claimed(dk, set, x) \/ x \in kept =>
                               Claimed(dk2, set, x) \/ x \in kept \/ LooksEmpty(dk2[x])
    BY <1>2, <1>3
<1>5. Waste(dk2, set, kept) \subseteq Waste(dk, set, kept)
    BY <1>4, WasteShrinks
<1> QED
    BY <1>5 DEF dk2

(* A step on the drive in use.                                             *)
LEMMA LostStep ==
    ASSUME Context, OnePointer, drive' = drive, NEW dk2, disk' = [disk EXCEPT ![drive] = dk2],
           Waste(dk2, Mine', Owed') \subseteq Waste(Here, Mine, Owed),
           \A p \in Mine' : \/ p \in Mine /\ InodeAt(dk2, p).ptrs = InodeAt(Here, p).ptrs
                            \/ Single(InodeAt(dk2, p))
    PROVE  OnePointer' /\ NoMoreLost
<1>1. drive \in Drives /\ disk \in [Drives -> Disk]
    BY ContextFacts
<1>2. Here' = dk2 /\ \A d \in Drives : d # drive => disk'[d] = disk[d]
    BY <1>1 DEF Here
<1>3. ASSUME NEW d \in Drives, d # drive
      PROVE  Settled(d)' = Settled(d) /\ Lost(d)' = Lost(d)
    BY <1>2, <1>3 DEF Settled, Lost, OwedOn
<1>4. Lost(drive)' = Waste(dk2, Mine', Owed') /\ Lost(drive) = Waste(Here, Mine, Owed)
    BY <1>2 DEF Lost, OwedOn, Mine, Here
<1>5. NoMoreLost
  <2> SUFFICES ASSUME NEW d \in Drives PROVE Lost(d)' \subseteq Lost(d)
      BY DEF NoMoreLost
  <2>1. CASE d = drive
      BY <1>4, <2>1
  <2>2. CASE d # drive
      BY <1>3, <2>2
  <2> QED
      BY <2>1, <2>2
<1>6. OnePointer'
  <2> SUFFICES ASSUME NEW d \in Drives, NEW p \in Settled(d)'
               PROVE  Single(InodeAt(disk'[d], p))
      BY DEF OnePointer
  <2>1. CASE d = drive
    <3>1. p \in Mine' /\ disk'[d] = dk2 /\ disk[d] = Here
        BY <1>2, <2>1 DEF Mine, Here
    <3>2. \A q \in Mine : Single(InodeAt(Here, q))
        BY <1>1 DEF OnePointer, Mine, Here
    <3> QED
        BY <3>1, <3>2 DEF Single
  <2>2. CASE d # drive
      BY <1>2, <1>3, <2>2 DEF OnePointer
  <2> QED
      BY <2>1, <2>2
<1> QED
    BY <1>5, <1>6

(* A step that writes nothing and keeps what was kept.                     *)
LEMMA LostQuiet ==
    ASSUME Context, OnePointer, NamedWrite, disk' = disk,
           \/ pc \notin Makes \union Deletes /\ pc' \notin Makes \union Deletes
           \/ pc \in Deletes /\ pc' \in Deletes /\ drive' = drive /\ fr'.info.ptrs = fr.info.ptrs,
           pc' \in Writes => /\ drive' = drive /\ job' = job
                             /\ pc \in Writes \/ ~NoneNamed(Here, Mine, job.name)
    PROVE  Carried
<1>1. pc \notin Makes /\ pc' \notin Makes
    BY DEF Makes, Deletes
<1>2. \A d \in Drives : Settled(d)' = Entries(disk[d]) /\ Settled(d) = Entries(disk[d])
    BY <1>1 DEF Settled
<1>3. \A d \in Drives : OwedOn(d)' = OwedOn(d)
  <2>1. CASE pc \notin Deletes /\ pc' \notin Deletes
    <3>1. Owed = {} /\ Owed' = {}
        BY <1>1, <2>1 DEF Owed
    <3> QED
        BY <3>1 DEF OwedOn
  <2>2. CASE pc \in Deletes /\ pc' \in Deletes /\ drive' = drive /\ fr'.info.ptrs = fr.info.ptrs
    <3>1. Here' = Here
        BY <2>2 DEF Here
    <3>2. \A i, c : Claim(Here, fr'.info, i, c) = Claim(Here, fr.info, i, c)
        BY <2>2, ClaimOfPointers
    <3>3. Words(Here, fr'.info) = Words(Here, fr.info)
        BY <3>2 DEF Words
    <3>4. Owed' = Owed
        BY <1>1, <2>2, <3>1, <3>3 DEF Owed
    <3> QED
        BY <2>2, <3>4 DEF OwedOn
  <2> QED
      BY <2>1, <2>2
<1>4. OnePointer' /\ NoMoreLost
    BY <1>2, <1>3 DEF OnePointer, NoMoreLost, Lost
<1>5. NamedWrite'
  <2> SUFFICES ASSUME pc' \in Writes PROVE ~NoneNamed(Here', Mine', job'.name)
      BY DEF NamedWrite
  <2>1. Here' = Here /\ Mine' = Mine /\ job' = job
    <3>1. drive' = drive /\ drive \in Drives
        BY ContextFacts
    <3> QED
        BY <1>2, <3>1 DEF Here, Mine
  <2> QED
      BY <2>1 DEF NamedWrite
<1> QED
    BY <1>4, <1>5 DEF Carried

(* A step that writes a superblock, with blocks kept that are empty.       *)
LEMMA LostSaved ==
    ASSUME Context, OnePointer, pc \notin Makes, pc' \notin Makes \union Deletes \union Writes,
           NEW e \in Drives, NEW s, IsSuperblock(s),
           disk' = [disk EXCEPT ![e] = WriteSector(disk[e], SuperblockBlock, SuperblockSector(s))],
           \A b \in DataArea : b \in Owed => LooksEmpty(Here[b])
    PROVE  Carried
<1> DEFINE dk  == disk[e]
           dk2 == WriteSector(dk, SuperblockBlock, SuperblockSector(s))
<1>1. disk \in [Drives -> Disk] /\ dk \in Disk
    BY ContextFacts
<1>2. \A d \in Drives : /\ Settled(d) = Entries(disk[d]) /\ Settled(d)' = Entries(disk'[d])
                        /\ Separate(disk[d], Entries(disk[d]))
    BY DEF Settled, Makes, Context, Owned, FilesSeparate
<1>3. /\ DataSame(dk, dk2) /\ Entries(dk2) = Entries(dk)
      /\ \A p \in Entries(dk) : WellFormed(dk, InodeAt(dk, p))
      /\ \A p \in Entries(dk) : InodeAt(dk2, p).ptrs = InodeAt(dk, p).ptrs
    BY <1>1, <1>2, SavedDrive
<1> HIDE DEF dk2, dk
<1>4. disk'[e] = dk2 /\ disk[e] = dk /\ \A d \in Drives : d # e => disk'[d] = disk[d]
    BY <1>1 DEF dk, dk2
<1>5. Same(dk, dk2, Entries(dk))
    BY <1>3, DataSameSame
<1>6. \A d \in Drives : OwedOn(d)' = {}
    BY DEF OwedOn, Owed
<1>7. \A d \in Drives : \A b \in DataArea : b \in OwedOn(d) => LooksEmpty(disk[d][b])
    BY DEF OwedOn, Here
<1>8. ASSUME NEW d \in Drives
      PROVE  Waste(disk[d], Entries(disk[d]), {}) \subseteq Lost(d)
    BY <1>2, <1>7 DEF Lost, Waste
<1>9. ASSUME NEW d \in Drives PROVE Lost(d)' \subseteq Lost(d)
  <2>1. Lost(d)' = Waste(disk'[d], Entries(disk'[d]), {})
      BY <1>2, <1>6 DEF Lost
  <2>2. CASE d # e
      BY <1>4, <1>8, <2>1, <2>2
  <2>3. CASE d = e
    <3>1. Waste(dk2, Entries(dk), {}) \subseteq Waste(dk, Entries(dk), {})
        BY <1>3, <1>5, WasteSame
    <3> QED
        BY <1>3, <1>4, <1>8, <2>1, <2>3, <3>1
  <2> QED
      BY <2>2, <2>3
<1>10. ASSUME NEW d \in Drives, NEW p \in Settled(d)'
       PROVE  Single(InodeAt(disk'[d], p))
  <2>1. CASE d # e
      BY <1>2, <1>4, <1>10, <2>1 DEF OnePointer
  <2>2. CASE d = e
      BY <1>2, <1>3, <1>4, <1>10, <2>2 DEF OnePointer, Single
  <2> QED
      BY <2>1, <2>2
<1> QED
    BY <1>9, <1>10 DEF Carried, OnePointer, NoMoreLost, NamedWrite

LEMMA LostBoot == Context /\ OnePointer /\ Boot => Carried /\ pc' = "shell"
<1> SUFFICES ASSUME Context, OnePointer, Boot PROVE Carried /\ pc' = "shell"
    OBVIOUS
<1>1. /\ TypeOK /\ disk \in [Drives -> Disk] /\ BootDrive \in Drives
      /\ disk[BootDrive] \in Disk /\ pc = "off"
    BY ContextFacts, ESFSAssumption DEF Boot
<1>2. IsSuperblock(SuperblockOf(disk[BootDrive]))
    BY <1>1 DEF Context, Owned, Geometries
<1> DEFINE s   == SuperblockOf(disk[BootDrive])
           dk2 == WriteSector(disk[BootDrive], SuperblockBlock, SuperblockSector(s))
<1>3. disk' = [disk EXCEPT ![BootDrive] = dk2]
    BY <1>2, InitFsInUse DEF Boot
<1>4. Separate(disk[BootDrive], Entries(disk[BootDrive]))
    BY <1>1 DEF Context, Owned, FilesSeparate, Settled, Makes
<1>5. SuperblockOf(dk2) = s
    BY <1>1, <1>2, <1>4, SavedDrive
<1>6. s.magic = Magic
    BY <1>2, SuperblockFacts
<1>7. pc' = "shell"
    BY <1>1, <1>3, <1>5, <1>6 DEF Boot, CheckDiskFs
<1>8. pc \notin Makes /\ pc' \notin Makes \union Deletes \union Writes /\ Owed = {}
    BY <1>1, <1>7 DEF Owed, Makes, Deletes, Writes
<1> HIDE DEF s
<1>9. Carried
    BY <1>1, <1>2, <1>3, <1>8, LostSaved DEF s
<1> QED
    BY <1>7, <1>9

LEMMA LostSave ==
    ASSUME Context, OnePointer, pc \notin {"off", "shell"} \union Makes, pc' = "run",
           SaveSuperblock, lab' \in DataArea,
           \A b \in DataArea : b \in Owed => LooksEmpty(Here[b])
    PROVE  Carried
<1>1. IsSuperblock(sb) /\ drive \in Drives
    BY CallFacts, ContextFacts
<1> DEFINE saved == [sb EXCEPT !.last_allocated_block = lab']
<1>2. IsSuperblock(saved)
    BY <1>1, SuperblockFacts DEF IsSuperblock, Geometry
<1>3. disk' = [disk EXCEPT ![drive] =
                  WriteSector(disk[drive], SuperblockBlock, SuperblockSector(saved))]
    BY DEF SaveSuperblock, Write
<1>4. pc' \notin Makes \union Deletes \union Writes
    BY DEF Makes, Deletes, Writes
<1> HIDE DEF saved
<1> QED
    BY <1>1, <1>2, <1>3, <1>4, LostSaved

-----------------------------------------------------------------------------
(* file_create loses nothing.                                              *)

LEMMA LostCreateInode ==
    ASSUME Context, OnePointer, Calling("create"),
           NEW e \in FreeEntry(disk[drive], sb), CreateInode(e), pc' = "image", drive' = drive,
           Spared
    PROVE  Carried
<1> PICK block, ino, image : CreateInodeAs(e, block, ino, image)
    BY CreateInodeTerms
<1> USE DEF CreateInodeAs
<1> DEFINE b   == InodeSector(e)
           dk2 == WriteSector(Here, b, image)
<1>1. /\ Here \in Disk /\ IsSuperblock(sb) /\ pc = "run" /\ StartLab = lab
      /\ lab \in DataArea /\ job.name \in Seq(Nat) /\ disk[drive] = Here
    BY ContextFacts, CallFacts DEF Here, Calling
<1>2. Mine = Entries(Here) /\ Separate(Here, Entries(Here))
  <2>1. Mine = Entries(Here)
      BY <1>1 DEF Mine, Settled, Here, Makes
  <2> QED
      BY <1>1, <2>1, ContextFacts
<1>3. e \in Positions /\ IsInode(e) /\ b <= TableEnd /\ e \notin Entries(Here)
    BY <1>1, FreeEntryFacts
<1>4. ino \in Inode /\ ino.valid = 1 /\ ino.ptrs = [NoInode.ptrs EXCEPT ![0] = block]
  <2>1. InitialSize(job.name) \in Nat
      BY <1>1, LenProperties DEF InitialSize
  <2>2. block \in Nat
    <3>1. FreeBlocks(disk[drive], sb, StartLab) # {}
        BY <1>1 DEF Spared, BlockFound
    <3>2. block \in DataArea
        BY <1>1, <3>1, Allocated
    <3> QED
        BY <3>2, AreaFacts
  <2> DEFINE ptrs == [NoInode.ptrs EXCEPT ![0] = block]
  <2>3. ptrs \in [0 .. PtrsPerInode - 1 -> Nat]
      BY <2>2 DEF NoInode
  <2> HIDE DEF ptrs
  <2> QED
      BY <2>1, <2>3 DEF Inode, ptrs
<1>5. PutAt(Here, dk2, e, ino)
    BY <1>1, <1>3, <1>4, PutByWrite
<1>6. disk' = [disk EXCEPT ![drive] = dk2]
    BY <1>1 DEF Write
<1> HIDE DEF dk2
<1>7. /\ Entries(dk2) = Entries(Here) \union {e}
      /\ \A p \in Entries(Here) : InodeAt(dk2, p) = InodeAt(Here, p)
  <2>1. InodeInTable(e)
      BY <1>3 DEF InodeInTable
  <2> QED
      BY <1>3, <1>4, <1>5, <2>1, PutEntries
<1>8. DataSame(Here, dk2)
    BY <1>3, <1>5, PutData
<1>9. Same(Here, dk2, Mine)
    BY <1>2, <1>7, <1>8, DataSameSame DEF Separate
<1>10. Here' = dk2 /\ Mine' = Mine
  <2>1. Here' = dk2
      BY <1>6, ContextFacts DEF Here
  <2>2. pc' \in Makes /\ fr'.entry = e
      BY DEF Makes, NoFrame
  <2> QED
      BY <1>2, <1>3, <1>7, <2>1, <2>2 DEF Mine, Settled, Here
<1>11. Waste(dk2, Mine', Owed') \subseteq Waste(Here, Mine, Owed)
  <2>1. Owed = {}
      BY <1>1 DEF Owed, Makes, Deletes
  <2>2. Waste(dk2, Mine, Owed') \subseteq Waste(dk2, Mine, {})
      BY DEF Waste
  <2>3. Waste(dk2, Mine, {}) \subseteq Waste(Here, Mine, {})
      BY <1>8, <1>9, WasteSame
  <2> QED
      BY <1>10, <2>1, <2>2, <2>3
<1>12. \A p \in Mine' : p \in Mine /\ InodeAt(dk2, p).ptrs = InodeAt(Here, p).ptrs
    BY <1>2, <1>7, <1>10
<1>13. OnePointer' /\ NoMoreLost
    BY <1>6, <1>11, <1>12, LostStep
<1>14. pc' \notin Writes
    BY DEF Writes
<1> QED
    BY <1>13, <1>14 DEF Carried, NamedWrite

LEMMA LostCreate == Context /\ OnePointer /\ NamedWrite /\ Create /\ Spared => Carried
<1> SUFFICES ASSUME Context, OnePointer, NamedWrite, Create, Spared PROVE Carried
    OBVIOUS
<1>1. /\ Calling("create") /\ UNCHANGED drive /\ pc = "run"
      /\ \E info \in Lookup("create", job.name) :
            stale' = info /\ (CreateFound(info) \/ CreateNone(info) \/ CreateNew(info))
    BY CreateParts DEF Calling
<1>2. PICK info \in Lookup("create", job.name) :
          CreateFound(info) \/ CreateNone(info) \/ CreateNew(info)
    BY <1>1
<1>3. CASE CreateFound(info) \/ CreateNone(info)
  <2>1. disk' = disk /\ pc' = "run"
      BY <1>3 DEF CreateFound, CreateNone, Return
  <2> QED
      BY <1>1, <2>1, LostQuiet DEF Makes, Deletes, Writes
<1>4. CASE CreateNew(info)
    BY <1>1, <1>4, LostCreateInode DEF CreateNew
<1> QED
    BY <1>2, <1>3, <1>4

LEMMA LostMaking ==
    ASSUME Context, OnePointer, pc \in Makes, pc' \in Makes, NEW data, Write(fr.block, data),
           UNCHANGED <<drive, sb, stale, todo, job>>, lab' \in DataArea,
           fr'.entry = fr.entry, fr'.block = fr.block
    PROVE  Carried
<1>1. fr.block \in DataArea /\ Here \in Disk /\ drive \in Drives /\ disk \in [Drives -> Disk]
    BY MakesFacts, ContextFacts
<1>2. /\ Here' = WriteSector(Here, fr.block, data) /\ Mine' = Mine /\ Same(Here, Here', Mine)
    BY MakingStep
<1>3. Owed = {fr.block} /\ Owed' = {fr.block} /\ pc' \notin Writes
    BY DEF Owed, Makes, Deletes, Writes
<1>4. Waste(Here', Mine', Owed') \subseteq Waste(Here, Mine, Owed)
    BY <1>1, <1>2, <1>3, WasteWrite
<1>5. disk' = [disk EXCEPT ![drive] = Here']
    BY <1>1, <1>2 DEF Write, Here
<1>6. \A p \in Mine' : p \in Mine /\ InodeAt(Here', p).ptrs = InodeAt(Here, p).ptrs
    BY <1>2 DEF Same
<1>7. OnePointer' /\ NoMoreLost
    BY <1>4, <1>5, <1>6, LostStep
<1> QED
    BY <1>3, <1>7 DEF Carried, NamedWrite

LEMMA LostCreateBlock ==
    Context /\ Context' /\ OnePointer /\ (CreateImage \/ CreateZero \/ CreatePointer) => Carried
<1> SUFFICES ASSUME Context, Context', OnePointer, CreateImage \/ CreateZero \/ CreatePointer
             PROVE  Carried
    OBVIOUS
<1>1. /\ pc \in Makes /\ pc' \in Makes /\ \E data : Write(fr.block, data)
      /\ UNCHANGED <<drive, sb, stale, todo, job>>
    BY DEF CreateImage, CreateZero, CreatePointer, Makes, env, program
<1>2. fr'.entry = fr.entry /\ fr'.block = fr.block
  <2>1. fr \in Frame
      BY ContextFacts DEF TypeOK
  <2> QED
      BY <2>1 DEF CreateImage, CreateZero, CreatePointer, Frame
<1>3. lab' \in DataArea
    BY <1>1 DEF Context, Owned, Geometries, Makes
<1>4. PICK data : Write(fr.block, data)
    BY <1>1
<1> QED
    BY <1>1, <1>2, <1>3, <1>4, LostMaking

LEMMA LostCreateName == Context /\ OnePointer /\ CreateName => Carried
<1> SUFFICES ASSUME Context, OnePointer, CreateName PROVE Carried
    OBVIOUS
<1> DEFINE dk2 == WriteSector(Here, fr.block2, ToSector(job.name))
           e   == fr.entry
<1>1. /\ pc = "name" /\ pc' = "created" /\ Write(fr.block2, ToSector(job.name))
      /\ UNCHANGED <<drive, fr, job>>
    BY DEF CreateName, env, program
<1>2. /\ Here \in Disk /\ Mine \in SUBSET Entries(Here) /\ Separate(Here, Mine)
      /\ job.name \in Seq(Nat) /\ drive \in Drives /\ disk \in [Drives -> Disk]
    BY ContextFacts
<1>3. /\ e \in Entries(Here) /\ NewInode(InodeAt(Here, e)) /\ fr.block \in DataArea
      /\ Mine = Entries(Here) \ {e}
    BY <1>1, MakesFacts DEF Makes
<1>4. /\ fr.block2 \in DataArea /\ fr.block2 # fr.block /\ ~Held(fr.block2)
      /\ Here[fr.block] = ToSector(<<fr.block2>>)
    BY <1>1 DEF Context, Owned, InCreate, Makes
<1>5. disk' = [disk EXCEPT ![drive] = dk2]
    BY <1>1 DEF Write, Here
<1>6. /\ Entries(dk2) = Entries(Here)
      /\ \A p \in Entries(Here) : InodeAt(dk2, p) = InodeAt(Here, p)
      /\ Same(Here, dk2, Mine)
    BY <1>2, <1>4, UnclaimedWrite DEF Held
<1>7. dk2 \in Disk
  <2>1. ToSector(job.name) \in Sector
      BY <1>2, ToSectorType
  <2> QED
      BY <1>2, <2>1, WriteSectorType
<1>8. /\ dk2[fr.block] = ToSector(<<fr.block2>>)
      /\ \A b \in DataArea : b # fr.block2 => dk2[b] = Here[b]
  <2>1. DataArea \subseteq Sectors
      BY AreaFacts
  <2>2. \A b \in DataArea : b # fr.block2 => dk2[b] = Here[b]
      BY <2>1 DEF WriteSector
  <2> QED
      BY <1>3, <1>4, <2>2
<1> HIDE DEF dk2
<1>9. Here' = dk2 /\ Mine' = Entries(Here)
  <2>1. Here' = dk2
      BY <1>1, <1>2, <1>5 DEF Here
  <2>2. pc' \notin Makes
      BY <1>1 DEF Makes
  <2> QED
      BY <1>1, <1>6, <2>1, <2>2 DEF Mine, Settled, Here
<1>10. Owed = {fr.block} /\ Owed' = {} /\ pc' \notin Writes
    BY <1>1 DEF Owed, Makes, Deletes, Writes
<1>11. Claimed(dk2, Entries(Here), fr.block) /\ Claimed(dk2, Entries(Here), fr.block2)
  <2>1. InodeAt(dk2, e).ptrs = [NoInode.ptrs EXCEPT ![0] = fr.block]
      BY <1>3, <1>6 DEF NewInode
  <2>2. 0 \in Pointers /\ 0 \in Places /\ -1 \in Places
      BY PlaceFacts
  <2>3. /\ Claim(dk2, InodeAt(dk2, e), 0, -1) = fr.block
        /\ Claim(dk2, InodeAt(dk2, e), 0, 0) = fr.block2
      BY <1>3, <1>4, <1>7, <1>8, <2>1, <2>2, NewClaim
  <2> QED
      BY <1>3, <2>2, <2>3 DEF Claimed
<1>12. ASSUME NEW b, Claimed(Here, Mine, b) PROVE Claimed(dk2, Entries(Here), b)
  <2>1. Claimed(dk2, Mine, b)
      BY <1>6, <1>12, SameClaimed
  <2> QED
      BY <1>2, <2>1, FewerClaimed
<1>13. Waste(dk2, Mine', Owed') \subseteq Waste(Here, Mine, Owed)
  <2>1. ASSUME NEW b \in DataArea
        PROVE  /\ ~LooksEmpty(dk2[b]) => ~LooksEmpty(Here[b]) \/ Claimed(dk2, Mine', b)
               /\ Claimed(Here, Mine, b) \/ b \in Owed => Claimed(dk2, Mine', b)
      BY <1>8, <1>9, <1>10, <1>11, <1>12
  <2> QED
      BY <2>1, WasteShrinks
<1>14. Single(InodeAt(dk2, e))
    BY <1>3, <1>6 DEF Single, NewInode, NoInode, Pointers
<1>15. \A p \in Mine' : \/ p \in Mine /\ InodeAt(dk2, p).ptrs = InodeAt(Here, p).ptrs
                        \/ Single(InodeAt(dk2, p))
    BY <1>3, <1>6, <1>9, <1>14
<1>16. OnePointer' /\ NoMoreLost
    BY <1>1, <1>5, <1>13, <1>15, LostStep
<1> QED
    BY <1>10, <1>16 DEF Carried, NamedWrite
-----------------------------------------------------------------------------
(* file_delete loses the block of the words it reads.                      *)

LEMMA LostCreateSave == Context /\ OnePointer /\ CreateSave => Carried
<1> SUFFICES ASSUME Context, OnePointer, CreateSave PROVE Carried
    OBVIOUS
<1>1. pc = "created" /\ lab' = lab /\ SaveSuperblock /\ pc' = "run"
    BY DEF CreateSave, Return
<1>2. pc \notin {"off", "shell"} \union Makes /\ Owed = {}
    BY <1>1 DEF Owed, Makes, Deletes
<1>3. lab' \in DataArea
    BY <1>1, <1>2, CallFacts
<1> QED
    BY <1>1, <1>2, <1>3, LostSave

LEMMA LostWriteSave == Context /\ OnePointer /\ WriteSave => Carried
<1> SUFFICES ASSUME Context, OnePointer, WriteSave PROVE Carried
    OBVIOUS
<1>1. pc = "written" /\ lab' = lab /\ SaveSuperblock /\ pc' = "run"
    BY DEF WriteSave, Return
<1>2. pc \notin {"off", "shell"} \union Makes /\ Owed = {}
    BY <1>1 DEF Owed, Makes, Deletes
<1>3. lab' \in DataArea
    BY <1>1, <1>2, CallFacts
<1> QED
    BY <1>1, <1>2, <1>3, LostSave

(* What a file with one pointer block claims is that block and its words.  *)
LEMMA SingleClaims ==
    ASSUME NEW dk, NEW ino, Single(ino), NEW i \in Pointers, NEW c \in Places
    PROVE  \/ Claim(dk, ino, i, c) = 0
           \/ Claim(dk, ino, i, c) = ino.ptrs[0]
           \/ Claim(dk, ino, i, c) \in Words(dk, ino)
<1>1. CASE c = -1
    BY <1>1, PointerClaimed DEF Single
<1>2. CASE c # -1
    BY <1>2, PlaceFacts DEF Words
<1> QED
    BY <1>1, <1>2

LEMMA LostDeletedFile ==
    ASSUME Context, OnePointer, pc = "run", NEW p \in Mine, NEW info, info = InodeAt(Here, p),
           Matches(Here, job.name) = {p},
           disk' = [disk EXCEPT ![drive] = SetFileInfo(Here, job.name, NoInode)],
           drive' = drive, fr'.info = info, pc' = "load"
    PROVE  /\ OnePointer'
           /\ \A d \in Drives : Lost(d)' \subseteq Lost(d) \union
                                    (IF d = drive THEN {info.ptrs[0]} ELSE {})
<1> DEFINE dk2  == SetFileInfo(Here, job.name, NoInode)
           left == Mine \ {p}
<1>1. /\ Here \in Disk /\ Mine \in SUBSET Entries(Here) /\ Separate(Here, Mine)
      /\ drive \in Drives /\ disk \in [Drives -> Disk]
    BY ContextFacts
<1>2. Mine = Entries(Here)
    BY DEF Mine, Settled, Here, Makes
<1>3. p \in Positions /\ IsInode(p) /\ InodeSector(p) <= TableEnd
    BY <1>1, EntryFacts
<1>4. NoInode \in Inode /\ NoInode.valid = 0
    BY NoInodeType DEF NoInode
<1>5. dk2 = WriteSector(Here, InodeSector(p), WithInode(Here[InodeSector(p)], p, NoInode))
    BY <1>1, <1>3, <1>4, UpdateOne
<1>6. PutAt(Here, dk2, p, NoInode)
    BY <1>1, <1>3, <1>4, <1>5, PutByWrite
<1>7. disk' = [disk EXCEPT ![drive] = dk2]
    OBVIOUS
<1> HIDE DEF dk2
<1>8. Entries(dk2) = left /\ \A q \in left : InodeAt(dk2, q) = InodeAt(Here, q)
  <2>1. InodeInTable(p) /\ NoInode.valid # 1
      BY <1>3, <1>4 DEF InodeInTable
  <2>2. /\ Entries(dk2) = Entries(Here) \ {p}
        /\ \A q \in Entries(Here) : q # p => InodeAt(dk2, q) = InodeAt(Here, q)
      BY <1>6, <2>1, PutEntries
  <2> QED
      BY <1>2, <2>2
<1>9. DataSame(Here, dk2)
    BY <1>3, <1>6, PutData
<1>10. Same(Here, dk2, left)
  <2>1. \A q \in left : WellFormed(Here, InodeAt(Here, q))
      BY <1>1 DEF Separate
  <2>2. \A q \in left : InodeAt(dk2, q).ptrs = InodeAt(Here, q).ptrs
      BY <1>8
  <2> HIDE DEF left
  <2> QED
      BY <1>9, <2>1, <2>2, DataSameSame
<1>11. /\ Here' = dk2 /\ pc \notin Makes \union Deletes /\ pc' \in Deletes /\ pc' \notin Makes
       /\ \A d \in Drives : d # drive => disk'[d] = disk[d]
    BY <1>1, <1>7 DEF Here, Makes, Deletes
<1>12. Mine' = left /\ Owed = {} /\ Owed' = Words(dk2, info)
  <2>1. Mine' = Entries(dk2)
      BY <1>11 DEF Mine, Settled, Here
  <2> QED
      BY <1>8, <1>11, <2>1 DEF Owed
<1>13. Alike(Here, dk2, info) /\ Single(info)
  <2>1. WellFormed(Here, info)
      BY <1>1 DEF Separate
  <2>2. Single(info)
      BY <1>1 DEF OnePointer, Mine, Here
  <2> QED
      BY <1>9, <2>1, <2>2, DataSameAlike
<1>14. \A b \in DataArea : dk2[b] = Here[b]
    BY <1>9, DataOutside DEF DataSame, ReadSector
<1>15. ASSUME NEW b \in DataArea, Claimed(Here, Mine, b), ~Claimed(dk2, left, b),
              b # info.ptrs[0]
       PROVE  b \in Words(dk2, info)
  <2>1. PICK q \in Mine, i \in Pointers, c \in Places : b = Claim(Here, InodeAt(Here, q), i, c)
      BY <1>15 DEF Claimed
  <2>2. q = p
    <3> SUFFICES ASSUME q \in left PROVE FALSE
        OBVIOUS
    <3>1. Claimed(Here, left, b)
        BY <2>1 DEF Claimed
    <3> QED
        BY <1>10, <1>15, <3>1, SameClaimed
  <2>3. b = Claim(dk2, info, i, c)
      BY <1>13, <2>1, <2>2 DEF Alike
  <2>4. b # 0
      BY DataOutside
  <2> QED
      BY <1>13, <1>15, <2>3, <2>4, SingleClaims
<1>16. Waste(dk2, left, Words(dk2, info)) \subseteq Waste(Here, Mine, {}) \union {info.ptrs[0]}
    BY <1>14, <1>15 DEF Waste
<1>17. Lost(drive)' = Waste(dk2, left, Words(dk2, info)) /\ Lost(drive) = Waste(Here, Mine, {})
    BY <1>11, <1>12 DEF Lost, OwedOn, Mine, Here
<1>18. ASSUME NEW d \in Drives, d # drive
       PROVE  Settled(d)' = Settled(d) /\ Lost(d)' = Lost(d)
    BY <1>11, <1>18 DEF Settled, Lost, OwedOn
<1>19. OnePointer'
  <2> SUFFICES ASSUME NEW d \in Drives, NEW q \in Settled(d)'
               PROVE  Single(InodeAt(disk'[d], q))
      BY DEF OnePointer
  <2>1. CASE d = drive
    <3>1. q \in left /\ disk'[d] = dk2
        BY <1>11, <1>12, <2>1 DEF Mine, Here
    <3>2. Single(InodeAt(Here, q))
        BY <1>1, <3>1 DEF OnePointer, Mine, Here
    <3> QED
        BY <1>8, <3>1, <3>2
  <2>2. CASE d # drive
      BY <1>11, <1>18, <2>2 DEF OnePointer
  <2> QED
      BY <2>1, <2>2
<1> QED
    BY <1>16, <1>17, <1>18, <1>19

(* An inode of none of the files is forgotten.                             *)
LEMMA LostDeletedGhost ==
    ASSUME Context, OnePointer, pc = "run", Matches(Here, job.name) = {},
           disk' = [disk EXCEPT ![drive] = SetFileInfo(Here, job.name, NoInode)],
           drive' = drive, pc' = "load"
    PROVE  OnePointer' /\ NoMoreLost
<1>1. Here \in Disk /\ drive \in Drives /\ disk \in [Drives -> Disk]
    BY ContextFacts
<1>2. disk' = disk
  <2>1. SetFileInfo(Here, job.name, NoInode) = disk[drive]
      BY <1>1, UpdateNone DEF Here
  <2> QED
      BY <1>1, <2>1
<1>3. pc \notin Makes \union Deletes /\ pc' \notin Makes
    BY DEF Makes, Deletes
<1>4. \A d \in Drives : Settled(d)' = Settled(d) /\ Lost(d)' \subseteq Lost(d)
    BY <1>2, <1>3 DEF Settled, Lost, OwedOn, Owed, Waste
<1> QED
    BY <1>2, <1>4 DEF OnePointer, NoMoreLost

OneMoreLost == \E b : \A d \in Drives : Lost(d)' \subseteq Lost(d) \union {b}

LEMMA LostDelete ==
    ASSUME Context, OnePointer, NamedWrite, Delete
    PROVE  /\ Calling("delete") /\ UNCHANGED commands
           /\ \/ Carried /\ todo' = Tail(todo) /\ pc' = "run"
              \/ OnePointer' /\ OneMoreLost /\ NamedWrite' /\ pc' = "load" /\ UNCHANGED todo
<1>1. Calling("delete") /\ UNCHANGED <<drive, job, commands>> /\ pc = "run"
    BY DeleteParts DEF Calling, program, bounds
<1>2. PICK info \in Lookup("delete", job.name) : DeleteNone(info) \/ DeleteFound(info)
    BY DeleteParts
<1>3. CASE DeleteNone(info)
  <2>1. disk' = disk /\ pc' = "run" /\ todo' = Tail(todo)
      BY <1>3 DEF DeleteNone, Return
  <2>2. pc \notin Makes \union Deletes /\ pc' \notin Makes \union Deletes /\ pc' \notin Writes
      BY <1>1, <2>1 DEF Makes, Deletes, Writes
  <2>3. Carried
      BY <2>1, <2>2, LostQuiet
  <2> QED
      BY <1>1, <2>1, <2>3
<1>4. CASE DeleteFound(info)
  <2>1. /\ info.valid = 1 /\ pc' = "load" /\ fr'.info = info /\ UNCHANGED todo
        /\ disk' = [disk EXCEPT ![drive] = SetFileInfo(Here, job.name, NoInode)]
      BY <1>4 DEF DeleteFound, Here, NoFrame
  <2>2. NamedWrite'
      BY <2>1 DEF NamedWrite, Writes
  <2>3. OnePointer' /\ OneMoreLost
    <3>1. CASE Matches(Here, job.name) = {}
      <4>1. OnePointer' /\ NoMoreLost
          BY <1>1, <2>1, <3>1, LostDeletedGhost
      <4> QED
          BY <4>1 DEF NoMoreLost, OneMoreLost
    <3>2. ASSUME NEW p \in Mine, Matches(Here, job.name) = {p}, info = InodeAt(Here, p)
          PROVE  OnePointer' /\ OneMoreLost
      <4>1. /\ OnePointer'
            /\ \A d \in Drives : Lost(d)' \subseteq Lost(d) \union
                                     (IF d = drive THEN {info.ptrs[0]} ELSE {})
          BY <1>1, <2>1, <3>2, LostDeletedFile
      <4>2. \A d \in Drives : Lost(d)' \subseteq Lost(d) \union {info.ptrs[0]}
          BY <4>1
      <4> QED
          BY <4>1, <4>2 DEF OneMoreLost
    <3> QED
        BY <1>1, <3>1, <3>2, LookupFacts
  <2> QED
      BY <1>1, <2>1, <2>2, <2>3
<1> QED
    BY <1>2, <1>3, <1>4

LEMMA LostDeleteLoad == Context /\ OnePointer /\ NamedWrite /\ DeleteLoad => Carried
<1> SUFFICES ASSUME Context, OnePointer, NamedWrite, DeleteLoad PROVE Carried
    OBVIOUS
<1>1. pc = "load" /\ pc' = "wipe" /\ disk' = disk /\ drive' = drive
    BY DEF DeleteLoad
<1>2. fr'.info = fr.info
  <2>1. fr \in Frame
      BY ContextFacts DEF TypeOK
  <2> QED
      BY <2>1 DEF DeleteLoad, Frame
<1>3. pc \in Deletes /\ pc' \in Deletes /\ pc' \notin Writes
    BY <1>1 DEF Deletes, Writes
<1> QED
    BY <1>1, <1>2, <1>3, LostQuiet

LEMMA LostDeleteWipe == Context /\ OnePointer /\ NamedWrite /\ DeleteWipe => Carried
<1> SUFFICES ASSUME Context, OnePointer, NamedWrite, DeleteWipe PROVE Carried
    OBVIOUS
<1>1. pc = "wipe" /\ UNCHANGED <<lab, drive, sb, stale, job>>
    BY DEF DeleteWipe, env, program
<1>2. /\ IsGhost(stale) /\ fr.info.ptrs = stale.ptrs /\ WellFormed(Here, stale)
      /\ lab \in DataArea /\ IsSuperblock(sb)
    BY <1>1, DeletesFacts DEF Deletes
<1>3. /\ Here \in Disk /\ drive \in Drives /\ disk \in [Drives -> Disk]
      /\ fr \in Frame /\ fr.rest \in SUBSET Cells
  <2>1. TypeOK /\ Here \in Disk /\ drive \in Drives /\ disk \in [Drives -> Disk]
      BY ContextFacts
  <2> QED
      BY <2>1 DEF TypeOK, Frame
<1>4. CASE fr.rest = {} /\ pc' = "load" /\ UNCHANGED <<disk, fr>>
  <2>1. pc \in Deletes /\ pc' \in Deletes /\ pc' \notin Writes
      BY <1>1, <1>4 DEF Deletes, Writes
  <2> QED
      BY <1>1, <1>4, <2>1, LostQuiet
<1>5. ASSUME NEW c \in fr.rest, Write(fr.buf[c], ZeroSector), pc' = pc,
             fr' = [fr EXCEPT !.rest = @ \ {c}, !.least = Least(@, fr.buf[c])]
      PROVE  Carried
  <2> DEFINE b == fr.buf[c]
  <2>1. PICK i \in Pointers : fr.info.ptrs[i] # 0 /\ fr.buf = Here[fr.info.ptrs[i]]
      BY <1>1, <1>5 DEF Context, Owned, InDelete
  <2>2. b # 0
      BY <1>1, <1>5 DEF Context, IInv, PlacesSet
  <2>3. stale.ptrs[i] # 0 /\ b = ReadSector(Here, stale.ptrs[i])[c]
      BY <1>2, <2>1, PointerPlace
  <2>4. b \in DataArea /\ ~Held(b) /\ \A j \in Pointers : stale.ptrs[j] # b
    <3>1. c \in Cells /\ Ghost(Here, Mine, job.name, stale)
        BY <1>2, <1>3 DEF IsGhost
    <3> QED
        BY <2>2, <2>3, <3>1, GhostBlock DEF Held
  <2>5. fr'.info = fr.info
      BY <1>3, <1>5 DEF Frame
  <2>6. Write(b, ZeroSector)
      BY <1>5
  <2> HIDE DEF b
  <2>7. /\ Here' = WriteSector(Here, b, ZeroSector) /\ Mine' = Mine
        /\ Same(Here, Here', Mine)
        /\ \A p \in Entries(Here) : InodeAt(Here', p) = InodeAt(Here, p)
    <3>1. pc # "off" /\ (pc \in Makes <=> pc' \in Makes) /\ pc \notin Makes
        BY <1>1, <1>5 DEF Makes
    <3> QED
        BY <1>1, <1>2, <2>4, <2>6, <3>1, UnclaimedStep
  <2>8. Words(Here', fr'.info) = Words(Here, fr.info)
    <3>1. Alike(Here, Here', fr.info)
        BY <1>2, <1>3, <2>4, <2>7, AlikeWrite
    <3>2. \A j \in Pointers, x \in Cells : Claim(Here', fr'.info, j, x) = Claim(Here, fr.info, j, x)
        BY <2>5, <3>1, PlaceFacts DEF Alike
    <3> QED
        BY <3>2 DEF Words
  <2>9. Owed' = Owed /\ pc' \notin Writes
    <3>1. /\ pc \in Deletes /\ pc' \in Deletes
          /\ pc \notin Makes /\ pc' \notin Makes /\ pc' \notin Writes
        BY <1>1, <1>5 DEF Deletes, Makes, Writes
    <3> QED
        BY <2>8, <3>1 DEF Owed
  <2>10. Waste(Here', Mine', Owed') \subseteq Waste(Here, Mine, Owed)
    <3>1. LooksEmpty(ZeroSector)
        BY DEF LooksEmpty, ZeroSector
    <3> QED
        BY <1>3, <2>4, <2>7, <2>9, <3>1, WasteWrite
  <2>11. disk' = [disk EXCEPT ![drive] = Here']
      BY <2>6, <2>7 DEF Write, Here
  <2>12. \A p \in Mine' : p \in Mine /\ InodeAt(Here', p).ptrs = InodeAt(Here, p).ptrs
      BY <2>7 DEF Same
  <2>13. OnePointer' /\ NoMoreLost
      BY <1>1, <2>10, <2>11, <2>12, LostStep
  <2> QED
      BY <2>9, <2>13 DEF Carried, NamedWrite
<1> QED
    BY <1>4, <1>5 DEF DeleteWipe

(* At the end every data block of the file is empty.                       *)
LEMMA LostDeleteSave == Context /\ OnePointer /\ Wiped /\ DeleteSave => Carried
<1> SUFFICES ASSUME Context, OnePointer, Wiped, DeleteSave PROVE Carried
    OBVIOUS
<1>1. /\ pc = "load" /\ fr.i = PtrsPerInode /\ lab' = fr.least /\ SaveSuperblock
      /\ pc' = "run"
    BY DEF DeleteSave, Return
<1>2. pc \notin {"off", "shell"} \union Makes /\ pc \in Deletes
    BY <1>1 DEF Makes, Deletes
<1>3. lab' \in DataArea
  <2>1. fr.least \in DataArea \union {0}
      BY <1>2, DeletesFacts
  <2>2. fr.least # 0
    <3>1. PtrsPerInode # 0
        BY DiskAssumption
    <3> QED
        BY <1>1, <3>1 DEF Context, Owned, InDelete
  <2> QED
      BY <1>1, <2>1, <2>2
<1>4. ASSUME NEW b \in DataArea, b \in Owed PROVE LooksEmpty(Here[b])
  <2>1. PICK i \in Pointers, c \in Cells : b = Claim(Here, fr.info, i, c)
      BY <1>2, <1>4 DEF Owed, Words
  <2>2. i < fr.i
      BY <1>1, DiskAssumption DEF Pointers
  <2>3. Gone(Here, fr, i, c)
      BY <1>1, <2>2 DEF Wiped
  <2>4. b # 0 /\ b \in Sectors
      BY DataOutside
  <2>5. Here[b] = ZeroSector
      BY <2>1, <2>3, <2>4 DEF Gone, ReadSector
  <2> QED
      BY <2>5 DEF LooksEmpty, ZeroSector
<1> QED
    BY <1>1, <1>2, <1>3, <1>4, LostSave
-----------------------------------------------------------------------------
(* file_write loses nothing.                                               *)

LEMMA LostWriting ==
    ASSUME Context, OnePointer, NamedWrite, pc \in Writes, pc' \in Writes,
           NEW dk2, disk' = [disk EXCEPT ![drive] = dk2], drive' = drive, job' = job,
           Entries(dk2) = Mine,
           \A q \in Mine : InodeAt(dk2, q).ptrs = InodeAt(Here, q).ptrs,
           \A q \in Mine : NameAt(dk2, q) = NameAt(Here, q),
           Waste(dk2, Mine, {}) \subseteq Waste(Here, Mine, {})
    PROVE  Carried
<1>1. disk \in [Drives -> Disk] /\ drive \in Drives
    BY ContextFacts
<1>2. pc \notin Makes \union Deletes /\ pc' \notin Makes \union Deletes
    BY DEF Makes, Deletes, Writes
<1>3. Owed = {} /\ Owed' = {} /\ Here' = dk2
    BY <1>1, <1>2 DEF Owed, Here
<1>4. Mine' = Mine
  <2>1. Mine' = Entries(Here')
      BY <1>2 DEF Mine, Settled, Here
  <2> QED
      BY <1>3, <2>1
<1>5. OnePointer' /\ NoMoreLost
    BY <1>3, <1>4, LostStep
<1>6. NamedWrite'
    BY <1>3, <1>4 DEF NamedWrite, NoneNamed
<1> QED
    BY <1>5, <1>6 DEF Carried

(* The file that is written is there.                                      *)
LEMMA WrittenFound ==
    ASSUME Context, NamedWrite, pc \in Writes
    PROVE  \E p \in Mine : InodeAt(Here, p).ptrs = fr.info.ptrs /\ NameAt(Here, p) = job.name
  BY WritesFacts DEF Known, Ghost, Found, NamedWrite

LEMMA LongerWaste ==
    ASSUME NEW dk \in Disk, NEW set \in SUBSET Entries(dk), NEW p \in set, NEW i \in Pointers,
           NEW ptr \in DataArea, ptr = InodeAt(dk, p).ptrs[i], NEW j \in Cells, dk[ptr][j] = 0,
           NEW b
    PROVE  Waste(Longer(dk, ptr, j, b), set, {}) \subseteq Waste(dk, set, {})
<1> DEFINE dk2 == Longer(dk, ptr, j, b)
<1>1. /\ \A q \in set : InodeAt(dk2, q) = InodeAt(dk, q)
    BY LongerTable
<1>2. /\ \A c \in Cells : ReadSector(dk2, ptr)[c] = IF c = j THEN b ELSE ReadSector(dk, ptr)[c]
      /\ \A x : x # ptr => ReadSector(dk2, x) = ReadSector(dk, x)
    BY LongerRead
<1>3. ReadSector(dk, ptr)[j] = 0
    BY DataOutside DEF ReadSector
<1> HIDE DEF dk2
<1>4. \A x \in DataArea : x # ptr => dk2[x] = dk[x]
    BY <1>2, DataOutside DEF ReadSector
<1>5. Claimed(dk2, set, ptr)
  <2>1. Claim(dk2, InodeAt(dk2, p), i, -1) = ptr
      BY <1>1, PointerClaimed
  <2> QED
      BY <2>1, PlaceFacts DEF Claimed
<1>6. ASSUME NEW x \in DataArea, Claimed(dk, set, x) PROVE Claimed(dk2, set, x)
  <2>1. PICK q \in set, k \in Pointers, c \in Places : x = Claim(dk, InodeAt(dk, q), k, c)
      BY <1>6 DEF Claimed
  <2>2. x # 0
      BY DataOutside
  <2>3. x = Claim(dk2, InodeAt(dk2, q), k, c)
    <3>1. CASE c = -1
        BY <1>1, <2>1, <3>1, PointerClaimed
    <3>2. CASE c # -1
      <4>1. c \in Cells
          BY <3>2, PlaceFacts
      <4>2. /\ InodeAt(dk, q).ptrs[k] # 0 /\ x = ReadSector(dk, InodeAt(dk, q).ptrs[k])[c]
          BY <2>1, <2>2, <3>2 DEF Claim
      <4>3. x = ReadSector(dk2, InodeAt(dk, q).ptrs[k])[c]
          BY <1>2, <1>3, <2>2, <4>1, <4>2
      <4> QED
          BY <1>1, <3>2, <4>2, <4>3 DEF Claim
    <3> QED
        BY <3>1, <3>2
  <2> QED
      BY <2>1, <2>3 DEF Claimed
<1>7. \A x \in DataArea : /\ ~LooksEmpty(dk2[x]) => ~LooksEmpty(dk[x]) \/ Claimed(dk2, set, x)
                          /\ Claimed(dk, set, x) => Claimed(dk2, set, x)
    BY <1>4, <1>5, <1>6
<1>8. Waste(dk2, set, {}) \subseteq Waste(dk, set, {})
    BY <1>7, WasteShrinks
<1> QED
    BY <1>8 DEF dk2

LEMMA LostLonger ==
    ASSUME Context, OnePointer, NamedWrite, pc = "blocks", pc' \in Writes,
           NEW x \in Cells, fr.buf[x] = 0,
           NEW new, new = Allocate(Here, sb, lab), FreeBlocks(Here, sb, lab) # {},
           Write(fr.info.ptrs[fr.i], [fr.buf EXCEPT ![x] = new]), drive' = drive, job' = job
    PROVE  Carried
<1> DEFINE ptr == fr.info.ptrs[fr.i]
           dk2 == Longer(Here, ptr, x, new)
<1>1. /\ pc \in Writes /\ fr.i \in Pointers /\ ptr # 0 /\ ptr \in DataArea
      /\ fr.buf = Here[ptr]
    BY LoopFacts
<1>2. /\ Mine = Entries(Here) /\ lab \in DataArea /\ IsSuperblock(sb)
    BY <1>1, WritesFacts
<1>3. /\ Here \in Disk /\ Separate(Here, Mine) /\ Mine \in SUBSET Entries(Here)
    BY ContextFacts
<1>4. new \in DataArea /\ LooksEmpty(ReadSector(Here, new)) /\ new \notin PointedTo(Here)
    BY <1>2, Allocated
<1>5. ~Claimed(Here, Mine, new)
  <2>1. Mine \subseteq Reached(Here, NullFiles)
      BY <1>2, ContextFacts DEF Context, EntriesShown, Formats, Here
  <2>2. \A p \in Mine : WellFormed(Here, InodeAt(Here, p))
      BY <1>3 DEF Separate
  <2>3. new # 0
      BY <1>4, DataOutside
  <2> QED
      BY <1>4, <2>1, <2>2, <2>3, FreeUnclaimed
<1>6. disk' = [disk EXCEPT ![drive] = dk2]
    BY <1>1 DEF Write, Here, Longer
<1>7. /\ Entries(dk2) = Mine /\ \A q \in Mine : InodeAt(dk2, q) = InodeAt(Here, q)
    BY <1>1, <1>2, <1>3, LongerTable
<1>8. PICK p \in Mine : InodeAt(Here, p).ptrs = fr.info.ptrs /\ NameAt(Here, p) = job.name
    BY <1>1, WrittenFound
<1>9. ptr = InodeAt(Here, p).ptrs[fr.i] /\ Here[ptr][x] = 0
    BY <1>1, <1>8
<1> HIDE DEF dk2
<1>10. \A q \in Mine : NameAt(dk2, q) = NameAt(Here, q)
    BY <1>1, <1>3, <1>4, <1>5, <1>9, FileLonger DEF dk2
<1>11. Waste(dk2, Mine, {}) \subseteq Waste(Here, Mine, {})
    BY <1>1, <1>3, <1>9, LongerWaste DEF dk2
<1>12. \A q \in Mine : InodeAt(dk2, q).ptrs = InodeAt(Here, q).ptrs
    BY <1>7
<1> QED
    BY <1>1, <1>6, <1>7, <1>10, <1>11, <1>12, LostWriting

LEMMA LostWriteCall ==
    ASSUME Context, OnePointer, NamedWrite, WriteCall, "write" \notin StaleCalls
    PROVE  Carried
<1>1. Calling("write") /\ UNCHANGED <<disk, drive, job>> /\ pc = "run"
    BY WriteCallParts DEF Calling, program
<1>2. PICK info \in Lookup("write", job.name) : WriteNone(info) \/ WriteFound(info)
    BY WriteCallParts
<1>3. pc \notin Makes \union Deletes
    BY <1>1 DEF Makes, Deletes
<1>4. CASE WriteNone(info)
  <2>1. pc' = "run"
      BY <1>4 DEF WriteNone, Return
  <2>2. pc' \notin Makes \union Deletes \union Writes
      BY <2>1 DEF Makes, Deletes, Writes
  <2> QED
      BY <1>1, <1>3, <2>2, LostQuiet
<1>5. CASE WriteFound(info)
  <2>1. pc' = "pointers" /\ info.valid = 1
      BY <1>5 DEF WriteFound
  <2>2. pc' \notin Makes \union Deletes
      BY <2>1 DEF Makes, Deletes
  <2>3. ~NoneNamed(Here, Mine, job.name)
    <3>1. CASE Matches(Here, job.name) = {}
      <4>1. info = NoInode
          BY <1>2, <3>1 DEF Lookup, GetFileInfo, Here
      <4> QED
          BY <2>1, <4>1 DEF NoInode
    <3>2. ASSUME NEW p \in Mine, NameAt(Here, p) = job.name PROVE ~NoneNamed(Here, Mine, job.name)
        BY <3>2 DEF NoneNamed
    <3> QED
        BY <1>1, <3>1, <3>2, LookupFacts
  <2> QED
      BY <1>1, <1>3, <2>2, <2>3, LostQuiet
<1> QED
    BY <1>2, <1>4, <1>5

LEMMA LostWriteQuiet ==
    ASSUME Context, OnePointer, NamedWrite, pc \in Writes, pc' \in Writes,
           UNCHANGED <<disk, drive, job>>
    PROVE  Carried
  BY LostQuiet DEF Makes, Deletes, Writes

LEMMA LostWritePointer == 
    Context /\ OnePointer /\ NamedWrite /\ (WritePointer \/ WriteNextPointer) => Carried
  BY LostWriteQuiet DEF WritePointer, WriteNextPointer, Writes, program

LEMMA LostWriteAllocate ==
    Context /\ OnePointer /\ NamedWrite /\ WriteAllocate /\ Spared => Carried
<1> SUFFICES ASSUME Context, OnePointer, NamedWrite, WriteAllocate, Spared PROVE Carried
    OBVIOUS
<1> DEFINE new == Allocate(Here, sb, lab)
           buf == [fr.buf EXCEPT ![fr.j] = new]
<1>1. /\ pc = "blocks" /\ fr.j < WordsPerSector /\ fr.buf[fr.j] = 0
      /\ Write(fr.info.ptrs[fr.i], buf) /\ fr' = [fr EXCEPT !.buf = buf]
      /\ UNCHANGED <<drive, pc, job>>
    BY DEF WriteAllocate, AtBlock, Here, program
<1>2. fr \in Frame /\ fr.buf \in Sector /\ fr.j \in Nat
    BY <1>1, WritesFacts DEF Writes, Frame
<1>3. fr.j \in Cells
    BY <1>1, <1>2, DiskAssumption DEF Cells
<1>4. new # 0
    BY <1>1, AllocateFacts
<1> HIDE DEF new
<1>5. fr'.buf = buf
    BY <1>1, <1>2 DEF Frame
<1>6. FreeBlocks(Here, sb, lab) # {}
  <2>1. buf[fr.j] = new
      BY <1>2, <1>3 DEF Sector
  <2>2. fr'.buf # fr.buf
      BY <1>1, <1>4, <1>5, <2>1
  <2> QED
      BY <1>1, <2>2 DEF Spared, BlockFound, Here
<1>7. pc' \in Writes
    BY <1>1 DEF Writes
<1> QED
    BY <1>1, <1>3, <1>6, <1>7, LostLonger DEF new

(* The pointer block is written as it is.                                  *)
LEMMA WrittenBack ==
    ASSUME Context, pc = "blocks", Write(fr.info.ptrs[fr.i], fr.buf)
    PROVE  disk' = disk
<1>1. /\ fr.info.ptrs[fr.i] \in DataArea /\ fr.buf = disk[drive][fr.info.ptrs[fr.i]]
    BY LoopFacts DEF Here
<1>2. disk \in [Drives -> Disk] /\ drive \in Drives /\ disk[drive] \in Disk
    BY ContextFacts
<1>3. WriteSector(disk[drive], fr.info.ptrs[fr.i], fr.buf) = disk[drive]
    BY <1>1, <1>2 DEF WriteSector, Disk
<1> QED
    BY <1>2, <1>3 DEF Write

LEMMA LostWriteFull ==
    Context /\ OnePointer /\ NamedWrite /\ WriteFull /\ Spared => Carried
<1> SUFFICES ASSUME Context, OnePointer, NamedWrite, WriteFull, Spared PROVE Carried
    OBVIOUS
<1>1. /\ pc = "blocks" /\ fr.j < WordsPerSector /\ UNCHANGED <<drive, pc, job>>
    BY DEF WriteFull, AtBlock, program
<1>2. fr \in Frame /\ fr.buf \in Sector /\ fr.j \in Nat /\ pc \in Writes /\ pc' \in Writes
    BY <1>1, WritesFacts DEF Writes, Frame
<1>3. CASE UNCHANGED disk
    BY <1>1, <1>2, <1>3, LostWriteQuiet
<1>4. CASE Write(fr.info.ptrs[fr.i], fr.buf)
    BY <1>1, <1>3, <1>4, WrittenBack
<1>5. ASSUME fr.j # LastCell, fr.buf[fr.j + 1] = 0,
             Write(fr.info.ptrs[fr.i], [fr.buf EXCEPT ![fr.j + 1] = Allocate(Here, sb, lab)]),
             fr' = [fr EXCEPT !.j = @ + 1,
                              !.buf = [fr.buf EXCEPT ![fr.j + 1] = Allocate(Here, sb, lab)]]
      PROVE  Carried
  <2> DEFINE new == Allocate(Here, sb, lab)
             x   == fr.j + 1
             buf == [fr.buf EXCEPT ![x] = new]
  <2>1. x \in Cells
      BY <1>1, <1>2, <1>5, DiskAssumption DEF Cells, LastCell
  <2>2. new # 0
      BY <1>1, AllocateFacts
  <2>3. Write(fr.info.ptrs[fr.i], buf) /\ fr' = [fr EXCEPT !.j = @ + 1, !.buf = buf]
        /\ fr.buf[x] = 0
      BY <1>5
  <2> HIDE DEF new, x
  <2>4. fr'.buf = buf
      BY <1>2, <2>3 DEF Frame
  <2>5. FreeBlocks(Here, sb, lab) # {}
    <3>1. buf[x] = new
        BY <1>2, <2>1 DEF Sector
    <3>2. fr'.buf # fr.buf
        BY <2>2, <2>3, <2>4, <3>1
    <3> QED
        BY <1>1, <3>2 DEF Spared, BlockFound, Here
  <2> QED
      BY <1>1, <1>2, <2>1, <2>3, <2>5, LostLonger DEF new
<1> QED
  <2>1. PICK beyond \in {0, 1} :
          LET next == IF fr.j = LastCell THEN beyond ELSE fr.buf[fr.j + 1]
              buf  == IF fr.j = LastCell THEN fr.buf
                      ELSE [fr.buf EXCEPT ![fr.j + 1] = Allocate(Here, sb, lab)]
          IN  IF next # 0
              THEN fr' = [fr EXCEPT !.j = @ + 1] /\ UNCHANGED <<disk, lab>>
              ELSE /\ Write(fr.info.ptrs[fr.i], buf)
                   /\ lab' = Cursor(Here, sb, lab)
                   /\ fr' = [fr EXCEPT !.j = @ + 1, !.buf = buf]
      BY DEF WriteFull, Here
  <2>2. CASE fr.j = LastCell
      BY <1>3, <1>4, <2>1, <2>2
  <2>3. CASE fr.j # LastCell
      BY <1>3, <1>5, <2>1, <2>3
  <2> QED
      BY <2>2, <2>3

LEMMA LostUpdated ==
    ASSUME Context, OnePointer, NamedWrite, pc \in Writes, pc' \in Writes,
           NEW ino \in Inode, ino.valid = 1, ino.ptrs = fr.info.ptrs,
           disk' = [disk EXCEPT ![drive] = SetFileInfo(Here, job.name, ino)],
           drive' = drive, job' = job
    PROVE  Carried
<1> DEFINE dk2 == SetFileInfo(Here, job.name, ino)
<1>1. dk2 = SetFileInfo(Here, job.name, ino) /\ disk' = [disk EXCEPT ![drive] = dk2]
    OBVIOUS
<1> HIDE DEF dk2
<1>2. /\ Entries(dk2) = Mine /\ DataSame(Here, dk2)
      /\ \A q \in Mine : InodeAt(dk2, q).ptrs = InodeAt(Here, q).ptrs
    BY <1>1, InodeUpdated
<1>3. \A q \in Mine : WellFormed(Here, InodeAt(Here, q))
    BY ContextFacts DEF Separate
<1>4. Same(Here, dk2, Mine)
    BY <1>2, <1>3, DataSameSame
<1>5. Waste(dk2, Mine, {}) \subseteq Waste(Here, Mine, {})
    BY <1>2, <1>4, WasteSame
<1>6. \A q \in Mine : NameAt(dk2, q) = NameAt(Here, q)
    BY <1>4 DEF Same
<1> QED
    BY <1>1, <1>2, <1>5, <1>6, LostWriting

LEMMA LostWriteFill == Context /\ OnePointer /\ NamedWrite /\ WriteFill => Carried
<1> SUFFICES ASSUME Context, OnePointer, NamedWrite, WriteFill PROVE Carried
    OBVIOUS
<1> DEFINE n    == FillCount(Block, fr.i = 0 /\ fr.j = 0, fr.left)
           info == [fr.info EXCEPT !.size = (@ + n) % WordRange]
<1>1. /\ pc = "blocks" /\ fr.j < WordsPerSector /\ fr.buf[fr.j] # 0 /\ pc' = "data"
      /\ disk' = [disk EXCEPT ![drive] = SetFileInfo(Here, job.name, info)]
      /\ UNCHANGED <<drive, job>>
    BY DEF WriteFill, AtBlock, Here, program
<1>2. /\ fr \in Frame /\ fr.info \in Inode /\ fr.info.valid = 1 /\ fr.j \in Nat
      /\ pc \in Writes /\ pc' \in Writes
    BY <1>1, WritesFacts DEF Writes, Frame
<1>3. n \in Nat
  <2>1. fr.j \in Cells
      BY <1>1, <1>2, DiskAssumption DEF Cells
  <2>2. Here \in Disk /\ fr.buf[fr.j] \in DataArea
      BY <1>1, <2>1, LoopFacts, ContextFacts
  <2>3. Block \in Sector
      BY <2>2, DataOutside DEF Block, ReadSector, Here, Disk
  <2>4. fr.left \in Int
      BY <1>2 DEF Frame
  <2> QED
      BY <2>3, <2>4, FillCountType
<1> HIDE DEF n
<1>4. info \in Inode /\ info.valid = 1 /\ info.ptrs = fr.info.ptrs
  <2>1. (fr.info.size + n) % WordRange \in Nat
      BY <1>2, <1>3, DiskAssumption DEF Inode
  <2> QED
      BY <1>2, <2>1 DEF Inode
<1> HIDE DEF info
<1> QED
    BY <1>1, <1>2, <1>4, LostUpdated

LEMMA LostWriteSize == Context /\ OnePointer /\ NamedWrite /\ WriteSize => Carried
<1> SUFFICES ASSUME Context, OnePointer, NamedWrite, WriteSize PROVE Carried
    OBVIOUS
<1> DEFINE info == [fr.info EXCEPT !.size = (@ + fr.left) % WordRange]
<1>1. /\ pc = "size" /\ pc' = "written"
      /\ disk' = [disk EXCEPT ![drive] = SetFileInfo(Here, job.name, info)]
      /\ UNCHANGED <<drive, job>>
    BY DEF WriteSize, Here, program
<1>2. /\ fr \in Frame /\ fr.info \in Inode /\ fr.info.valid = 1
      /\ pc \in Writes /\ pc' \in Writes
    BY <1>1, WritesFacts DEF Writes
<1>3. info \in Inode /\ info.valid = 1 /\ info.ptrs = fr.info.ptrs
  <2>1. fr.info.size \in Nat /\ fr.left \in Int
      BY <1>2 DEF Inode, Frame
  <2>2. (fr.info.size + fr.left) % WordRange \in Nat
      BY <2>1, DiskAssumption
  <2> QED
      BY <1>2, <2>2 DEF Inode
<1> HIDE DEF info
<1> QED
    BY <1>1, <1>2, <1>3, LostUpdated

LEMMA LostWriteData == Context /\ OnePointer /\ NamedWrite /\ WriteData /\ Spared => Carried
<1> SUFFICES ASSUME Context, OnePointer, NamedWrite, WriteData, Spared PROVE Carried
    OBVIOUS
<1> DEFINE b    == fr.buf[fr.j]
           data == fr.data
           dk2  == WriteSector(Here, b, data)
<1>1. /\ pc = "data" /\ pc' \in Writes /\ pc \in Writes
      /\ disk' = [disk EXCEPT ![drive] = dk2] /\ UNCHANGED <<drive, job>>
  <2>1. pc' # "chain"
      BY DEF Spared
  <2> QED
      BY <2>1 DEF WriteData, Write, Here, Writes, program
<1>2. /\ Here \in Disk /\ Separate(Here, Mine) /\ Mine \in SUBSET Entries(Here)
    BY ContextFacts
<1>3. /\ fr.j \in Cells /\ b # 0 /\ fr.i \in Pointers
      /\ fr.i = 0 /\ fr.j = 0 => Prefix(data) = Prefix(Here[b])
    BY <1>1 DEF Context, Owned, InWrite
<1>4. b \in DataArea /\ b = Claim(Here, fr.info, fr.i, fr.j)
    BY <1>1, <1>3, LoopFacts
<1>5. dk2 = WriteSector(Here, b, data)
    OBVIOUS
<1> HIDE DEF dk2, data, b
<1>6. PICK p \in Mine, i \in Pointers, c \in Cells :
          /\ b = Claim(Here, InodeAt(Here, p), i, c)
          /\ i = 0 /\ c = 0 => Prefix(data) = Prefix(Here[b])
  <2>1. PICK p \in Mine : InodeAt(Here, p).ptrs = fr.info.ptrs
      BY <1>1, WrittenFound
  <2>2. b = Claim(Here, InodeAt(Here, p), fr.i, fr.j)
      BY <1>4, <2>1, ClaimOfPointers
  <2> QED
      BY <1>3, <2>2
<1>7. Claimed(Here, Mine, b)
    BY <1>6, PlaceFacts DEF Claimed
<1>8. /\ Entries(dk2) = Entries(Here) /\ Same(Here, dk2, Mine)
      /\ \A q \in Mine, k \in Pointers : InodeAt(Here, q).ptrs[k] # b
  <2> DEFINE written(dk, set) ==
        /\ Entries(WriteSector(dk, b, data)) = Entries(dk)
        /\ \A q \in Entries(dk) : InodeAt(WriteSector(dk, b, data), q) = InodeAt(dk, q)
        /\ Same(dk, WriteSector(dk, b, data), set)
        /\ \A q \in set, j \in Pointers : InodeAt(dk, q).ptrs[j] # b
  <2>1. ASSUME NEW dk \in Disk, NEW set \in SUBSET Entries(dk), Separate(dk, set), p \in set,
               b = Claim(dk, InodeAt(dk, p), i, c),
               i = 0 /\ c = 0 => Prefix(data) = Prefix(dk[b])
        PROVE  written(dk, set)
      BY <1>4, <2>1, OwnWrite
  <2> HIDE DEF written
  <2>2. written(Here, Mine)
      BY <1>2, <1>6, <2>1
  <2> QED
      BY <1>5, <2>2 DEF written
<1>9. Waste(dk2, Mine, {}) \subseteq Waste(Here, Mine, {})
    BY <1>2, <1>4, <1>5, <1>7, <1>8, WasteWrite
<1>10. \A q \in Mine : /\ InodeAt(dk2, q).ptrs = InodeAt(Here, q).ptrs
                       /\ NameAt(dk2, q) = NameAt(Here, q)
    BY <1>8 DEF Same
<1>11. Entries(dk2) = Mine
    BY <1>1, <1>8, WritesFacts
<1> QED
    BY <1>1, <1>8, <1>9, <1>10, <1>11, LostWriting
-----------------------------------------------------------------------------
(* A command loses one block at most.                                      *)

(* No command formats.                                                     *)
Unformatted == \A j \in Commands : Script(j.prog) # <<"format">>

(* edit's save is not repeated.                                            *)
SavesOnce == Calling("retry") => ret # 0

(* A delete comes first in a command.                                      *)
Scripted ==
    /\ pc \notin Formats
    /\ \A k \in 1 .. Len(todo) : todo[k] # "format" /\ (k # 1 => todo[k] # "delete")

(* On to the next call, or further in this one.                            *)
Onward ==
    /\ UNCHANGED commands /\ pc' \notin Formats
    /\ \/ todo # <<>> /\ todo' = Tail(todo)
       \/ todo' = todo /\ (pc' # "run" \/ pc' = pc)

LEMMA ScriptDelete ==
    ASSUME NEW prog, NEW k \in 1 .. Len(Script(prog)), k # 1
    PROVE  Script(prog)[k] # "delete"
  BY DEF Script

LEMMA ScriptedOnward ==
    ASSUME Context, Scripted, Onward
    PROVE  Scripted' /\ (Calling("delete")' => Calling("delete"))
<1>1. todo \in Seq(Calls)
    BY ContextFacts DEF TypeOK
<1>2. CASE todo' = todo /\ (pc' # "run" \/ pc' = pc)
    BY <1>2 DEF Scripted, Onward, Calling
<1>3. CASE todo # <<>> /\ todo' = Tail(todo)
  <2>1. ASSUME NEW k \in 1 .. Len(todo')
        PROVE  todo'[k] # "format" /\ todo'[k] # "delete"
    <3>1. /\ Len(todo') = Len(todo) - 1 /\ Len(todo) \in Nat /\ todo'[k] = todo[k + 1]
        BY <1>1, <1>3, HeadTailProperties, LenProperties
    <3>2. k + 1 \in 1 .. Len(todo) /\ k + 1 # 1
        BY <3>1
    <3> QED
        BY <3>1, <3>2 DEF Scripted
  <2>2. todo' \in Seq(Calls)
      BY <1>1, <1>3, HeadTailProperties
  <2>3. ~Calling("delete")'
    <3> SUFFICES ASSUME todo' # <<>>, Head(todo') = "delete" PROVE FALSE
        BY DEF Calling
    <3>1. 1 \in 1 .. Len(todo') /\ todo'[1] = "delete"
        BY <2>2, EmptySeq, LenProperties
    <3> QED
        BY <2>1, <3>1
  <2> QED
      BY <2>1, <2>3 DEF Scripted, Onward
<1> QED
    BY <1>2, <1>3 DEF Onward

LEMMA LostFinite ==
    ASSUME NEW d
    PROVE  IsFiniteSet(Lost(d))
<1>1. IsFiniteSet(DataArea)
  <2>1. TableEnd \in Nat /\ Geometry(Capacity, 0).blocks \in Int
      BY AreaFacts, OwnershipAssumption, GeometryType DEF Superblock
  <2> QED
      BY <2>1, FS_Interval DEF DataArea
<1>2. Lost(d) \in SUBSET DataArea
    BY DEF Lost, Waste
<1> QED
    BY <1>1, <1>2, FS_Subset

LEMMA LeakKept ==
    ASSUME Leak, NoMoreLost, UNCHANGED commands, Calling("delete")' => Calling("delete"),
           commands \in Nat
    PROVE  Leak'
<1> SUFFICES ASSUME NEW d \in Drives
             PROVE  Cardinality(Lost(d)') + (IF Calling("delete")' THEN 1 ELSE 0) <= commands
    BY DEF Leak
<1> DEFINE now == Lost(d)
           then == Lost(d)'
<1>1. then \in SUBSET now /\ IsFiniteSet(now)
    BY LostFinite DEF NoMoreLost
<1>2. Cardinality(now) + (IF Calling("delete") THEN 1 ELSE 0) <= commands
    BY DEF Leak
<1> HIDE DEF now, then
<1>3. Cardinality(then) \in Nat /\ Cardinality(now) \in Nat /\ Cardinality(then) <= Cardinality(now)
    BY <1>1, FS_Subset, FS_CardinalityType
<1>4. Cardinality(then) + (IF Calling("delete")' THEN 1 ELSE 0) <= commands
    BY <1>2, <1>3
<1> QED
    BY <1>4 DEF then

LEMMA LeakOnward ==
    ASSUME Context, Scripted, Leak, Carried, Onward
    PROVE  OnePointer' /\ NamedWrite' /\ Scripted' /\ Leak'
<1>1. commands \in Nat
    BY ContextFacts DEF TypeOK
<1> QED
    BY <1>1, ScriptedOnward, LeakKept DEF Carried, Onward

LEMMA LeakDelete ==
    ASSUME Context, Scripted, Leak, OneMoreLost, UNCHANGED commands, Calling("delete"),
           pc' = "load", UNCHANGED todo
    PROVE  Scripted' /\ Leak'
<1>1. ~Calling("delete")' /\ Scripted'
    BY DEF Calling, Scripted, Formats
<1>2. PICK b : \A d \in Drives : Lost(d)' \subseteq Lost(d) \union {b}
    BY DEF OneMoreLost
<1>3. ASSUME NEW d \in Drives PROVE Cardinality(Lost(d)') <= commands
  <2> DEFINE now == Lost(d)
             then == Lost(d)'
  <2>1. then \in SUBSET (now \union {b}) /\ IsFiniteSet(now)
      BY <1>2, LostFinite
  <2>2. Cardinality(now) + 1 <= commands
      BY DEF Leak
  <2> HIDE DEF now, then
  <2>3. /\ IsFiniteSet(now \union {b}) /\ Cardinality(now) \in Nat
        /\ Cardinality(now \union {b}) <= Cardinality(now) + 1
    <3>1. /\ IsFiniteSet(now \union {b})
          /\ Cardinality(now \union {b}) =
                IF b \in now THEN Cardinality(now) ELSE Cardinality(now) + 1
        BY <2>1, FS_AddElement
    <3>2. Cardinality(now) \in Nat
        BY <2>1, FS_CardinalityType
    <3> QED
        BY <3>1, <3>2
  <2>4. Cardinality(then) <= Cardinality(now \union {b}) /\ Cardinality(then) \in Nat
        /\ Cardinality(now \union {b}) \in Nat
      BY <2>1, <2>3, FS_Subset, FS_CardinalityType
  <2>5. commands \in Nat
      BY ContextFacts DEF TypeOK
  <2>6. Cardinality(then) <= commands
      BY <2>2, <2>3, <2>4, <2>5
  <2> QED
      BY <2>6 DEF then
<1>4. \A d \in Drives : Cardinality(Lost(d)') + 0 <= commands
  <2> SUFFICES ASSUME NEW d \in Drives PROVE Cardinality(Lost(d)') + 0 <= commands
      OBVIOUS
  <2> DEFINE then == Lost(d)'
  <2>1. Cardinality(then) <= commands /\ IsFiniteSet(then)
    <3>1. IsFiniteSet(Lost(d))'
        BY LostFinite, PTL
    <3> QED
        BY <1>3, <3>1
  <2> HIDE DEF then
  <2>2. Cardinality(then) + 0 <= commands
      BY <2>1, FS_CardinalityType
  <2> QED
      BY <2>2 DEF then
<1> QED
    BY <1>1, <1>4 DEF Leak

LEMMA LeakExecute ==
    ASSUME Context, Scripted, Leak, Carried, NEW j \in Commands, Script(j.prog) # <<"format">>,
           Execute(j)
    PROVE  Scripted' /\ Leak'
<1>1. pc = "shell" /\ pc' = "run" /\ commands' = commands + 1 /\ todo' = Script(j.prog)
    BY DEF Execute
<1>2. Scripted'
    BY <1>1, ScriptFormat, ScriptDelete DEF Scripted, Formats
<1>3. commands \in Nat
    BY ContextFacts DEF TypeOK
<1>4. Leak'
  <2> SUFFICES ASSUME NEW d \in Drives
               PROVE  Cardinality(Lost(d)') + (IF Calling("delete")' THEN 1 ELSE 0) <= commands'
      BY DEF Leak
  <2> DEFINE now == Lost(d)
             then == Lost(d)'
  <2>1. then \in SUBSET now /\ IsFiniteSet(now)
      BY LostFinite DEF Carried, NoMoreLost
  <2>2. Cardinality(now) + 0 <= commands
      BY <1>1 DEF Leak, Calling
  <2> HIDE DEF now, then
  <2>3. /\ Cardinality(then) \in Nat /\ Cardinality(now) \in Nat
        /\ Cardinality(then) <= Cardinality(now)
      BY <2>1, FS_Subset, FS_CardinalityType
  <2>4. Cardinality(then) + (IF Calling("delete")' THEN 1 ELSE 0) <= commands'
      BY <1>1, <1>3, <2>2, <2>3
  <2> QED
      BY <2>4 DEF then
<1> QED
    BY <1>2, <1>4

(* A command that does not format.                                         *)
LEMMA NoFormat ==
    ASSUME Context, Scripted
    PROVE  ~FormatDisk
<1>1. ~Calling("format")
  <2> SUFFICES ASSUME todo # <<>>, Head(todo) = "format" PROVE FALSE
      BY DEF Calling
  <2>1. todo \in Seq(Calls)
      BY ContextFacts DEF TypeOK
  <2>2. 1 \in 1 .. Len(todo) /\ todo[1] = "format"
      BY <2>1, EmptySeq, LenProperties
  <2> QED
      BY <2>2 DEF Scripted
<1> QED
    BY <1>1 DEF Scripted, FormatDisk, Format, FormatSuperblock, FormatInodes, Formats

(* The steps of a command that have a successor in it.                     *)
LEMMA OnwardStep ==
    ASSUME Context, Scripted, [Next]_vars, ~Boot, \A j \in Commands : ~Execute(j), ~Crash,
           SavesOnce, ~(Delete /\ pc' = "load")
    PROVE  Onward
<1>1. /\ pc \notin {"off", "shell", "run"} => todo # <<>>
      /\ pc \notin Formats
    BY DEF Context, IInv, CallPending, Scripted
<1>2. CASE UNCHANGED vars
    BY <1>1, <1>2 DEF vars, bounds, Onward
<1>3. CASE Exit \/ SelectDrive \/ Fetch \/ Retry
    BY <1>3 DEF Exit, SelectDrive, Fetch, Retry, Calling, Return, bounds, Onward, Formats, SavesOnce
<1>4. CASE Create
  <2>1. PICK info \in Lookup("create", job.name) :
            CreateFound(info) \/ CreateNone(info) \/ CreateNew(info)
      BY <1>4, CreateParts
  <2>2. todo # <<>> /\ UNCHANGED commands
      BY <1>4, CreateParts DEF Calling, bounds
  <2> QED
      BY <2>1, <2>2 DEF CreateFound, CreateNone, CreateNew, Return, Onward, Formats
<1>5. CASE CreateImage \/ CreateZero \/ CreatePointer \/ CreateName \/ CreateSave
    BY <1>1, <1>5
    DEF CreateImage, CreateZero, CreatePointer, CreateName, CreateSave, Return, bounds, Onward,
        Formats
<1>6. CASE Delete
  <2>1. PICK info \in Lookup("delete", job.name) : DeleteNone(info) \/ DeleteFound(info)
      BY <1>6, DeleteParts
  <2>2. todo # <<>> /\ UNCHANGED commands
      BY <1>6, DeleteParts DEF Calling, bounds
  <2> QED
      BY <1>6, <2>1, <2>2 DEF DeleteNone, DeleteFound, Return, Onward, Formats
<1>7. CASE DeleteLoad \/ DeleteSave \/ WriteSave
    BY <1>1, <1>7 DEF DeleteLoad, DeleteSave, WriteSave, Return, bounds, Onward, Formats
<1>8. CASE DeleteWipe
    BY <1>1, <1>8 DEF DeleteWipe, bounds, Onward, Formats
<1>9. CASE WriteCall
  <2>1. PICK info \in Lookup("write", job.name) : WriteNone(info) \/ WriteFound(info)
      BY <1>9, WriteCallParts
  <2>2. todo # <<>> /\ UNCHANGED commands
      BY <1>9, WriteCallParts DEF Calling, bounds
  <2> QED
      BY <2>1, <2>2 DEF WriteNone, WriteFound, Return, Onward, Formats
<1>10. CASE WritePointer \/ WriteNextPointer
    BY <1>1, <1>10 DEF WritePointer, WriteNextPointer, bounds, Onward, Formats
<1>11. CASE WriteAllocate \/ WriteFull \/ WriteFill
    BY <1>1, <1>11 DEF WriteAllocate, WriteFull, WriteFill, AtBlock, bounds, Onward, Formats
<1>12. CASE WriteData \/ WriteChain \/ WriteSize
    BY <1>1, <1>12 DEF WriteData, WriteChain, WriteSize, bounds, Onward, Formats
<1>13. CASE FormatDisk
    BY <1>13, NoFormat
<1> QED
    BY <1>2, <1>3, <1>4, <1>5, <1>6, <1>7, <1>8, <1>9, <1>10, <1>11, <1>12, <1>13
    DEF Next, Step, Look, FileCreate, FileDelete, FileWrite

(* A step that leaves everything as it is.                                 *)
LEMMA LostStutter == OnePointer /\ NamedWrite /\ UNCHANGED vars => Carried
<1> SUFFICES ASSUME OnePointer, NamedWrite, UNCHANGED vars PROVE Carried
    OBVIOUS
<1>1. UNCHANGED <<disk, drive, pc, job, fr>>
    BY DEF vars
<1>2. Here' = Here /\ \A d : Settled(d)' = Settled(d)
    BY <1>1 DEF Here, Settled
<1>3. Mine' = Mine /\ Owed' = Owed
    BY <1>1, <1>2 DEF Mine, Owed
<1>4. \A d : Lost(d)' = Lost(d)
    BY <1>1, <1>2, <1>3 DEF Lost, OwedOn
<1> QED
    BY <1>1, <1>2, <1>3, <1>4 DEF Carried, OnePointer, NoMoreLost, NamedWrite

LEMMA CarriedNext ==
    ASSUME Context, Context', OnePointer, NamedWrite, Wiped, Scripted,
           "write" \notin StaleCalls, [Next /\ Spared]_vars, ~Delete
    PROVE  Carried
<1>1. CASE UNCHANGED vars
    BY <1>1, LostStutter
<1>2. CASE Next /\ Spared
  <2>1. CASE FileCreate
      BY <1>2, <2>1, LostCreate, LostCreateBlock, LostCreateName, LostCreateSave DEF FileCreate
  <2>2. CASE FileDelete
      BY <2>2, LostDeleteLoad, LostDeleteWipe, LostDeleteSave DEF FileDelete
  <2>3. CASE FileWrite
      BY <1>2, <2>3, LostWriteCall, LostWritePointer, LostWriteAllocate, LostWriteFull,
         LostWriteFill, LostWriteData, OwnedWriteChain, LostWriteSize, LostWriteSave
      DEF FileWrite
  <2>4. CASE Boot
      BY <2>4, LostBoot
  <2>5. CASE Exit \/ SelectDrive \/ Fetch \/ Retry \/ \E j \in Commands : Execute(j)
    <3>1. disk' = disk /\ pc \in {"run", "shell"} /\ pc' \in {"run", "shell"}
        BY <2>5 DEF Exit, SelectDrive, Fetch, Retry, Execute, Calling, Return
    <3> QED
        BY <3>1, LostQuiet DEF Makes, Deletes, Writes
  <2>6. CASE Look
      BY <1>1, <2>6 DEF Look
  <2>7. CASE Crash
      BY <1>2, <2>7, NoCrash
  <2>8. CASE FormatDisk
      BY <2>8, NoFormat
  <2> QED
      BY <1>2, <2>1, <2>2, <2>3, <2>4, <2>5, <2>6, <2>7, <2>8 DEF Next, Step
<1> QED
    BY <1>1, <1>2

LEMMA LeakStep ==
    ASSUME Context, Context', OnePointer, NamedWrite, Wiped, Scripted, Leak, SavesOnce,
           Unformatted, "write" \notin StaleCalls, [Next /\ Spared]_vars
    PROVE  OnePointer' /\ NamedWrite' /\ Scripted' /\ Leak'
<1>1. CASE Delete
  <2>1. CASE Carried /\ todo' = Tail(todo) /\ pc' = "run"
    <3>1. Onward
        BY <1>1, <2>1, LostDelete DEF Onward, Calling, Formats
    <3> QED
        BY <2>1, <3>1, LeakOnward
  <2>2. CASE OnePointer' /\ OneMoreLost /\ NamedWrite' /\ pc' = "load" /\ UNCHANGED todo
      BY <1>1, <2>2, LostDelete, LeakDelete
  <2> QED
      BY <1>1, <2>1, <2>2, LostDelete
<1>2. CASE ~Delete /\ Boot
  <2>1. Carried /\ pc' = "shell"
      BY <1>2, LostBoot
  <2>2. UNCHANGED <<todo, commands>>
      BY <1>2, <2>1 DEF Boot, bounds
  <2>3. Onward
      BY <2>1, <2>2 DEF Onward, Formats
  <2> QED
      BY <2>1, <2>3, LeakOnward
<1>3. ASSUME ~Delete, NEW j \in Commands, Execute(j)
      PROVE  OnePointer' /\ NamedWrite' /\ Scripted' /\ Leak'
  <2>1. Carried
      BY <1>3, CarriedNext
  <2> QED
      BY <1>3, <2>1, LeakExecute DEF Unformatted, Carried
<1>4. CASE ~Delete /\ ~Boot /\ \A j \in Commands : ~Execute(j)
  <2>1. CASE Crash
    <3>1. ~Spared
        BY <2>1, NoCrash
    <3>2. UNCHANGED vars
        BY <3>1
    <3>3. crashes \in Nat /\ crashes' = crashes + 1
        BY <2>1, ContextFacts, ESFSAssumption DEF TypeOK, Crash
    <3> QED
        BY <3>2, <3>3 DEF vars
  <2>2. CASE ~Crash
    <3>1. Carried
        BY <1>4, CarriedNext
    <3>2. Onward
        BY <1>4, <2>2, OnwardStep
    <3> QED
        BY <3>1, <3>2, LeakOnward
  <2> QED
      BY <2>1, <2>2
<1> QED
    BY <1>1, <1>2, <1>3, <1>4

(* Every block that a file claims in the data area is one of its blocks.   *)
LEMMA ClaimedBlock ==
    ASSUME NEW d, NEW set, NEW b \in DataArea, Claimed(disk[d], set, b)
    PROVE  \E p \in set : b \in BlocksOf(d, p)
<1>1. PICK p \in set, i \in Pointers, c \in Places : b = Claim(disk[d], InodeAt(disk[d], p), i, c)
    BY DEF Claimed
<1> DEFINE dk  == disk[d]
           ino == InodeAt(dk, p)
<1>2. b # 0 /\ b = Claim(dk, ino, i, c)
    BY <1>1, DataOutside
<1>3. CASE c = -1
  <2>1. b = ino.ptrs[i]
      BY <1>2, <1>3, PointerClaimed
  <2>2. b \in PointerBlocks(dk, ino)
      BY <1>2, <2>1 DEF PointerBlocks, Pointers
  <2> QED
      BY <2>2 DEF BlocksOf
<1>4. CASE c # -1
  <2>1. c \in Cells
      BY <1>1, <1>4 DEF Places
  <2>2. ino.ptrs[i] # 0 /\ b = ReadSector(dk, ino.ptrs[i])[c]
      BY <1>2, <1>4 DEF Claim
  <2>3. ino.ptrs[i] \in PointerBlocks(dk, ino)
      BY <2>2 DEF PointerBlocks, Pointers
  <2>4. b \in DataBlocks(dk, ino)
      BY <1>2, <2>1, <2>2, <2>3 DEF DataBlocks
  <2> QED
      BY <2>4 DEF BlocksOf
<1> QED
    BY <1>3, <1>4

(* The count of blocks and the table's of a drive in use give its data     *)
(* area.                                                                   *)
LEMMA AreaHere ==
    ASSUME Context, NEW d \in Drives
    PROVE  SuperblockBlock + SuperblockOf(disk[d]).inode_blocks + 1
              .. SuperblockOf(disk[d]).blocks = DataArea
<1> DEFINE s == SuperblockOf(disk[d])
<1>1. s = Geometry(Capacity, s.last_allocated_block)
    BY DEF Context, Owned, Geometries, IsSuperblock
<1> HIDE DEF s
<1>2. s.blocks = Geometry(Capacity, 0).blocks
      /\ s.inode_blocks = Geometry(Capacity, 0).inode_blocks
    BY <1>1 DEF Geometry
<1> QED
    BY <1>2 DEF s, DataArea, TableEnd

(* At the shell a block that no file has is one that is lost.              *)
LEMMA DeadLost ==
    ASSUME Context, AtShell, NEW d \in Drives
    PROVE  DeadBlocks(d) \subseteq Lost(d)
<1>1. Files(d) = Settled(d) /\ OwedOn(d) = {}
  <2>1. Settled(d) = Entries(disk[d]) /\ OwedOn(d) = {}
      BY DEF AtShell, Settled, Makes, OwedOn, Owed, Deletes
  <2> QED
      BY <2>1, FilesOwned
<1>2. SuperblockBlock + SuperblockOf(disk[d]).inode_blocks + 1 .. SuperblockOf(disk[d]).blocks
         = DataArea
    BY AreaHere
<1>3. ASSUME NEW b \in DataArea, \A p \in Files(d) : b \notin BlocksOf(d, p)
      PROVE  ~Claimed(disk[d], Settled(d), b)
    BY <1>1, <1>3, ClaimedBlock
<1> QED
    BY <1>1, <1>2, <1>3 DEF DeadBlocks, Lost, Waste

LEMMA LeakAtShell == Context /\ Leak => LeakBounded
<1> SUFFICES ASSUME Context, Leak, AtShell, NEW d \in Drives
             PROVE  Cardinality(DeadBlocks(d)) <= commands
    BY DEF LeakBounded
<1> DEFINE dead == DeadBlocks(d)
           lost == Lost(d)
<1>1. dead \in SUBSET lost /\ IsFiniteSet(lost)
    BY DeadLost, LostFinite
<1>2. Cardinality(lost) + 0 <= commands
    BY DEF Leak, AtShell, Calling
<1>3. commands \in Nat
    BY ContextFacts DEF TypeOK
<1> HIDE DEF dead, lost
<1>4. /\ Cardinality(dead) \in Nat /\ Cardinality(lost) \in Nat
      /\ Cardinality(dead) <= Cardinality(lost)
    BY <1>1, FS_Subset, FS_CardinalityType
<1>5. Cardinality(dead) <= commands
    BY <1>2, <1>3, <1>4
<1> QED
    BY <1>5 DEF dead

LEMMA LeakInit == Init /\ NothingLost => NamedWrite /\ Wiped /\ Scripted /\ Leak
<1> SUFFICES ASSUME Init, NothingLost PROVE NamedWrite /\ Wiped /\ Scripted /\ Leak
    OBVIOUS
<1>1. pc = "off" /\ todo = <<>> /\ commands = 0
    BY DEF Init
<1>2. NamedWrite /\ Wiped /\ Scripted
    BY <1>1 DEF NamedWrite, Writes, Wiped, Scripted, Formats
<1>3. Leak
  <2>1. \A d \in Drives : Cardinality(Lost(d)) = 0
      BY FS_EmptySet DEF NothingLost
  <2> QED
      BY <1>1, <2>1 DEF Leak, Calling
<1> QED
    BY <1>2, <1>3

(* LeakBounded.  From drives on which no block is lost and no file has a   *)
(* second pointer block, every command loses at most one block of a drive: *)
(* file_delete clears the words of a pointer block but not the block       *)
(* itself where it lies (fs.c:247-286), and no other step loses one.  That *)
(* is for commands that do not format, a disk buffer whose stale inode     *)
(* never stands for the file that file_write looks for, and an edit that   *)
(* saves at its first attempt.                                             *)
THEOREM LeakStaysBounded ==
    ASSUME Unformatted, "write" \notin StaleCalls
    PROVE  SparedSpec /\ OnePointer /\ NothingLost /\ []SavesOnce => []LeakBounded
<1> DEFINE Bound == OnePointer /\ NamedWrite /\ Wiped /\ Scripted /\ Leak
<1>1. Init /\ OnePointer /\ NothingLost => Bound
    BY LeakInit
<1>2. Context /\ Context' /\ Bound /\ SavesOnce /\ [Next /\ Spared]_vars => Bound'
  <2> SUFFICES ASSUME Context, Context', Bound, SavesOnce, [Next /\ Spared]_vars PROVE Bound'
      OBVIOUS
  <2>1. OnePointer' /\ NamedWrite' /\ Scripted' /\ Leak'
      BY LeakStep
  <2>2. Wiped'
      BY WipedNext
  <2> QED
      BY <2>1, <2>2
<1>3. Context /\ Bound => LeakBounded
    BY LeakAtShell
<1> HIDE DEF Bound
<1> QED
    BY <1>1, <1>2, <1>3, ContextInvariance, PTL DEF SparedSpec

=============================================================================
