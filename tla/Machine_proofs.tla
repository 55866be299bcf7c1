--------------------------- MODULE Machine_proofs ---------------------------
(***************************************************************************)
(* What formatting leaves alone; the ownership of blocks: the inductive    *)
(* invariant Owned of Ownership, step by step, and what it says of files   *)
(* and their blocks; that a write leaves nothing undone; the texts of      *)
(* files, and what file_create does to them.                               *)
(***************************************************************************)
EXTENDS Machine, Ownership, ESFS_proofs

(* A write of the running program at or behind the superblock's place.     *)
LEMMA WriteBehind ==
    ASSUME TypeOK, NEW b \in Nat, b >= SuperblockBlock, NEW data, Write(b, data)
    PROVE  ReservedKept(drive)
<1> SUFFICES ASSUME NEW k \in 0 .. SuperblockBlock - 1
             PROVE  disk'[drive][k] = disk[drive][k]
    BY DEF ReservedKept
<1>1. disk \in [Drives -> Disk] /\ drive \in Drives
    BY DEF TypeOK
<1>2. disk'[drive] = WriteSector(disk[drive], b, data)
    BY <1>1 DEF Write
<1>3. k # b /\ k \in Sectors
    BY DiskAssumption DEF Sectors
<1>4. disk[drive] \in [Sectors -> Sector]
    BY <1>1 DEF Disk
<1> QED
    BY <1>2, <1>3, <1>4 DEF WriteSector

(* format does not remove the kernel from the drive it formats, whatever   *)
(* the drive holds: fs.c:74-109 and manual.txt's description of format.    *)
THEOREM FormatLeavesKernel == Spec => FormatKeepsKernel
<1>1. IInv /\ [Next]_vars => [Formatting => ReservedKept(drive)]_vars
  <2> SUFFICES ASSUME IInv, Next, Formatting PROVE ReservedKept(drive)
      OBVIOUS
  <2>1. TypeOK /\ fr.i \in Nat /\ SuperblockBlock \in Nat
      BY DiskAssumption DEF IInv, TypeOK, Frame
  <2>2. FormatSuperblock \/ FormatInodes \/ Crash
      BY DEF Formatting, Next, Step, Boot, Exit, SelectDrive, Fetch, Retry, Look, Execute,
             FileCreate, Create, CreateImage, CreateZero, CreatePointer, CreateName, CreateSave,
             FileDelete, Delete, DeleteLoad, DeleteWipe, DeleteSave,
             FileWrite, WriteCall, WritePointer, WriteNextPointer, WriteAllocate, WriteFull,
             WriteFill, WriteData, WriteChain, WriteSize, WriteSave,
             FormatDisk, Format, Calling, AtBlock
  <2>3. CASE FormatSuperblock
      BY <2>1, <2>3, WriteBehind DEF FormatSuperblock
  <2>4. CASE Write(InodeTableSector(fr.i), ZeroSector)
    <3>1. InodeTableSector(fr.i) \in Nat /\ InodeTableSector(fr.i) >= SuperblockBlock
        BY <2>1 DEF InodeTableSector
    <3> QED
        BY <2>1, <2>4, <3>1, WriteBehind
  <2>5. CASE UNCHANGED disk
      BY <2>5 DEF ReservedKept
  <2> QED
      BY <2>2, <2>3, <2>4, <2>5 DEF FormatInodes, Crash
<1> QED
    BY <1>1, Invariance, PTL DEF Spec, FormatKeepsKernel

-----------------------------------------------------------------------------
(* Pieces of steps.                                                        *)

Context == IInv /\ Owned /\ EntriesShown

Known(dk, set, name, ino) == Ghost(dk, set, name, ino) \/ Found(dk, set, name, ino)

LEMMA KnownSame ==
    ASSUME NEW dk, NEW dk2, NEW set, Same(dk, dk2, set), NEW name, NEW ino, NEW ino2,
           ino2.ptrs = ino.ptrs, Ghost(dk, set, name, ino) => Alike(dk, dk2, ino)
    PROVE  /\ Ghost(dk, set, name, ino) => Ghost(dk2, set, name, ino2)
           /\ Known(dk, set, name, ino) => Known(dk2, set, name, ino2)
<1>1. Ghost(dk, set, name, ino) => Ghost(dk2, set, name, ino2)
    BY SameGhost
<1>2. Found(dk, set, name, ino) => Found(dk2, set, name, ino2)
  <2>1. Found(dk, set, name, ino) => Found(dk2, set, name, ino)
      BY SameFound
  <2> QED
      BY <2>1 DEF Found
<1> QED
    BY <1>1, <1>2 DEF Known

LEMMA KnownDataSame ==
    ASSUME NEW dk, NEW dk2, DataSame(dk, dk2), NEW set,
           \A p \in set : WellFormed(dk, InodeAt(dk, p)),
           \A p \in set : InodeAt(dk2, p).ptrs = InodeAt(dk, p).ptrs,
           NEW name, NEW ino, NEW ino2, ino2.ptrs = ino.ptrs
    PROVE  /\ Ghost(dk, set, name, ino) => Ghost(dk2, set, name, ino2)
           /\ Known(dk, set, name, ino) => Known(dk2, set, name, ino2)
<1>1. Same(dk, dk2, set)
    BY DataSameSame
<1>2. Ghost(dk, set, name, ino) => Alike(dk, dk2, ino)
    BY DataSameAlike DEF Ghost
<1> QED
    BY <1>1, <1>2, KnownSame

(* Whether an inode is known depends on its pointers.                      *)
LEMMA KnownPointers ==
    ASSUME NEW dk, NEW set, NEW name, NEW ino, NEW ino2, ino2.ptrs = ino.ptrs
    PROVE  /\ Ghost(dk, set, name, ino) => Ghost(dk, set, name, ino2)
           /\ Known(dk, set, name, ino) => Known(dk, set, name, ino2)
  BY KnownSame DEF Same, Alike

LEMMA KnownWellFormed ==
    ASSUME NEW dk, NEW set, Separate(dk, set), NEW name, NEW ino, Known(dk, set, name, ino)
    PROVE  WellFormed(dk, ino)
<1>1. CASE Ghost(dk, set, name, ino)
    BY <1>1 DEF Ghost
<1>2. CASE Found(dk, set, name, ino)
  <2>1. PICK p \in set : ino.ptrs = InodeAt(dk, p).ptrs
      BY <1>2 DEF Found
  <2>2. WellFormed(dk, InodeAt(dk, p))
      BY DEF Separate
  <2>3. Alike(dk, dk, InodeAt(dk, p))
      BY DEF Alike
  <2> QED
      BY <2>1, <2>2, <2>3, AlikeWellFormed
<1> QED
    BY <1>1, <1>2 DEF Known

LEMMA NoJobIsName == IsName(NoJob.name) /\ NoJob.name \in Seq(Nat)
  BY DiskAssumption DEF NoJob, IsName

LEMMA ContextFacts ==
    ASSUME Context
    PROVE  /\ TypeOK /\ Here \in Disk /\ drive \in Drives /\ disk \in [Drives -> Disk]
           /\ Mine \in SUBSET Entries(Here) /\ Separate(Here, Mine)
           /\ IsSuperblock(SuperblockOf(Here))
           /\ job.name \in Seq(Nat) /\ IsName(job.name)
<1>1. TypeOK
    BY DEF Context, IInv
<1>2. Here \in Disk /\ drive \in Drives /\ disk \in [Drives -> Disk]
    BY <1>1, DiskOfDrive DEF Here
<1>3. Separate(Here, Mine) /\ IsSuperblock(SuperblockOf(Here))
    BY <1>2 DEF Context, Owned, FilesSeparate, Geometries, Here, Mine
<1>4. Mine \in SUBSET Entries(Here)
    BY DEF Mine, Here, Settled
<1>5. job.name \in Seq(Nat) /\ IsName(job.name)
  <2>1. job \in Commands \union {NoJob}
      BY <1>1 DEF TypeOK
  <2>2. CASE job \in Commands
    <3>1. job \in Jobs
        BY <2>2, ESFSAssumption
    <3> QED
        BY <2>2, <3>1, OwnershipAssumption DEF Jobs
  <2>3. CASE job = NoJob
      BY <2>3, NoJobIsName
  <2> QED
      BY <2>1, <2>2, <2>3
<1> QED
    BY <1>1, <1>2, <1>3, <1>4, <1>5

(* The drive in use gets new contents.                                     *)
LEMMA DriveStep ==
    ASSUME Context, drive' = drive, NEW dk, disk' = [disk EXCEPT ![drive] = dk],
           IsSuperblock(SuperblockOf(dk)), pc # "off", lab' \in DataArea,
           pc' \notin {"off", "shell"} => IsSuperblock(sb'),
           Separate(dk, Entries(dk) \ (IF pc' \in Makes THEN {fr'.entry} ELSE {}))
    PROVE  /\ Geometries' /\ FilesSeparate' /\ Here' = dk
           /\ Mine' = Entries(dk) \ (IF pc' \in Makes THEN {fr'.entry} ELSE {})
<1>1. disk \in [Drives -> Disk] /\ drive \in Drives
    BY ContextFacts
<1>2. disk'[drive] = dk /\ \A d \in Drives \ {drive} : disk'[d] = disk[d]
    BY <1>1
<1>3. Geometries'
  <2>1. \A d \in Drives : IsSuperblock(SuperblockOf(disk'[d]))
      BY <1>2 DEF Context, Owned, Geometries
  <2> QED
      BY <2>1 DEF Geometries
<1>4. ASSUME NEW d \in Drives, d # drive PROVE Separate(disk'[d], Settled(d)')
  <2>1. Settled(d) = Entries(disk[d]) /\ Settled(d)' = Entries(disk'[d])
      BY <1>4 DEF Settled
  <2> QED
      BY <1>2, <1>4, <2>1 DEF Context, Owned, FilesSeparate
<1>5. Settled(drive)' = Entries(dk) \ (IF pc' \in Makes THEN {fr'.entry} ELSE {})
    BY <1>2 DEF Settled
<1>6. Here' = dk /\ Mine' = Settled(drive)'
    BY <1>2 DEF Here, Mine
<1>7. FilesSeparate'
    BY <1>2, <1>4, <1>5 DEF FilesSeparate
<1> QED
    BY <1>3, <1>5, <1>6, <1>7

(* No drive changes, and no file is half made.                             *)
LEMMA QuietStep ==
    ASSUME Context, pc \notin Makes, pc' \notin Makes, disk' = disk,
           pc' # "off" => lab' \in DataArea, pc' \notin {"off", "shell"} => IsSuperblock(sb')
    PROVE  /\ Geometries' /\ FilesSeparate'
           /\ drive' = drive => Here' = Here /\ Mine' = Mine
<1>1. \A d \in Drives : Settled(d) = Entries(disk[d]) /\ Settled(d)' = Entries(disk[d])
    BY DEF Settled
<1>2. FilesSeparate'
    BY <1>1 DEF Context, Owned, FilesSeparate
<1>3. Geometries'
    BY DEF Context, Owned, Geometries
<1>4. drive' = drive => Here' = Here /\ Mine' = Mine
    BY DEF Here, Mine, Settled
<1> QED
    BY <1>2, <1>3, <1>4

(* Between calls only the inode that an earlier call left is in hand.      *)
LEMMA IdleStep ==
    ASSUME Geometries', FilesSeparate', FormatAlone', pc' \in {"off", "shell", "run"},
           stale'.valid = 1 => pc' = "run" /\ Known(Here', Mine', job'.name, stale')
    PROVE  Owned'
<1>1. InHand'
    BY DEF InHand, IsKnown, IsGhost, Known, Deletes, Writes
<1>2. InCreate' /\ InDelete' /\ InWrite' /\ InFormat'
    BY DEF InCreate, InDelete, InWrite, InFormat, Makes, Deletes, Writes
<1> QED
    BY <1>1, <1>2 DEF Owned

LEMMA FormatLeft ==
    ASSUME TypeOK, FormatAlone, todo # <<>>, todo' = Tail(todo)
    PROVE  FormatAlone'
<1>1. todo \in Seq(Calls)
    BY DEF TypeOK
<1>2. CASE \E k \in 1 .. Len(todo) : todo[k] = "format"
  <2>1. todo = <<"format">>
      BY <1>2 DEF FormatAlone
  <2>2. todo' = <<>>
      BY <2>1
  <2> QED
      BY <2>2 DEF FormatAlone
<1>3. CASE ~\E k \in 1 .. Len(todo) : todo[k] = "format"
  <2>1. ASSUME NEW k \in 1 .. Len(Tail(todo)) PROVE Tail(todo)[k] # "format"
    <3>1. Len(Tail(todo)) = Len(todo) - 1 /\ Len(todo) \in Nat /\ Tail(todo)[k] = todo[k + 1]
        BY <1>1, <2>1
    <3>2. k + 1 \in 1 .. Len(todo)
        BY <2>1, <3>1
    <3> QED
        BY <1>3, <3>1, <3>2
  <2> QED
      BY <2>1 DEF FormatAlone
<1> QED
    BY <1>2, <1>3

LEMMA FormatKept ==
    ASSUME FormatAlone, todo' = todo,
           stale' = stale \/ (todo # <<>> /\ Head(todo) # "format")
    PROVE  FormatAlone'
<1>1. CASE stale' = stale
    BY <1>1 DEF FormatAlone
<1>2. CASE todo # <<>> /\ Head(todo) # "format"
  <2>1. todo # <<"format">>
      BY <1>2
  <2> QED
      BY <2>1 DEF FormatAlone
<1> QED
    BY <1>1, <1>2

(* What a lookup of the running call returns.                              *)
LEMMA LookupFacts ==
    ASSUME Context, pc = "run", NEW call, NEW info \in Lookup(call, job.name)
    PROVE  \/ /\ Matches(Here, job.name) = {} /\ NoneNamed(Here, Mine, job.name)
              /\ info.valid = 1 => info = stale /\ Ghost(Here, Mine, job.name, stale)
           \/ \E p \in Mine :
                 /\ Matches(Here, job.name) = {p} /\ NameAt(Here, p) = job.name
                 /\ info = InodeAt(Here, p) /\ info.valid = 1
<1>1. Mine = Entries(Here) /\ Here \in Disk /\ Separate(Here, Mine)
  <2>1. Mine = Entries(Here)
      BY DEF Mine, Settled, Here, Makes
  <2> QED
      BY <2>1, ContextFacts
<1>2. Reached(Here, NullFiles) = Entries(Here)
  <2>1. drive \in Drives
      BY ContextFacts
  <2>2. Entries(Here) \subseteq Reached(Here, NullFiles)
        /\ Reached(Here, NullFiles) \subseteq Entries(Here)
      BY <2>1 DEF Context, EntriesShown, Formats, Here
  <2> QED
      BY <2>2
<1>3. NamedOnce(Here, Entries(Here))
    BY <1>1 DEF Separate
<1>4. CASE Matches(Here, job.name) = {} /\ NoneNamed(Here, Mine, job.name)
  <2>1. info \in {NoInode, stale}
      BY <1>4 DEF Lookup, GetFileInfo, Here
  <2>2. NoInode.valid = 0
      BY DEF NoInode
  <2>3. stale.valid = 1 => Ghost(Here, Mine, job.name, stale)
    <3>1. stale.valid = 1 => Known(Here, Mine, job.name, stale)
        BY DEF Context, Owned, InHand, IsKnown, IsGhost, Known
    <3>2. ~Found(Here, Mine, job.name, stale)
        BY <1>4 DEF NoneNamed, Found
    <3> QED
        BY <3>1, <3>2 DEF Known
  <2> QED
      BY <1>4, <2>1, <2>2, <2>3
<1>5. CASE \E p \in Entries(Here) : Matches(Here, job.name) = {p} /\ NameAt(Here, p) = job.name
  <2>1. PICK p \in Entries(Here) : Matches(Here, job.name) = {p} /\ NameAt(Here, p) = job.name
      BY <1>5
  <2>2. p \in Nat
      BY EntryFacts, PositionsNat
  <2>3. Min({p}) = p
    <3>1. Min({p}) \in {p}
        BY <2>2, MinProperties
    <3> QED
        BY <3>1
  <2>4. info = InodeAt(Here, p)
      BY <2>1, <2>3 DEF Lookup, GetFileInfo, Here
  <2>5. info.valid = 1
      BY <1>1, <2>4, EntryInode
  <2> QED
      BY <1>1, <2>1, <2>4, <2>5
<1> QED
    BY <1>1, <1>2, <1>3, <1>4, <1>5, MatchesOne

-----------------------------------------------------------------------------
(* Power, the shell and the programs.                                      *)

LEMMA OwnedInit == Init /\ InUse => Owned
<1> SUFFICES ASSUME Init, InUse PROVE Owned
    OBVIOUS
<1>1. pc = "off" /\ todo = <<>> /\ stale.valid = 0
    BY DEF Init, NoInode
<1>2. FilesSeparate
    BY <1>1 DEF FilesSeparate, Settled, InUse, Makes
<1>3. Geometries
    BY <1>1 DEF Geometries, InUse
<1>4. FormatAlone
    BY <1>1 DEF FormatAlone
<1> QED
    BY <1>1, <1>2, <1>3, <1>4
    DEF Owned, InCreate, InHand, InDelete, InWrite, InFormat, Makes, Deletes, Writes

(* The file system of a drive in use is the one its superblock describes.  *)
LEMMA InitFsInUse ==
    ASSUME NEW dk, IsSuperblock(SuperblockOf(dk)), NEW skipped, NEW unset
    PROVE  InitFs(dk, skipped, unset) = SuperblockOf(dk)
<1> DEFINE old == SuperblockOf(dk)
           l   == old.last_allocated_block
<1>1. old = Geometry(Capacity, l) /\ old.magic = Magic /\ old.disk_size = Capacity /\ l # 0
    BY SuperblockFacts DEF IsSuperblock
<1>2. Capacity # 0
    BY OwnershipAssumption
<1> HIDE DEF old
<1>3. InitFs(dk, skipped, unset) = [Geometry(Capacity, l) EXCEPT !.last_allocated_block = l]
    BY <1>1, <1>2 DEF InitFs, FirstCursor, old
<1>4. [Geometry(Capacity, l) EXCEPT !.last_allocated_block = l] = Geometry(Capacity, l)
    BY DEF Geometry
<1> QED
    BY <1>1, <1>3, <1>4 DEF old

(* A superblock goes to its place.                                         *)
LEMMA SavedDrive ==
    ASSUME NEW dk \in Disk, NEW s, IsSuperblock(s), NEW set \in SUBSET Entries(dk),
           Separate(dk, set), NEW dk2,
           dk2 = WriteSector(dk, SuperblockBlock, SuperblockSector(s))
    PROVE  /\ SuperblockOf(dk2) = s /\ DataSame(dk, dk2) /\ Entries(dk2) = Entries(dk)
           /\ Separate(dk2, set) /\ \A p \in set : WellFormed(dk, InodeAt(dk, p))
           /\ \A p \in set : InodeAt(dk2, p).ptrs = InodeAt(dk, p).ptrs
<1>1. s \in Superblock
    BY SuperblockFacts
<1>2. /\ SuperblockOf(dk2) = s /\ DataSame(dk, dk2) /\ Entries(dk2) = Entries(dk)
      /\ \A p \in Entries(dk) : InodeAt(dk2, p) = InodeAt(dk, p)
    BY <1>1, SuperblockWrite
<1>3. \A p \in set : WellFormed(dk, InodeAt(dk, p))
    BY DEF Separate
<1>4. \A p \in set : InodeAt(dk2, p).ptrs = InodeAt(dk, p).ptrs
    BY <1>2
<1>5. Same(dk, dk2, set)
    BY <1>2, <1>3, <1>4, DataSameSame
<1>6. Separate(dk2, set)
    BY <1>5, SameSeparate
<1> QED
    BY <1>2, <1>3, <1>4, <1>6

LEMMA OwnedBoot == Context /\ Boot /\ Spared => Owned'
<1> SUFFICES ASSUME Context, Boot, Spared PROVE Owned'
    OBVIOUS
<1>1. /\ TypeOK /\ disk \in [Drives -> Disk] /\ BootDrive \in Drives
      /\ disk[BootDrive] \in Disk /\ pc = "off"
    BY ContextFacts, ESFSAssumption DEF Boot
<1>2. IsSuperblock(SuperblockOf(disk[BootDrive]))
    BY <1>1 DEF Context, Owned, Geometries
<1> DEFINE s   == SuperblockOf(disk[BootDrive])
           dk2 == WriteSector(disk[BootDrive], SuperblockBlock, SuperblockSector(s))
<1>3. /\ sb' = s /\ lab' = s.last_allocated_block
      /\ disk' = [disk EXCEPT ![BootDrive] = dk2]
    BY <1>2, InitFsInUse DEF Boot
<1>4. Separate(disk[BootDrive], Entries(disk[BootDrive]))
    BY <1>1 DEF Context, Owned, FilesSeparate, Settled, Makes
<1>5. /\ SuperblockOf(dk2) = s /\ Entries(dk2) = Entries(disk[BootDrive])
      /\ Separate(dk2, Entries(disk[BootDrive]))
    BY <1>1, <1>2, <1>4, SavedDrive
<1>6. s.magic = Magic /\ lab' \in DataArea
    BY <1>2, <1>3, SuperblockFacts
<1> HIDE DEF s, dk2
<1>7. disk'[BootDrive] = dk2 /\ \A d \in Drives \ {BootDrive} : disk'[d] = disk[d]
    BY <1>1, <1>3
<1>8. pc' = "shell" /\ todo' = todo /\ stale' = stale
    BY <1>5, <1>6, <1>7 DEF Boot, CheckDiskFs, program, bounds
<1>9. Geometries'
  <2>1. \A d \in Drives : IsSuperblock(SuperblockOf(disk'[d]))
      BY <1>2, <1>5, <1>7 DEF Context, Owned, Geometries, s
  <2> QED
      BY <1>6, <1>8, <2>1 DEF Geometries
<1>10. FilesSeparate'
  <2>1. \A d \in Drives : Settled(d)' = Entries(disk'[d]) /\ Settled(d) = Entries(disk[d])
      BY <1>1, <1>8 DEF Settled, Makes
  <2>2. \A d \in Drives \ {BootDrive} : Separate(disk'[d], Settled(d)')
      BY <1>7, <2>1 DEF Context, Owned, FilesSeparate
  <2>3. Separate(disk'[BootDrive], Settled(BootDrive)')
      BY <1>1, <1>5, <1>7, <2>1
  <2> QED
      BY <2>2, <2>3 DEF FilesSeparate
<1>11. FormatAlone'
    BY <1>8, FormatKept DEF Context, Owned
<1>12. stale'.valid # 1
    BY <1>1, <1>8 DEF Context, Owned, InHand
<1> QED
    BY <1>8, <1>9, <1>10, <1>11, <1>12, IdleStep

LEMMA ScriptFormat ==
    ASSUME NEW prog, \E k \in 1 .. Len(Script(prog)) : Script(prog)[k] = "format"
    PROVE  Script(prog) = <<"format">>
  BY DEF Script

LEMMA OwnedExecute ==
    ASSUME NEW j \in Commands, Context, Execute(j)
    PROVE  Owned'
<1>1. pc = "shell" /\ pc' = "run" /\ disk' = disk /\ lab' = lab /\ stale' = NoInode
      /\ sb' = SuperblockOf(disk[selected]) /\ todo' = Script(j.prog) /\ selected \in Drives
    BY ContextFacts DEF Execute, env, TypeOK
<1>2. lab' \in DataArea /\ IsSuperblock(sb')
    BY <1>1 DEF Context, Owned, Geometries
<1>3. Geometries' /\ FilesSeparate'
    BY <1>1, <1>2, QuietStep DEF Makes
<1>4. stale'.valid # 1
    BY <1>1 DEF NoInode
<1>5. FormatAlone'
    BY <1>1, <1>4, ScriptFormat DEF FormatAlone
<1> QED
    BY <1>1, <1>3, <1>4, <1>5, IdleStep

LEMMA OwnedExit == Context /\ Exit => Owned'
<1> SUFFICES ASSUME Context, Exit PROVE Owned'
    OBVIOUS
<1>1. pc = "run" /\ pc' = "shell" /\ disk' = disk /\ lab' = lab /\ stale' = NoInode
      /\ todo' = <<>> /\ todo = <<>>
    BY DEF Exit, env
<1>2. lab' \in DataArea
    BY <1>1 DEF Context, Owned, Geometries
<1>3. Geometries' /\ FilesSeparate'
    BY <1>1, <1>2, QuietStep DEF Makes
<1>4. stale'.valid # 1 /\ FormatAlone'
    BY <1>1 DEF NoInode, FormatAlone
<1> QED
    BY <1>1, <1>3, <1>4, IdleStep

LEMMA OwnedQuiet == Context /\ (Look \/ UNCHANGED vars) => Owned'
<1> SUFFICES ASSUME Owned, UNCHANGED vars PROVE Owned'
    BY DEF Look, Context
<1>0. UNCHANGED <<disk, lab, drive, sb, stale, pc, job, todo, fr>>
    BY DEF vars
<1>1. Geometries' /\ FilesSeparate'
    BY <1>0 DEF Owned, Geometries, FilesSeparate, Settled
<1>2. Here' = Here /\ Mine' = Mine
    BY <1>0 DEF Here, Mine, Settled
<1>3. InCreate'
    BY <1>0, <1>2 DEF Owned, InCreate, Held, NewInode
<1>4. InHand'
    BY <1>0, <1>2 DEF Owned, InHand, IsGhost, IsKnown
<1>5. InDelete' /\ InWrite'
    BY <1>0, <1>2 DEF Owned, InDelete, InWrite
<1>6. FormatAlone' /\ InFormat'
    BY <1>0 DEF Owned, FormatAlone, InFormat
<1> QED
    BY <1>1, <1>3, <1>4, <1>5, <1>6 DEF Owned

(* A step between two calls that touches no drive.                         *)
LEMMA OwnedBetween ==
    ASSUME Context, pc = "run", pc' = "run", UNCHANGED <<disk, lab, drive, sb, stale, job>>,
           FormatAlone'
    PROVE  Owned'
<1>1. lab' \in DataArea /\ IsSuperblock(sb')
    BY DEF Context, Owned, Geometries
<1>2. Geometries' /\ FilesSeparate' /\ Here' = Here /\ Mine' = Mine
    BY <1>1, QuietStep DEF Makes
<1>3. stale'.valid = 1 => Known(Here', Mine', job'.name, stale')
    BY <1>2 DEF Context, Owned, InHand, IsKnown, IsGhost, Known
<1> QED
    BY <1>2, <1>3, IdleStep

LEMMA OwnedSelectDrive == Context /\ SelectDrive => Owned'
<1> SUFFICES ASSUME Context, SelectDrive PROVE Owned'
    OBVIOUS
<1>1. FormatAlone'
    BY ContextFacts, FormatLeft DEF SelectDrive, Return, Calling, Context, Owned
<1> QED
    BY <1>1, OwnedBetween DEF SelectDrive, Return, Calling, program

LEMMA OwnedFetch == Context /\ Fetch => Owned'
<1> SUFFICES ASSUME Context, Fetch PROVE Owned'
    OBVIOUS
<1>1. /\ pc = "run" /\ pc' = "run" /\ todo # <<>> /\ todo' = Tail(todo)
      /\ UNCHANGED <<disk, lab, drive, sb, stale, job>>
    BY DEF Fetch, Return, Calling, env
<1>2. FormatAlone'
    BY <1>1, ContextFacts, FormatLeft DEF Context, Owned
<1> QED
    BY <1>1, <1>2, OwnedBetween

LEMMA OwnedRetry == Context /\ Retry => Owned'
<1> SUFFICES ASSUME Context, Retry PROVE Owned'
    OBVIOUS
<1>1. /\ pc = "run" /\ pc' = "run" /\ todo # <<>>
      /\ UNCHANGED <<disk, lab, drive, sb, stale, job>>
      /\ todo' = IF ret = 0 THEN Script("edit") ELSE Tail(todo)
    BY DEF Retry, Calling, env, program
<1>2. FormatAlone'
  <2>1. CASE todo' = Tail(todo)
      BY <1>1, <2>1, ContextFacts, FormatLeft DEF Context, Owned
  <2>2. CASE todo' = Script("edit")
    <3>1. todo' = <<"delete", "create", "write", "retry">>
        BY <2>2 DEF Script
    <3> QED
        BY <3>1 DEF FormatAlone
  <2> QED
      BY <1>1, <2>1, <2>2
<1> QED
    BY <1>1, <1>2, OwnedBetween

-----------------------------------------------------------------------------
(* file_create                                                             *)

LEMMA CallFacts ==
    ASSUME Context, pc \notin {"off", "shell"}
    PROVE  lab \in DataArea /\ lab # 0 /\ IsSuperblock(sb) /\ StartLab = lab
<1>1. lab \in DataArea /\ IsSuperblock(sb)
    BY DEF Context, Owned, Geometries
<1>2. lab # 0
    BY <1>1, DataOutside
<1> QED
    BY <1>1, <1>2 DEF StartLab

(* A file that a lookup finds is known.                                    *)
LEMMA LookupKnown ==
    ASSUME Context, pc = "run", NEW call, NEW info \in Lookup(call, job.name), info.valid = 1
    PROVE  Known(Here, Mine, job.name, info)
  BY LookupFacts DEF Known, Found

(* A call that returns without having written.                             *)
LEMMA OwnedReturn ==
    ASSUME Context, pc = "run", todo # <<>>, NEW value, Return(value),
           UNCHANGED <<disk, drive, sb, job>>, lab' \in DataArea,
           stale'.valid = 1 => Known(Here, Mine, job.name, stale')
    PROVE  Owned'
<1>1. pc' = "run" /\ todo' = Tail(todo)
    BY DEF Return
<1>2. IsSuperblock(sb')
    BY CallFacts
<1>3. Geometries' /\ FilesSeparate' /\ Here' = Here /\ Mine' = Mine
    BY <1>1, <1>2, QuietStep DEF Makes
<1>4. FormatAlone'
    BY <1>1, ContextFacts, FormatLeft DEF Context, Owned
<1>5. stale'.valid = 1 => Known(Here', Mine', job'.name, stale')
    BY <1>3
<1> QED
    BY <1>1, <1>3, <1>4, <1>5, IdleStep

LEMMA FreeEntryFacts ==
    ASSUME NEW dk, NEW s, IsSuperblock(s), NEW e \in FreeEntry(dk, s)
    PROVE  e \in Positions /\ IsInode(e) /\ InodeSector(e) <= TableEnd /\ e \notin Entries(dk)
<1>1. FreeEntries(dk, s) # {} /\ e = Min(FreeEntries(dk, s))
    BY DEF FreeEntry
<1>2. FreeEntries(dk, s) \in SUBSET Nat
    BY PositionsNat DEF FreeEntries
<1>3. e \in FreeEntries(dk, s)
    BY <1>1, <1>2, MinProperties
<1>4. TableEnd = SuperblockBlock + s.inode_blocks
    BY SuperblockFacts
<1>5. e \in Positions /\ IsInode(e) /\ InodeSector(e) <= TableEnd /\ ValidAt(dk, e) = 0
    BY <1>3, <1>4 DEF FreeEntries, InodeTableSector
<1> QED
    BY <1>5, EntryFacts

(* What file_create does once it has looked the name up.                   *)
CreateFound(info) == info.valid = 1 /\ Return(1) /\ UNCHANGED <<disk, lab>>
CreateNone(info)  ==
    /\ info.valid # 1
    /\ FreeEntry(disk[drive], sb) = {}
    /\ lab' = StartLab
    /\ \E value \in {0, 1} : Return(value)
    /\ UNCHANGED disk
CreateInode(e) ==
    LET block == Allocate(disk[drive], sb, StartLab)
        ino   == [valid |-> 1, size |-> InitialSize(job.name),
                  ptrs |-> [NoInode.ptrs EXCEPT ![0] = block]]
        image == WithInode(disk[drive][InodeSector(e)], e, ino)
    IN  /\ Write(InodeSector(e), image)
        /\ lab' = Cursor(disk[drive], sb, StartLab)
        /\ fr' = [NoFrame EXCEPT !.entry = e, !.block = block, !.image = image]
CreateInodeAs(e, block, ino, image) ==
    /\ block = Allocate(disk[drive], sb, StartLab)
    /\ ino = [valid |-> 1, size |-> InitialSize(job.name),
              ptrs |-> [NoInode.ptrs EXCEPT ![0] = block]]
    /\ image = WithInode(disk[drive][InodeSector(e)], e, ino)
    /\ Write(InodeSector(e), image)
    /\ lab' = Cursor(disk[drive], sb, StartLab)
    /\ fr' = [NoFrame EXCEPT !.entry = e, !.block = block, !.image = image]
CreateNew(info) ==
    /\ info.valid # 1
    /\ \E e \in FreeEntry(disk[drive], sb) : CreateInode(e)
    /\ pc' = "image" /\ UNCHANGED <<ret, todo>>

LEMMA CreateInodeTerms ==
    ASSUME NEW e, CreateInode(e)
    PROVE  \E block, ino, image : CreateInodeAs(e, block, ino, image)
<1> DEFINE block == Allocate(disk[drive], sb, StartLab)
           ino   == [valid |-> 1, size |-> InitialSize(job.name),
                     ptrs |-> [NoInode.ptrs EXCEPT ![0] = block]]
           image == WithInode(disk[drive][InodeSector(e)], e, ino)
<1>1. CreateInodeAs(e, block, ino, image)
    BY Zenon DEF CreateInode, CreateInodeAs
<1> HIDE DEF block, ino, image
<1> QED
    BY <1>1

LEMMA OwnedCreateInode ==
    ASSUME Context, Calling("create"), NEW info \in Lookup("create", job.name), info.valid # 1,
           stale' = info, NEW e \in FreeEntry(disk[drive], sb), CreateInode(e),
           pc' = "image", UNCHANGED todo, UNCHANGED <<drive, sb, job>>, Spared
    PROVE  Owned'
<1> PICK block, ino, image : CreateInodeAs(e, block, ino, image)
    BY CreateInodeTerms
<1> USE DEF CreateInodeAs
<1> DEFINE dk  == disk[drive]
           b   == InodeSector(e)
           dk2 == WriteSector(dk, b, image)
<1>1. /\ TypeOK /\ dk \in Disk /\ dk = Here /\ IsSuperblock(SuperblockOf(dk))
      /\ pc = "run" /\ todo # <<>> /\ Head(todo) = "create"
      /\ lab \in DataArea /\ IsSuperblock(sb) /\ StartLab = lab
      /\ job.name \in Seq(Nat)
    BY ContextFacts, CallFacts DEF Here, Calling
<1>2. Mine = Entries(dk) /\ Separate(dk, Entries(dk))
  <2>1. Mine = Entries(dk)
      BY <1>1 DEF Mine, Settled, Here, Makes
  <2> QED
      BY <1>1, <2>1, ContextFacts
<1>3. e \in Positions /\ IsInode(e) /\ b <= TableEnd /\ e \notin Entries(dk)
    BY <1>1, FreeEntryFacts
<1>4. /\ block \in DataArea /\ LooksEmpty(ReadSector(dk, block)) /\ block \notin PointedTo(dk)
      /\ lab' = block
  <2>1. FreeBlocks(dk, sb, StartLab) # {}
      BY DEF Spared, BlockFound
  <2> QED
      BY <1>1, <2>1, Allocated
<1>5. ino \in Inode /\ ino.valid = 1 /\ ino.ptrs = [NoInode.ptrs EXCEPT ![0] = block]
  <2>1. InitialSize(job.name) \in Nat
      BY <1>1, LenProperties DEF InitialSize
  <2>2. block \in Nat
      BY <1>4, AreaFacts
  <2> DEFINE ptrs == [NoInode.ptrs EXCEPT ![0] = block]
  <2>3. ptrs \in [0 .. PtrsPerInode - 1 -> Nat]
      BY <2>2 DEF NoInode
  <2> HIDE DEF ptrs
  <2> QED
      BY <2>1, <2>3 DEF Inode, ptrs
<1>6. b \in Sectors /\ InTable(b) /\ b # SuperblockBlock
    BY <1>3, EntryPlace, DiskAssumption DEF InTable
<1>7. PutAt(dk, dk2, e, ino)
    BY <1>1, <1>3, <1>5, PutByWrite
<1>8. disk' = [disk EXCEPT ![drive] = dk2] /\ dk2[b] = image
    BY <1>1, <1>6, ReadWritten DEF Write
<1> HIDE DEF dk2
<1>9. /\ Entries(dk2) = Entries(dk) \union {e} /\ InodeAt(dk2, e) = ino
      /\ \A p \in Entries(dk) : InodeAt(dk2, p) = InodeAt(dk, p)
  <2>1. InodeInTable(e)
      BY <1>3 DEF InodeInTable
  <2>2. InodeAt(dk2, e) = ino
      BY <1>7 DEF PutAt
  <2> QED
      BY <1>3, <1>5, <1>7, <2>1, <2>2, PutEntries
<1>10. DataSame(dk, dk2) /\ SuperblockOf(dk2) = SuperblockOf(dk)
    BY <1>3, <1>7, PutData DEF SuperblockOf
<1>11. Same(dk, dk2, Entries(dk))
    BY <1>2, <1>9, <1>10, DataSameSame DEF Separate
<1>12. Separate(dk2, Entries(dk))
    BY <1>2, <1>11, SameSeparate
<1>13. fr'.entry = e /\ fr'.block = block /\ fr'.image = image
    BY DEF NoFrame
<1>14. Entries(dk2) \ {fr'.entry} = Entries(dk)
    BY <1>3, <1>9, <1>13
<1>15. pc' \in Makes
    BY DEF Makes
<1>16. Geometries' /\ FilesSeparate' /\ Here' = dk2 /\ Mine' = Entries(dk)
  <2>1. Separate(dk2, Entries(dk2) \ (IF pc' \in Makes THEN {fr'.entry} ELSE {}))
      BY <1>12, <1>14, <1>15
  <2>2. pc # "off" /\ IsSuperblock(SuperblockOf(dk2)) /\ lab' \in DataArea /\ IsSuperblock(sb')
      BY <1>1, <1>4, <1>10
  <2>3. /\ Geometries' /\ FilesSeparate' /\ Here' = dk2
        /\ Mine' = Entries(dk2) \ (IF pc' \in Makes THEN {fr'.entry} ELSE {})
      BY <1>8, <2>1, <2>2, DriveStep
  <2> QED
      BY <1>14, <1>15, <2>3
<1>17. NoneNamed(dk, Entries(dk), job.name)
    BY <1>1, <1>2, LookupFacts
<1>18. ~Claimed(dk, Entries(dk), block)
  <2>1. Entries(dk) \subseteq Reached(dk, NullFiles)
      BY <1>1, ContextFacts DEF Context, EntriesShown, Formats
  <2>2. \A p \in Entries(dk) : WellFormed(dk, InodeAt(dk, p))
      BY <1>2 DEF Separate
  <2>3. block # 0
      BY <1>4, DataOutside
  <2> QED
      BY <1>4, <2>1, <2>2, <2>3, FreeUnclaimed
<1>19. ~Claimed(dk2, Entries(dk), block) /\ NoneNamed(dk2, Entries(dk), job.name)
    BY <1>11, <1>17, <1>18, SameClaimed, SameNoneNamed
<1>20. InCreate'
  <2>1. /\ fr'.entry \in Entries(Here') /\ NewInode(InodeAt(Here, fr.entry))'
        /\ fr'.block \in DataArea /\ ~Held(fr.block)'
    <3>1. NewInode(InodeAt(Here, fr.entry))'
        BY <1>5, <1>9, <1>13, <1>16 DEF NewInode
    <3>2. ~Held(fr.block)'
        BY <1>13, <1>16, <1>19 DEF Held
    <3> QED
        BY <1>4, <1>9, <1>13, <1>16, <3>1, <3>2
  <2>2. NoneNamed(Here', Mine', job'.name) /\ stale'.valid # 1
      BY <1>16, <1>19
  <2>3. fr'.image = Here'[InodeSector(fr'.entry)]
      BY <1>8, <1>13, <1>16
  <2> QED
      BY <2>1, <2>2, <2>3 DEF InCreate, Makes
<1>21. FormatAlone'
  <2>1. Head(todo) # "format"
      BY <1>1
  <2> QED
      BY <1>1, <2>1, FormatKept DEF Context, Owned
<1>22. InHand' /\ InDelete' /\ InWrite' /\ InFormat'
    BY DEF InHand, InDelete, InWrite, InFormat, Deletes, Writes
<1> QED
    BY <1>16, <1>20, <1>21, <1>22 DEF Owned

LEMMA CreateParts ==
    ASSUME Create
    PROVE  /\ Calling("create") /\ UNCHANGED <<selected, drive, sb, program, bounds>>
           /\ \E info \in Lookup("create", job.name) :
                 stale' = info /\ (CreateFound(info) \/ CreateNone(info) \/ CreateNew(info))
  BY Zenon DEF Create, CreateFound, CreateNone, CreateNew, CreateInode

LEMMA OwnedCreate == Context /\ Create /\ Spared => Owned'
<1> SUFFICES ASSUME Context, Create, Spared PROVE Owned'
    OBVIOUS
<1>1. Calling("create") /\ UNCHANGED <<drive, sb, job>>
    BY CreateParts DEF program
<1>2. pc = "run" /\ todo # <<>>
    BY <1>1 DEF Calling
<1>3. lab \in DataArea /\ StartLab = lab
    BY <1>2, CallFacts
<1>4. PICK info \in Lookup("create", job.name) :
          stale' = info /\ (CreateFound(info) \/ CreateNone(info) \/ CreateNew(info))
    BY CreateParts
<1>5. CASE CreateFound(info)
  <2>1. info.valid = 1 /\ Return(1) /\ UNCHANGED <<disk, lab>>
      BY <1>5 DEF CreateFound
  <2>2. Known(Here, Mine, job.name, info)
      BY <1>2, <2>1, LookupKnown
  <2> QED
      BY <1>1, <1>2, <1>3, <1>4, <2>1, <2>2, OwnedReturn
<1>6. CASE CreateNone(info)
  <2>1. PICK value \in {0, 1} : Return(value)
      BY <1>6 DEF CreateNone
  <2>2. stale'.valid # 1 /\ UNCHANGED disk /\ lab' \in DataArea
      BY <1>3, <1>4, <1>6 DEF CreateNone
  <2> QED
      BY <1>1, <1>2, <2>1, <2>2, OwnedReturn
<1>7. CASE CreateNew(info)
  <2>1. info.valid # 1 /\ pc' = "image" /\ UNCHANGED todo
      BY <1>7 DEF CreateNew
  <2>2. PICK e \in FreeEntry(disk[drive], sb) : CreateInode(e)
      BY <1>7 DEF CreateNew
  <2> QED
      BY <1>1, <1>4, <2>1, <2>2, OwnedCreateInode
<1> QED
    BY <1>4, <1>5, <1>6, <1>7

-----------------------------------------------------------------------------
(* A step of a call that has the superblock saved.                         *)

LEMMA SavedStep ==
    ASSUME Context, pc \notin {"off", "shell", "run"} \union Makes, todo # <<>>, pc' = "run",
           lab' \in DataArea, SaveSuperblock, todo' = Tail(todo), UNCHANGED <<drive, stale, job>>
    PROVE  Owned'
<1> DEFINE s   == [sb EXCEPT !.last_allocated_block = lab']
           dk2 == WriteSector(Here, SuperblockBlock, SuperblockSector(s))
<1>1. /\ TypeOK /\ Here \in Disk /\ Mine \in SUBSET Entries(Here) /\ Separate(Here, Mine)
      /\ disk \in [Drives -> Disk]
    BY ContextFacts
<1>2. Mine = Entries(Here)
    BY DEF Mine, Settled, Here
<1>3. IsSuperblock(s)
  <2>1. sb = Geometry(Capacity, sb.last_allocated_block)
      BY CallFacts DEF IsSuperblock
  <2>2. s = Geometry(Capacity, lab') /\ s.last_allocated_block = lab'
      BY <2>1 DEF Geometry
  <2> QED
      BY <2>2 DEF IsSuperblock
<1>4. sb' = s /\ disk' = [disk EXCEPT ![drive] = dk2]
    BY DEF SaveSuperblock, Write, Here
<1> HIDE DEF s
<1>5. dk2 = WriteSector(Here, SuperblockBlock, SuperblockSector(s))
    OBVIOUS
<1> HIDE DEF dk2
<1>6. /\ SuperblockOf(dk2) = s /\ DataSame(Here, dk2) /\ Entries(dk2) = Entries(Here)
      /\ Separate(dk2, Mine) /\ \A p \in Mine : WellFormed(Here, InodeAt(Here, p))
      /\ \A p \in Mine : InodeAt(dk2, p).ptrs = InodeAt(Here, p).ptrs
    BY <1>1, <1>3, <1>5, SavedDrive
<1>7. Geometries' /\ FilesSeparate' /\ Here' = dk2 /\ Mine' = Mine
  <2>1. pc' \notin Makes /\ pc # "off"
      BY DEF Makes
  <2>2. IsSuperblock(SuperblockOf(dk2)) /\ IsSuperblock(sb')
      BY <1>3, <1>4, <1>6
  <2>3. Separate(dk2, Entries(dk2) \ (IF pc' \in Makes THEN {fr'.entry} ELSE {}))
      BY <1>2, <1>6, <2>1
  <2>4. /\ Geometries' /\ FilesSeparate' /\ Here' = dk2
        /\ Mine' = Entries(dk2) \ (IF pc' \in Makes THEN {fr'.entry} ELSE {})
      BY <1>4, <2>1, <2>2, <2>3, DriveStep
  <2> QED
      BY <1>2, <1>6, <2>1, <2>4
<1>8. FormatAlone'
    BY <1>1, FormatLeft DEF Context, Owned
<1>9. ASSUME stale'.valid = 1 PROVE Known(Here', Mine', job'.name, stale')
  <2>1. Known(Here, Mine, job.name, stale)
      BY <1>9 DEF Context, Owned, InHand, IsKnown, IsGhost, Known
  <2>2. Known(dk2, Mine, job.name, stale)
      BY <1>6, <2>1, KnownDataSame
  <2> QED
      BY <1>7, <2>2
<1> QED
    BY <1>7, <1>8, <1>9, IdleStep

(* A step that writes a block which no file claims.                        *)
LEMMA UnclaimedStep ==
    ASSUME Context, pc # "off", NEW b \in DataArea, NEW data, ~Held(b), Write(b, data),
           lab' \in DataArea, IsSuperblock(sb), UNCHANGED <<drive, sb>>,
           pc \in Makes <=> pc' \in Makes, pc \in Makes => fr'.entry = fr.entry
    PROVE  /\ Geometries' /\ FilesSeparate'
           /\ Here' = WriteSector(Here, b, data) /\ Mine' = Mine
           /\ Entries(Here') = Entries(Here)
           /\ \A p \in Entries(Here) : InodeAt(Here', p) = InodeAt(Here, p)
           /\ Same(Here, Here', Mine)
<1> DEFINE dk2 == WriteSector(Here, b, data)
<1>1. /\ Here \in Disk /\ Mine \in SUBSET Entries(Here) /\ Separate(Here, Mine)
      /\ IsSuperblock(SuperblockOf(Here))
    BY ContextFacts
<1>2. disk' = [disk EXCEPT ![drive] = dk2]
    BY DEF Write, Here
<1>3. SuperblockOf(dk2) = SuperblockOf(Here)
  <2>1. SuperblockBlock \in Sectors /\ b # SuperblockBlock
      BY DataOutside, DiskAssumption DEF Sectors
  <2> QED
      BY <2>1 DEF SuperblockOf, WriteSector
<1>4. ~Claimed(Here, Mine, b)
    BY DEF Held
<1>5. /\ Entries(dk2) = Entries(Here)
      /\ \A p \in Entries(Here) : InodeAt(dk2, p) = InodeAt(Here, p)
      /\ Same(Here, dk2, Mine)
    BY <1>1, <1>4, UnclaimedWrite
<1> HIDE DEF dk2
<1>6. Separate(dk2, Mine)
    BY <1>1, <1>5, SameSeparate
<1>7. Entries(dk2) \ (IF pc' \in Makes THEN {fr'.entry} ELSE {}) = Mine
    BY <1>5 DEF Mine, Settled, Here
<1>8. IsSuperblock(SuperblockOf(dk2)) /\ IsSuperblock(sb')
    BY <1>1, <1>3
<1>9. Separate(dk2, Entries(dk2) \ (IF pc' \in Makes THEN {fr'.entry} ELSE {}))
    BY <1>6, <1>7
<1>10. Geometries' /\ FilesSeparate' /\ Here' = dk2 /\ Mine' = Mine
    BY <1>2, <1>7, <1>8, <1>9, DriveStep
<1> QED
    BY <1>5, <1>10 DEF dk2

-----------------------------------------------------------------------------
(* file_create, its blocks.                                                *)

(* The sector of an inode does not look like an empty block.               *)
LEMMA InodeNotEmpty ==
    ASSUME NEW dk \in Disk, NEW e \in Entries(dk)
    PROVE  ~LooksEmpty(dk[InodeSector(e)])
<1>1. e \in Positions /\ IsInode(e) /\ ValidAt(dk, e) = 1
    BY EntryFacts
<1>2. 0 \in 0 .. InodeWords - 1 /\ 1 \in 0 .. InodeWords - 1
    BY InodeWordsSum
<1>3. InodeCell(e) \in Nat /\ InodeCell(e) + 1 \in Cells
    BY <1>1, <1>2, PositionPlace, InodeCellType
<1>4. InodeCell(e) \in Cells /\ InodeCell(e) < WordsPerSector - 1
    BY <1>3, DiskAssumption DEF Cells
<1> QED
    BY <1>1, <1>4 DEF LooksEmpty, ValidAt

LEMMA MakesFacts ==
    ASSUME Context, pc \in Makes
    PROVE  /\ fr.entry \in Entries(Here) /\ NewInode(InodeAt(Here, fr.entry))
           /\ fr.block \in DataArea /\ ~Held(fr.block)
           /\ NoneNamed(Here, Mine, job.name) /\ stale.valid # 1
           /\ Mine = Entries(Here) \ {fr.entry}
           /\ lab \in DataArea /\ IsSuperblock(sb) /\ pc \notin {"off", "shell"}
<1>1. pc \notin {"off", "shell"}
    BY DEF Makes
<1>2. Mine = Entries(Here) \ {fr.entry}
    BY DEF Mine, Settled, Here
<1> QED
    BY <1>1, <1>2, CallFacts DEF Context, Owned, InCreate

(* A step that goes on making the file.                                    *)
LEMMA MakingStep ==
    ASSUME Context, pc \in Makes, NEW data, Write(fr.block, data), pc' \in Makes,
           UNCHANGED <<drive, sb, stale, todo, job>>, lab' \in DataArea,
           fr'.entry = fr.entry, fr'.block = fr.block
    PROVE  /\ Geometries' /\ FilesSeparate' /\ FormatAlone'
           /\ Here' = WriteSector(Here, fr.block, data) /\ Mine' = Mine
           /\ Entries(Here') = Entries(Here) /\ Same(Here, Here', Mine)
           /\ fr'.entry \in Entries(Here') /\ NewInode(InodeAt(Here, fr.entry))'
           /\ fr'.block \in DataArea /\ ~Held(fr.block)'
           /\ NoneNamed(Here', Mine', job'.name) /\ stale'.valid # 1
           /\ InHand' /\ InDelete' /\ InWrite' /\ InFormat'
<1>1. /\ fr.entry \in Entries(Here) /\ NewInode(InodeAt(Here, fr.entry))
      /\ fr.block \in DataArea /\ ~Held(fr.block)
      /\ NoneNamed(Here, Mine, job.name) /\ stale.valid # 1
      /\ IsSuperblock(sb) /\ pc # "off"
    BY MakesFacts
<1>2. /\ Geometries' /\ FilesSeparate'
      /\ Here' = WriteSector(Here, fr.block, data) /\ Mine' = Mine
      /\ Entries(Here') = Entries(Here)
      /\ \A p \in Entries(Here) : InodeAt(Here', p) = InodeAt(Here, p)
      /\ Same(Here, Here', Mine)
    BY <1>1, UnclaimedStep
<1>3. NewInode(InodeAt(Here, fr.entry))'
    BY <1>1, <1>2 DEF NewInode
<1>4. ~Held(fr.block)' /\ NoneNamed(Here', Mine', job'.name)
    BY <1>1, <1>2, SameClaimed, SameNoneNamed DEF Held
<1>5. FormatAlone'
    BY FormatKept DEF Context, Owned
<1>6. InHand' /\ InDelete' /\ InWrite' /\ InFormat'
    BY <1>1 DEF InHand, InDelete, InWrite, InFormat, Makes, Deletes, Writes
<1> QED
    BY <1>1, <1>2, <1>3, <1>4, <1>5, <1>6

LEMMA OwnedCreateImage == Context /\ CreateImage /\ Spared => Owned'
<1> SUFFICES ASSUME Context, CreateImage, Spared PROVE Owned'
    OBVIOUS
<1> DEFINE dk2 == disk'[drive]
<1>1. /\ pc = "image" /\ pc' = "zero" /\ Write(fr.block, fr.image)
      /\ fr' = [fr EXCEPT !.block2 = Allocate(dk2, sb, lab)]
      /\ lab' = Cursor(dk2, sb, lab) /\ UNCHANGED <<drive, sb, stale, todo, job>>
    BY DEF CreateImage, program
<1>2. /\ Here \in Disk /\ drive \in Drives /\ disk \in [Drives -> Disk] /\ TypeOK
      /\ Mine \in SUBSET Entries(Here)
    BY ContextFacts
<1>3. /\ fr.entry \in Entries(Here) /\ fr.block \in DataArea
      /\ lab \in DataArea /\ IsSuperblock(sb)
    BY <1>1, MakesFacts DEF Makes
<1>4. dk2 = WriteSector(Here, fr.block, fr.image)
    BY <1>1, <1>2 DEF Write, Here
<1> HIDE DEF dk2
<1>5. FreeBlocks(dk2, sb, lab) # {}
    BY <1>1 DEF Spared, BlockFound, dk2
<1>6. /\ Allocate(dk2, sb, lab) \in DataArea
      /\ LooksEmpty(ReadSector(dk2, Allocate(dk2, sb, lab)))
      /\ Allocate(dk2, sb, lab) \notin PointedTo(dk2)
      /\ Cursor(dk2, sb, lab) = Allocate(dk2, sb, lab)
    BY <1>3, <1>5, Allocated
<1>7. /\ fr'.entry = fr.entry /\ fr'.block = fr.block /\ fr'.image = fr.image
      /\ fr'.block2 = Allocate(dk2, sb, lab) /\ lab' = fr'.block2
  <2>1. fr \in Frame
      BY <1>2 DEF TypeOK
  <2> QED
      BY <1>1, <1>6, <2>1 DEF Frame, dk2
<1>8. /\ Geometries' /\ FilesSeparate' /\ FormatAlone'
      /\ Here' = dk2 /\ Mine' = Mine
      /\ Entries(Here') = Entries(Here)
      /\ fr'.entry \in Entries(Here') /\ NewInode(InodeAt(Here, fr.entry))'
      /\ fr'.block \in DataArea /\ ~Held(fr.block)'
      /\ NoneNamed(Here', Mine', job'.name) /\ stale'.valid # 1
      /\ InHand' /\ InDelete' /\ InWrite' /\ InFormat'
  <2>1. lab' \in DataArea /\ pc \in Makes /\ pc' \in Makes
      BY <1>1, <1>6, <1>7 DEF Makes
  <2> QED
      BY <1>1, <1>4, <1>7, <2>1, MakingStep
<1>9. fr'.block2 # fr'.block
  <2>1. fr.image = Here[InodeSector(fr.entry)]
      BY <1>1 DEF Context, Owned, InCreate
  <2>2. fr.block \in Sectors
      BY <1>3, DataOutside
  <2>3. ReadSector(dk2, fr.block) = fr.image
      BY <1>2, <1>4, <2>2, ReadWritten
  <2> QED
      BY <1>2, <1>3, <1>6, <1>7, <2>1, <2>3, InodeNotEmpty
<1>10. ~Held(fr.block2)'
  <2>1. Mine \subseteq Reached(dk2, NullFiles)
    <3>1. Entries(disk'[drive]) \subseteq Reached(disk'[drive], NullFiles)
        BY <1>1, <1>2 DEF Spared, EntriesShown, Formats
    <3> QED
        BY <1>2, <1>8, <3>1 DEF dk2
  <2>2. \A p \in Mine : WellFormed(dk2, InodeAt(dk2, p))
    <3>1. Separate(Here', Mine')
        BY <1>1, <1>2, <1>8 DEF FilesSeparate, Here, Mine
    <3> QED
        BY <1>8, <3>1 DEF Separate
  <2>3. fr'.block2 # 0
      BY <1>6, <1>7, DataOutside
  <2>4. ~Claimed(dk2, Mine, fr'.block2)
      BY <1>6, <1>7, <2>1, <2>2, <2>3, FreeUnclaimed
  <2> QED
      BY <1>8, <2>4 DEF Held
<1>11. InCreate'
    BY <1>1, <1>6, <1>7, <1>8, <1>9, <1>10 DEF InCreate, Makes
<1> QED
    BY <1>8, <1>11 DEF Owned

LEMMA OwnedCreateBlock == Context /\ (CreateZero \/ CreatePointer) => Owned'
<1> SUFFICES ASSUME Context, CreateZero \/ CreatePointer PROVE Owned'
    OBVIOUS
<1>1. /\ pc \in {"zero", "pointer"} /\ pc' \in {"pointer", "name"}
      /\ UNCHANGED <<lab, drive, sb, stale, todo, fr, job>>
    BY DEF CreateZero, CreatePointer, env, program
<1>2. PICK data : /\ Write(fr.block, data)
                  /\ pc' = "name" => data = ToSector(<<fr.block2>>)
    BY DEF CreateZero, CreatePointer
<1>3. /\ Here \in Disk /\ fr.block \in DataArea /\ ~Held(fr.block) /\ lab \in DataArea
    BY <1>1, ContextFacts, MakesFacts DEF Makes
<1>4. fr.block2 \in DataArea \ {fr.block} /\ ~Held(fr.block2)
    BY <1>1 DEF Context, Owned, InCreate, Makes
<1>5. /\ Geometries' /\ FilesSeparate' /\ FormatAlone'
      /\ Here' = WriteSector(Here, fr.block, data) /\ Mine' = Mine
      /\ Same(Here, Here', Mine)
      /\ fr'.entry \in Entries(Here') /\ NewInode(InodeAt(Here, fr.entry))'
      /\ fr'.block \in DataArea /\ ~Held(fr.block)'
      /\ NoneNamed(Here', Mine', job'.name) /\ stale'.valid # 1
      /\ InHand' /\ InDelete' /\ InWrite' /\ InFormat'
  <2>1. pc \in Makes /\ pc' \in Makes /\ lab' \in DataArea
      BY <1>1, <1>3 DEF Makes
  <2> QED
      BY <1>1, <1>2, <2>1, MakingStep
<1>6. ~Held(fr.block2)'
    BY <1>1, <1>4, <1>5, SameClaimed DEF Held
<1>7. pc' = "name" => Here'[fr'.block] = ToSector(<<fr'.block2>>)
    BY <1>1, <1>2, <1>3, <1>5, DataOutside, ReadWritten
<1>8. InCreate'
    BY <1>1, <1>4, <1>5, <1>6, <1>7 DEF InCreate, Makes
<1> QED
    BY <1>5, <1>8 DEF Owned

LEMMA OwnedCreateName == Context /\ CreateName => Owned'
<1> SUFFICES ASSUME Context, CreateName PROVE Owned'
    OBVIOUS
<1> DEFINE dk2 == WriteSector(Here, fr.block2, ToSector(job.name))
           e   == fr.entry
<1>1. /\ pc = "name" /\ pc' = "created" /\ Write(fr.block2, ToSector(job.name))
      /\ UNCHANGED <<lab, drive, sb, stale, todo, fr, job>>
    BY DEF CreateName, env, program
<1>2. /\ Here \in Disk /\ Mine \in SUBSET Entries(Here) /\ Separate(Here, Mine)
      /\ IsSuperblock(SuperblockOf(Here)) /\ job.name \in Seq(Nat) /\ IsName(job.name)
    BY ContextFacts
<1>3. /\ e \in Entries(Here) /\ NewInode(InodeAt(Here, e)) /\ fr.block \in DataArea
      /\ ~Held(fr.block) /\ NoneNamed(Here, Mine, job.name) /\ stale.valid # 1
      /\ Mine = Entries(Here) \ {e} /\ lab \in DataArea /\ IsSuperblock(sb)
    BY <1>1, MakesFacts DEF Makes
<1>4. /\ fr.block2 \in DataArea /\ fr.block2 # fr.block /\ ~Held(fr.block2)
      /\ Here[fr.block] = ToSector(<<fr.block2>>)
    BY <1>1 DEF Context, Owned, InCreate, Makes
<1>5. disk' = [disk EXCEPT ![drive] = dk2]
    BY <1>1 DEF Write, Here
<1>6. /\ Entries(dk2) = Entries(Here)
      /\ \A p \in Entries(Here) : InodeAt(dk2, p) = InodeAt(Here, p)
      /\ Same(Here, dk2, Mine)
    BY <1>2, <1>4, UnclaimedWrite DEF Held
<1>7. dk2 \in Disk
  <2>1. ToSector(job.name) \in Sector
      BY <1>2, ToSectorType
  <2> QED
      BY <1>2, <2>1, WriteSectorType
<1>8. fr.block2 \in Sectors /\ fr.block \in Sectors /\ fr.block2 # SuperblockBlock
    BY <1>3, <1>4, DataOutside
<1>9. dk2[fr.block2] = ToSector(job.name) /\ dk2[fr.block] = ToSector(<<fr.block2>>)
  <2>1. dk2[fr.block] = Here[fr.block]
      BY <1>4, <1>8 DEF WriteSector
  <2> QED
      BY <1>2, <1>4, <1>8, <2>1, ReadWritten
<1>10. SuperblockOf(dk2) = SuperblockOf(Here)
  <2>1. SuperblockBlock \in Sectors
      BY DiskAssumption DEF Sectors
  <2> QED
      BY <1>8, <2>1 DEF SuperblockOf, WriteSector
<1> HIDE DEF dk2
<1>11. Separate(dk2, Mine \union {e})
  <2>1. Separate(dk2, Mine)
      BY <1>2, <1>6, SameSeparate
  <2>2. ~Claimed(dk2, Mine, fr.block) /\ ~Claimed(dk2, Mine, fr.block2)
      BY <1>3, <1>4, <1>6, SameClaimed DEF Held
  <2>3. NoneNamed(dk2, Mine, Prefix(dk2[fr.block2]))
      BY <1>2, <1>3, <1>6, <1>9, SameNoneNamed, PrefixOfName
  <2>4. InodeAt(dk2, e).ptrs = [NoInode.ptrs EXCEPT ![0] = fr.block]
      BY <1>3, <1>6 DEF NewInode
  <2> QED
      BY <1>3, <1>4, <1>7, <1>9, <2>1, <2>2, <2>3, <2>4, NewFile
<1>12. pc' \notin Makes /\ pc # "off" /\ Mine \union {e} = Entries(dk2)
    BY <1>1, <1>3, <1>6 DEF Makes
<1>13. Separate(dk2, Entries(dk2) \ (IF pc' \in Makes THEN {fr'.entry} ELSE {}))
    BY <1>11, <1>12
<1>14. Geometries' /\ FilesSeparate' /\ Here' = dk2
    BY <1>1, <1>2, <1>3, <1>5, <1>10, <1>12, <1>13, DriveStep
<1>15. NewInode(InodeAt(Here, fr.entry))'
    BY <1>1, <1>3, <1>6, <1>14 DEF NewInode
<1>16. InCreate'
    BY <1>1, <1>3, <1>6, <1>9, <1>12, <1>14, <1>15 DEF InCreate
<1>17. FormatAlone'
    BY <1>1, FormatKept DEF Context, Owned
<1>18. InHand' /\ InDelete' /\ InWrite' /\ InFormat'
    BY <1>1, <1>3 DEF InHand, InDelete, InWrite, InFormat, Deletes, Writes
<1> QED
    BY <1>14, <1>16, <1>17, <1>18 DEF Owned

LEMMA OwnedCreateSave == Context /\ CreateSave => Owned'
<1> SUFFICES ASSUME Context, CreateSave PROVE Owned'
    OBVIOUS
<1>1. /\ pc = "created" /\ lab' = lab /\ SaveSuperblock /\ Return(0)
      /\ UNCHANGED <<drive, stale, job>>
    BY DEF CreateSave, program
<1>2. todo # <<>> /\ todo' = Tail(todo) /\ pc' = "run"
    BY <1>1 DEF Return, Context, IInv, CallPending
<1>3. pc \notin {"off", "shell", "run"} \union Makes
    BY <1>1 DEF Makes
<1>4. lab \in DataArea
    BY <1>3, CallFacts
<1> QED
    BY <1>1, <1>2, <1>3, <1>4, SavedStep

-----------------------------------------------------------------------------
(* file_delete                                                             *)

(* A file whose inode is cleared leaves an inode that no file claims.      *)
LEMMA DeletedFile ==
    ASSUME Context, pc = "run", NEW call, NEW info \in Lookup(call, job.name), info.valid = 1,
           NEW dk2, dk2 = SetFileInfo(Here, job.name, NoInode)
    PROVE  /\ SuperblockOf(dk2) = SuperblockOf(Here) /\ Separate(dk2, Entries(dk2))
           /\ Ghost(dk2, Entries(dk2), job.name, info)
<1>1. /\ Here \in Disk /\ Mine \in SUBSET Entries(Here) /\ Separate(Here, Mine)
    BY ContextFacts
<1>2. Mine = Entries(Here)
    BY DEF Mine, Settled, Here, Makes
<1>3. CASE Matches(Here, job.name) = {} /\ info = stale /\ Ghost(Here, Mine, job.name, stale)
  <2>1. dk2 = Here
      BY <1>1, <1>3, UpdateNone
  <2> QED
      BY <1>1, <1>2, <1>3, <2>1
<1>4. ASSUME NEW p \in Mine, Matches(Here, job.name) = {p}, NameAt(Here, p) = job.name,
             info = InodeAt(Here, p)
      PROVE  /\ SuperblockOf(dk2) = SuperblockOf(Here) /\ Separate(dk2, Entries(dk2))
             /\ Ghost(dk2, Entries(dk2), job.name, info)
  <2> DEFINE left == Mine \ {p}
  <2>1. p \in Positions /\ IsInode(p) /\ InodeSector(p) <= TableEnd
      BY <1>1, EntryFacts
  <2>2. NoInode \in Inode /\ NoInode.valid = 0
      BY NoInodeType DEF NoInode
  <2>3. dk2 = WriteSector(Here, InodeSector(p), WithInode(Here[InodeSector(p)], p, NoInode))
      BY <1>1, <1>4, <2>1, <2>2, UpdateOne
  <2>4. PutAt(Here, dk2, p, NoInode)
      BY <1>1, <2>1, <2>2, <2>3, PutByWrite
  <2>5. Entries(dk2) = left /\ \A q \in left : InodeAt(dk2, q) = InodeAt(Here, q)
    <3>1. InodeInTable(p) /\ NoInode.valid # 1
        BY <2>1, <2>2 DEF InodeInTable
    <3>2. /\ Entries(dk2) = Entries(Here) \ {p}
          /\ \A q \in Entries(Here) : q # p => InodeAt(dk2, q) = InodeAt(Here, q)
        BY <2>4, <3>1, PutEntries
    <3> QED
        BY <1>2, <3>2
  <2>6. DataSame(Here, dk2) /\ SuperblockOf(dk2) = SuperblockOf(Here)
    <3>1. DataSame(Here, dk2) /\ dk2[SuperblockBlock] = Here[SuperblockBlock]
        BY <2>1, <2>4, PutData
    <3> QED
        BY <3>1 DEF SuperblockOf
  <2>7. left \in SUBSET Mine
      OBVIOUS
  <2>8. Ghost(Here, left, job.name, info)
      BY <1>1, <1>4, DeletedGhost
  <2> HIDE DEF left
  <2>9. Separate(Here, left)
      BY <1>1, <2>7, FewerSeparate
  <2>10. \A q \in left : WellFormed(Here, InodeAt(Here, q))
      BY <2>9 DEF Separate
  <2>11. \A q \in left : InodeAt(dk2, q).ptrs = InodeAt(Here, q).ptrs
      BY <2>5
  <2>12. Same(Here, dk2, left)
      BY <2>6, <2>10, <2>11, DataSameSame
  <2>13. Separate(dk2, left)
      BY <2>9, <2>12, SameSeparate
  <2>14. Ghost(dk2, left, job.name, info)
      BY <2>6, <2>8, <2>10, <2>11, KnownDataSame
  <2> QED
      BY <2>5, <2>6, <2>13, <2>14
<1> QED
    BY <1>3, <1>4, LookupFacts

DeleteNone(info)  == info.valid # 1 /\ Return(1) /\ UNCHANGED disk
DeleteFound(info) ==
    /\ info.valid = 1
    /\ disk' = [disk EXCEPT ![drive] = SetFileInfo(@, job.name, NoInode)]
    /\ fr' = [NoFrame EXCEPT !.info = info]
    /\ pc' = "load" /\ UNCHANGED <<ret, todo>>

LEMMA DeleteParts ==
    ASSUME Delete
    PROVE  /\ Calling("delete") /\ UNCHANGED <<env, drive, sb, program, bounds>>
           /\ \E info \in Lookup("delete", job.name) :
                 stale' = info /\ (DeleteNone(info) \/ DeleteFound(info))
  BY Zenon DEF Delete, DeleteNone, DeleteFound

LEMMA OwnedDelete == Context /\ Delete => Owned'
<1> SUFFICES ASSUME Context, Delete PROVE Owned'
    OBVIOUS
<1>1. Calling("delete") /\ UNCHANGED <<lab, drive, sb, job>>
    BY DeleteParts DEF program, env
<1>2. pc = "run" /\ todo # <<>> /\ Head(todo) = "delete"
    BY <1>1 DEF Calling
<1>3. lab \in DataArea /\ IsSuperblock(sb)
    BY <1>2, CallFacts
<1>4. PICK info \in Lookup("delete", job.name) :
          stale' = info /\ (DeleteNone(info) \/ DeleteFound(info))
    BY DeleteParts
<1>5. CASE DeleteNone(info)
  <2>1. stale'.valid # 1 /\ UNCHANGED disk /\ Return(1)
      BY <1>4, <1>5 DEF DeleteNone
  <2> QED
      BY <1>1, <1>2, <1>3, <2>1, OwnedReturn
<1>6. CASE DeleteFound(info)
  <2> DEFINE dk2 == SetFileInfo(Here, job.name, NoInode)
  <2>1. /\ info.valid = 1 /\ pc' = "load" /\ fr' = [NoFrame EXCEPT !.info = info] /\ todo' = todo
        /\ disk' = [disk EXCEPT ![drive] = dk2]
      BY <1>6 DEF DeleteFound, Here
  <2>2. dk2 = SetFileInfo(Here, job.name, NoInode)
      OBVIOUS
  <2> HIDE DEF dk2
  <2>3. /\ SuperblockOf(dk2) = SuperblockOf(Here) /\ Separate(dk2, Entries(dk2))
        /\ Ghost(dk2, Entries(dk2), job.name, info)
      BY <1>2, <2>1, <2>2, DeletedFile
  <2>4. pc' \notin Makes /\ pc # "off" /\ IsSuperblock(SuperblockOf(dk2))
      BY <1>2, <2>1, <2>3, ContextFacts DEF Makes
  <2>5. Separate(dk2, Entries(dk2) \ (IF pc' \in Makes THEN {fr'.entry} ELSE {}))
      BY <2>3, <2>4
  <2>6. /\ Geometries' /\ FilesSeparate' /\ Here' = dk2
        /\ Mine' = Entries(dk2) \ (IF pc' \in Makes THEN {fr'.entry} ELSE {})
      BY <1>1, <1>3, <2>1, <2>4, <2>5, DriveStep
  <2>7. IsGhost(stale)'
      BY <1>1, <1>4, <2>3, <2>4, <2>6 DEF IsGhost
  <2>8. fr'.info = info /\ fr'.i = 0 /\ fr'.least = 0
      BY <2>1 DEF NoFrame
  <2>9. InHand'
      BY <1>4, <2>1, <2>7, <2>8 DEF InHand, IsKnown, Deletes, Writes
  <2>10. InDelete' /\ InCreate' /\ InWrite' /\ InFormat'
      BY <2>1, <2>8 DEF InDelete, InCreate, InWrite, InFormat, Makes, Deletes, Writes
  <2>11. FormatAlone'
      BY <1>2, <2>1, FormatKept DEF Context, Owned
  <2> QED
      BY <2>6, <2>9, <2>10, <2>11 DEF Owned
<1> QED
    BY <1>4, <1>5, <1>6

(* A step of a call that writes nothing.                                   *)
LEMMA FrameStep ==
    ASSUME Context, pc \notin {"off", "shell"} \union Makes, pc' \notin {"off", "shell"} \union Makes,
           UNCHANGED <<disk, drive, sb, stale, todo, job>>, lab' \in DataArea
    PROVE  /\ Geometries' /\ FilesSeparate' /\ FormatAlone' /\ Here' = Here /\ Mine' = Mine
           /\ stale'.valid = 1 => IsKnown(stale)'
<1>1. IsSuperblock(sb)
    BY CallFacts
<1>2. Geometries' /\ FilesSeparate' /\ Here' = Here /\ Mine' = Mine
    BY <1>1, QuietStep
<1>3. FormatAlone'
    BY FormatKept DEF Context, Owned
<1>4. stale'.valid = 1 => IsKnown(stale)'
    BY <1>2 DEF Context, Owned, InHand, IsKnown, IsGhost
<1> QED
    BY <1>2, <1>3, <1>4

LEMMA DeletesFacts ==
    ASSUME Context, pc \in Deletes
    PROVE  /\ stale.valid = 1 /\ IsGhost(stale) /\ fr.info.ptrs = stale.ptrs
           /\ WellFormed(Here, stale) /\ fr.least \in DataArea \union {0}
           /\ lab \in DataArea /\ IsSuperblock(sb)
<1>1. pc \notin {"off", "shell"}
    BY DEF Deletes
<1> QED
    BY <1>1, CallFacts DEF Context, Owned, InHand, InDelete, IsGhost, Ghost

LEMMA OwnedDeleteLoad == Context /\ DeleteLoad => Owned'
<1> SUFFICES ASSUME Context, DeleteLoad PROVE Owned'
    OBVIOUS
<1> DEFINE ptr == fr.info.ptrs[fr.i]
           buf == ReadSector(Here, ptr)
<1>1. /\ pc = "load" /\ pc' = "wipe" /\ fr.i < PtrsPerInode
      /\ fr' = [fr EXCEPT !.i = @ + 1, !.buf = buf,
                          !.rest = IF ptr = 0 THEN {} ELSE PointersIn(buf)]
      /\ UNCHANGED <<disk, lab, drive, sb, stale, todo, job>>
    BY DEF DeleteLoad, Here, env, program
<1>2. /\ stale.valid = 1 /\ IsGhost(stale) /\ fr.info.ptrs = stale.ptrs
      /\ WellFormed(Here, stale) /\ fr.least \in DataArea \union {0} /\ lab \in DataArea
    BY <1>1, DeletesFacts DEF Deletes
<1>3. /\ Geometries' /\ FilesSeparate' /\ FormatAlone' /\ Here' = Here /\ Mine' = Mine
      /\ stale'.valid = 1 => IsKnown(stale)'
    BY <1>1, <1>2, FrameStep DEF Makes
<1>4. fr \in Frame /\ fr.i \in Pointers
  <2>1. fr \in Frame
      BY ContextFacts DEF TypeOK
  <2>2. fr.i \in Nat
      BY <2>1 DEF Frame
  <2> QED
      BY <1>1, <2>1, <2>2, DiskAssumption DEF Pointers
<1>5. /\ fr'.info = fr.info /\ fr'.least = fr.least /\ fr'.buf = buf
      /\ fr'.rest = IF ptr = 0 THEN {} ELSE PointersIn(buf)
    BY <1>1, <1>4 DEF Frame
<1>6. ptr # 0 => ptr \in Sectors
  <2>1. Claim(Here, stale, fr.i, -1) \in DataArea \union {0}
      BY <1>2, <1>4, PlaceFacts DEF WellFormed
  <2> QED
      BY <1>2, <2>1, PointerClaimed, DataOutside
<1>7. fr.least = 0 => fr'.rest # {}
  <2> SUFFICES ASSUME fr.least = 0 PROVE fr'.rest # {}
      OBVIOUS
  <2>1. fr.i = 0
      BY <1>1 DEF Context, Owned, InDelete
  <2>2. ptr # 0
      BY <1>2, <2>1 DEF WellFormed
  <2>3. Claim(Here, stale, fr.i, 0) # 0
      BY <1>2, <1>4, <2>2 DEF WellFormed
  <2>4. buf[0] # 0
      BY <1>2, <2>2, <2>3 DEF Claim
  <2> QED
      BY <1>5, <2>2, <2>4, PlaceFacts DEF PointersIn
<1>8. fr'.rest # {} => fr'.info.ptrs[fr.i] # 0 /\ fr'.buf = Here'[fr'.info.ptrs[fr.i]]
    BY <1>3, <1>5, <1>6 DEF ReadSector
<1>9. InDelete'
    BY <1>1, <1>2, <1>4, <1>5, <1>7, <1>8 DEF InDelete, Deletes
<1>10. IsGhost(stale)'
    BY <1>1, <1>2, <1>3 DEF IsGhost
<1>11. InHand'
    BY <1>1, <1>2, <1>3, <1>5, <1>10 DEF InHand, Deletes, Writes
<1>12. InCreate' /\ InWrite' /\ InFormat'
    BY <1>1 DEF InCreate, InWrite, InFormat, Makes, Writes
<1> QED
    BY <1>3, <1>9, <1>11, <1>12 DEF Owned

(* A block that an inode of no file claims is no file's.                   *)
LEMMA GhostBlock ==
    ASSUME NEW dk, NEW set, NEW name, NEW ino, Ghost(dk, set, name, ino),
           NEW i \in Pointers, ino.ptrs[i] # 0, NEW c \in Cells,
           NEW b, b = ReadSector(dk, ino.ptrs[i])[c], b # 0
    PROVE  /\ b \in DataArea /\ ~Claimed(dk, set, b)
           /\ \A j \in Pointers : ino.ptrs[j] # b
<1>1. c \in Places /\ c # -1
    BY PlaceFacts
<1>2. Claim(dk, ino, i, c) = b
    BY <1>1 DEF Claim
<1>3. b \in DataArea \union {0}
    BY <1>1, <1>2 DEF Ghost, WellFormed
<1>4. ~Claimed(dk, set, b)
    BY <1>1, <1>2 DEF Ghost
<1>5. ASSUME NEW j \in Pointers, ino.ptrs[j] = b PROVE FALSE
    BY <1>2, <1>5 DEF Ghost
<1> QED
    BY <1>3, <1>4, <1>5

LEMMA OwnedDeleteWipe == Context /\ DeleteWipe => Owned'
<1> SUFFICES ASSUME Context, DeleteWipe PROVE Owned'
    OBVIOUS
<1>1. pc = "wipe" /\ UNCHANGED <<lab, drive, sb, stale, todo, job>>
    BY DEF DeleteWipe, env, program
<1>2. /\ stale.valid = 1 /\ IsGhost(stale) /\ fr.info.ptrs = stale.ptrs
      /\ WellFormed(Here, stale) /\ fr.least \in DataArea \union {0}
      /\ lab \in DataArea /\ IsSuperblock(sb)
    BY <1>1, DeletesFacts DEF Deletes
<1>3. /\ Here \in Disk /\ drive \in Drives /\ disk \in [Drives -> Disk] /\ TypeOK
      /\ fr \in Frame /\ fr.rest \in SUBSET Cells
  <2>1. Here \in Disk /\ drive \in Drives /\ disk \in [Drives -> Disk] /\ TypeOK
      BY ContextFacts
  <2> QED
      BY <2>1 DEF TypeOK, Frame
<1>4. CASE fr.rest = {} /\ pc' = "load" /\ UNCHANGED <<disk, fr>>
  <2>1. /\ Geometries' /\ FilesSeparate' /\ FormatAlone' /\ Here' = Here /\ Mine' = Mine
        /\ stale'.valid = 1 => IsKnown(stale)'
      BY <1>1, <1>2, <1>4, FrameStep DEF Makes
  <2>2. fr.least # 0
      BY <1>1, <1>4 DEF Context, Owned, InDelete
  <2>3. IsGhost(stale)'
      BY <1>1, <1>2, <2>1 DEF IsGhost
  <2>4. InHand' /\ InDelete'
      BY <1>1, <1>2, <1>4, <2>1, <2>2, <2>3 DEF InHand, InDelete, Deletes, Writes
  <2>5. InCreate' /\ InWrite' /\ InFormat'
      BY <1>4 DEF InCreate, InWrite, InFormat, Makes, Writes
  <2> QED
      BY <2>1, <2>4, <2>5 DEF Owned
<1>5. ASSUME NEW c \in fr.rest, Write(fr.buf[c], ZeroSector), pc' = pc,
             fr' = [fr EXCEPT !.rest = @ \ {c}, !.least = Least(@, fr.buf[c])]
      PROVE  Owned'
  <2> DEFINE b == fr.buf[c]
  <2>1. PICK i \in Pointers : fr.info.ptrs[i] # 0 /\ fr.buf = Here[fr.info.ptrs[i]]
      BY <1>1, <1>5 DEF Context, Owned, InDelete
  <2>2. b # 0
      BY <1>1, <1>5 DEF Context, IInv, PlacesSet
  <2>3. stale.ptrs[i] # 0 /\ b = ReadSector(Here, stale.ptrs[i])[c]
    <3>1. Claim(Here, stale, i, -1) \in DataArea \union {0}
        BY <1>2, PlaceFacts DEF WellFormed
    <3>2. stale.ptrs[i] \in Sectors
        BY <1>2, <2>1, <3>1, PointerClaimed, DataOutside
    <3> QED
        BY <1>2, <2>1, <3>2 DEF ReadSector
  <2>4. b \in DataArea /\ ~Held(b) /\ \A j \in Pointers : stale.ptrs[j] # b
    <3>1. c \in Cells /\ Ghost(Here, Mine, job.name, stale)
        BY <1>2, <1>3 DEF IsGhost
    <3> QED
        BY <2>2, <2>3, <3>1, GhostBlock DEF Held
  <2>5. /\ fr'.info = fr.info /\ fr'.buf = fr.buf /\ fr'.least = Least(fr.least, b)
      BY <1>3, <1>5 DEF Frame
  <2> HIDE DEF b
  <2>6. /\ Geometries' /\ FilesSeparate'
        /\ Here' = WriteSector(Here, b, ZeroSector) /\ Mine' = Mine
        /\ Same(Here, Here', Mine)
    <3>1. pc # "off" /\ (pc \in Makes <=> pc' \in Makes) /\ pc \notin Makes
        BY <1>1, <1>5 DEF Makes
    <3>2. Write(b, ZeroSector)
        BY <1>5 DEF b
    <3> QED
        BY <1>1, <1>2, <2>4, <3>1, <3>2, UnclaimedStep
  <2>7. IsGhost(stale)'
    <3>1. Alike(Here, Here', stale)
        BY <1>3, <2>4, <2>6, AlikeWrite
    <3>2. Ghost(Here', Mine, job.name, stale)
        BY <1>2, <2>6, <3>1, SameGhost DEF IsGhost
    <3> QED
        BY <1>1, <2>6, <3>2 DEF IsGhost
  <2>8. fr'.least \in DataArea /\ fr'.least # 0
      BY <1>2, <2>4, <2>5, DataOutside DEF Least
  <2>9. fr'.info.ptrs[i] # 0 /\ fr'.buf = Here'[fr'.info.ptrs[i]]
    <3>1. fr.info.ptrs[i] # b
        BY <1>2, <2>4
    <3>2. fr.info.ptrs[i] \in Sectors
      <4>1. Claim(Here, stale, i, -1) \in DataArea \union {0}
          BY <1>2, PlaceFacts DEF WellFormed
      <4> QED
          BY <1>2, <2>1, <4>1, PointerClaimed, DataOutside
    <3>3. Here'[fr.info.ptrs[i]] = Here[fr.info.ptrs[i]]
        BY <2>6, <3>1, <3>2 DEF WriteSector
    <3> QED
        BY <2>1, <2>5, <3>3
  <2>10. InHand' /\ InDelete'
      BY <1>1, <1>2, <1>5, <2>5, <2>7, <2>8, <2>9
      DEF InHand, InDelete, IsKnown, Deletes, Writes
  <2>11. InCreate' /\ InWrite' /\ InFormat'
      BY <1>1, <1>5 DEF InCreate, InWrite, InFormat, Makes, Writes
  <2>12. FormatAlone'
      BY <1>1, FormatKept DEF Context, Owned
  <2> QED
      BY <2>6, <2>10, <2>11, <2>12 DEF Owned
<1> QED
    BY <1>4, <1>5 DEF DeleteWipe

LEMMA OwnedDeleteSave == Context /\ DeleteSave => Owned'
<1> SUFFICES ASSUME Context, DeleteSave PROVE Owned'
    OBVIOUS
<1>1. /\ pc = "load" /\ fr.i = PtrsPerInode /\ lab' = fr.least /\ SaveSuperblock /\ Return(0)
      /\ UNCHANGED <<drive, stale, job>>
    BY DEF DeleteSave, program
<1>2. todo # <<>> /\ todo' = Tail(todo) /\ pc' = "run"
    BY <1>1 DEF Return, Context, IInv, CallPending
<1>3. pc \notin {"off", "shell", "run"} \union Makes
    BY <1>1 DEF Makes
<1>4. lab' \in DataArea
  <2>1. fr.least \in DataArea \union {0}
      BY <1>1, DeletesFacts DEF Deletes
  <2>2. fr.least # 0
    <3>1. PtrsPerInode # 0
        BY DiskAssumption
    <3> QED
        BY <1>1, <3>1 DEF Context, Owned, InDelete
  <2> QED
      BY <1>1, <2>1, <2>2
<1> QED
    BY <1>1, <1>2, <1>3, <1>4, SavedStep

-----------------------------------------------------------------------------
(* file_write                                                              *)

LEMMA WritesFacts ==
    ASSUME Context, pc \in Writes
    PROVE  /\ Mine = Entries(Here) /\ lab \in DataArea /\ IsSuperblock(sb)
           /\ Known(Here, Mine, job.name, fr.info) /\ WellFormed(Here, fr.info)
           /\ stale.valid = 1 => fr.info.ptrs = stale.ptrs
           /\ fr \in Frame /\ fr.info \in Inode /\ fr.info.valid = 1
           /\ pc \notin {"off", "shell", "run"} \union Makes
<1>1. pc \notin {"off", "shell", "run"} \union Makes
    BY DEF Writes, Makes
<1>2. Mine = Entries(Here)
    BY <1>1 DEF Mine, Settled, Here
<1>3. /\ Known(Here, Mine, job.name, fr.info) /\ fr.info.valid = 1
      /\ stale.valid = 1 => fr.info.ptrs = stale.ptrs
    BY DEF Context, Owned, InHand, InWrite, IsKnown, IsGhost, Known
<1>4. WellFormed(Here, fr.info)
    BY <1>3, ContextFacts, KnownWellFormed
<1>5. fr \in Frame /\ fr.info \in Inode
  <2>1. fr \in Frame
      BY ContextFacts DEF TypeOK
  <2> QED
      BY <2>1 DEF Frame
<1> QED
    BY <1>1, <1>2, <1>3, <1>4, <1>5, CallFacts

(* A pointer block in use is in the data area.                             *)
LEMMA PointerPlace ==
    ASSUME NEW dk, NEW ino, WellFormed(dk, ino), NEW i \in Pointers, ino.ptrs[i] # 0
    PROVE  ino.ptrs[i] \in DataArea /\ ReadSector(dk, ino.ptrs[i]) = dk[ino.ptrs[i]]
<1>1. Claim(dk, ino, i, -1) \in DataArea \union {0}
    BY PlaceFacts DEF WellFormed
<1>2. ino.ptrs[i] \in DataArea
    BY <1>1, PointerClaimed
<1> QED
    BY <1>2, DataOutside DEF ReadSector

(* A step of file_write that leaves the drive as dk2.                      *)
LEMMA WriteStep ==
    ASSUME Context, pc \in Writes, pc' \in Writes, NEW dk2, disk' = [disk EXCEPT ![drive] = dk2],
           SuperblockOf(dk2) = SuperblockOf(Here), Entries(dk2) = Mine, Separate(dk2, Mine),
           Known(dk2, Mine, job.name, fr.info),
           fr'.info.ptrs = fr.info.ptrs, fr'.info.valid = 1,
           UNCHANGED <<drive, sb, stale, todo, job>>, lab' \in DataArea
    PROVE  Here' = dk2 /\ (InWrite' => Owned')
<1>1. pc' \notin Makes /\ pc # "off" /\ pc' \notin {"off", "shell"}
    BY DEF Writes, Makes
<1>2. IsSuperblock(SuperblockOf(dk2)) /\ IsSuperblock(sb')
    BY WritesFacts, ContextFacts
<1>3. Separate(dk2, Entries(dk2) \ (IF pc' \in Makes THEN {fr'.entry} ELSE {}))
    BY <1>1
<1>4. /\ Geometries' /\ FilesSeparate' /\ Here' = dk2
      /\ Mine' = Entries(dk2) \ (IF pc' \in Makes THEN {fr'.entry} ELSE {})
    BY <1>1, <1>2, <1>3, DriveStep
<1>5. Mine' = Mine
    BY <1>1, <1>4
<1>6. Known(Here', Mine', job'.name, fr'.info)
    BY <1>4, <1>5, KnownPointers
<1>7. stale'.valid = 1 => fr'.info.ptrs = stale'.ptrs
    BY WritesFacts
<1>8. stale'.valid = 1 => Known(Here', Mine', job'.name, stale')
    BY <1>4, <1>5, <1>7, KnownPointers
<1>9. InHand'
    BY <1>1, <1>6, <1>7, <1>8 DEF InHand, IsKnown, IsGhost, Known, Deletes, Writes
<1>10. InCreate' /\ InDelete' /\ InFormat'
    BY DEF InCreate, InDelete, InFormat, Makes, Deletes, Writes
<1>11. FormatAlone'
    BY FormatKept DEF Context, Owned
<1> QED
    BY <1>4, <1>9, <1>10, <1>11 DEF Owned

(* One that writes nothing.                                                *)
LEMMA WriteQuiet ==
    ASSUME Context, pc \in Writes, pc' \in Writes, UNCHANGED <<disk, drive, sb, stale, todo, job>>,
           lab' \in DataArea, fr'.info = fr.info
    PROVE  Here' = Here /\ (InWrite' => Owned')
<1>1. disk' = [disk EXCEPT ![drive] = Here]
    BY ContextFacts DEF Here
<1>2. Separate(Here, Mine)
    BY ContextFacts
<1>3. Entries(Here) = Mine /\ Known(Here, Mine, job.name, fr.info) /\ fr.info.valid = 1
    BY WritesFacts
<1> QED
    BY <1>1, <1>2, <1>3, WriteStep

WriteNone(info)  == info.valid # 1 /\ Return(0) /\ UNCHANGED lab
WriteFound(info) ==
    /\ info.valid = 1
    /\ lab' = StartLab
    /\ fr' = [NoFrame EXCEPT !.info = info, !.left = wsize]
    /\ pc' = "pointers" /\ UNCHANGED <<ret, todo>>

LEMMA WriteCallParts ==
    ASSUME WriteCall
    PROVE  /\ Calling("write") /\ UNCHANGED <<disk, selected, drive, sb, stale, program, bounds>>
           /\ \E info \in Lookup("write", job.name) : WriteNone(info) \/ WriteFound(info)
  BY Zenon DEF WriteCall, WriteNone, WriteFound

LEMMA OwnedWriteCall == Context /\ WriteCall => Owned'
<1> SUFFICES ASSUME Context, WriteCall PROVE Owned'
    OBVIOUS
<1>1. Calling("write") /\ UNCHANGED <<disk, drive, sb, stale, job>>
    BY WriteCallParts DEF program
<1>2. pc = "run" /\ todo # <<>> /\ Head(todo) = "write"
    BY <1>1 DEF Calling
<1>3. lab \in DataArea /\ IsSuperblock(sb) /\ StartLab = lab
    BY <1>2, CallFacts
<1>4. stale.valid = 1 => Known(Here, Mine, job.name, stale)
    BY DEF Context, Owned, InHand, IsKnown, IsGhost, Known
<1>5. PICK info \in Lookup("write", job.name) : WriteNone(info) \/ WriteFound(info)
    BY WriteCallParts
<1>6. CASE WriteNone(info)
  <2>1. Return(0) /\ lab' = lab
      BY <1>6 DEF WriteNone
  <2>2. stale'.valid = 1 => Known(Here, Mine, job.name, stale')
      BY <1>1, <1>4
  <2> QED
      BY <1>1, <1>2, <1>3, <2>1, <2>2, OwnedReturn
<1>7. CASE WriteFound(info)
  <2>1. /\ info.valid = 1 /\ pc' = "pointers" /\ todo' = todo /\ lab' = lab
        /\ fr' = [NoFrame EXCEPT !.info = info, !.left = wsize]
      BY <1>3, <1>7 DEF WriteFound
  <2>2. fr'.info = info
      BY <2>1 DEF NoFrame
  <2>3. Known(Here, Mine, job.name, info)
      BY <1>2, <2>1, LookupKnown
  <2>4. stale.valid = 1 => info.ptrs = stale.ptrs
    <3>1. CASE info = stale
        BY <3>1
    <3>2. ASSUME NEW p \in Mine, NameAt(Here, p) = job.name, info = InodeAt(Here, p),
                 stale.valid = 1
          PROVE  info.ptrs = stale.ptrs
      <4>1. ~Ghost(Here, Mine, job.name, stale)
          BY <3>2 DEF Ghost, NoneNamed
      <4>2. PICK q \in Mine : InodeAt(Here, q).ptrs = stale.ptrs /\ NameAt(Here, q) = job.name
          BY <1>4, <3>2, <4>1 DEF Known, Found
      <4>3. q = p
          BY <3>2, <4>2, ContextFacts DEF Separate, NamedOnce
      <4> QED
          BY <3>2, <4>2, <4>3
    <3> QED
        BY <1>2, <2>1, <3>1, <3>2, LookupFacts
  <2>5. pc' \notin Makes /\ pc \notin Makes
      BY <1>2, <2>1 DEF Makes
  <2>6. Geometries' /\ FilesSeparate' /\ Here' = Here /\ Mine' = Mine
      BY <1>1, <1>3, <2>1, <2>5, QuietStep
  <2>7. InHand'
      BY <1>1, <1>4, <2>1, <2>2, <2>3, <2>4, <2>6
      DEF InHand, IsKnown, IsGhost, Known, Deletes, Writes
  <2>8. InWrite'
      BY <2>1, <2>2 DEF InWrite, Writes
  <2>9. InCreate' /\ InDelete' /\ InFormat'
      BY <2>1 DEF InCreate, InDelete, InFormat, Makes, Deletes
  <2>10. FormatAlone'
      BY <1>2, <2>1, FormatKept DEF Context, Owned
  <2> QED
      BY <2>6, <2>7, <2>8, <2>9, <2>10 DEF Owned
<1> QED
    BY <1>5, <1>6, <1>7

LEMMA OwnedWritePointer == Context /\ (WritePointer \/ WriteNextPointer) => Owned'
<1> SUFFICES ASSUME Context, WritePointer \/ WriteNextPointer PROVE Owned'
    OBVIOUS
<1>1. pc \in {"pointers", "blocks"} /\ UNCHANGED <<disk, lab, drive, sb, stale, todo, job>>
    BY DEF WritePointer, WriteNextPointer, env, program
<1>2. /\ lab \in DataArea /\ WellFormed(Here, fr.info) /\ fr \in Frame /\ fr.info.valid = 1
      /\ fr.i \in Nat
    BY <1>1, WritesFacts DEF Writes, Frame
<1>3. pc' \in {"pointers", "blocks", "size"} /\ fr'.info = fr.info
    BY <1>1, <1>2 DEF WritePointer, WriteNextPointer, Frame
<1>4. Here' = Here /\ (InWrite' => Owned')
    BY <1>1, <1>2, <1>3, WriteQuiet DEF Writes
<1>5. ASSUME pc' = "blocks"
      PROVE  fr'.i \in Pointers /\ fr'.info.ptrs[fr'.i] # 0 /\ fr'.buf = Here[fr'.info.ptrs[fr'.i]]
  <2>1. /\ pc = "pointers" /\ fr.i # PtrsPerInode /\ fr.info.ptrs[fr.i] # 0
        /\ fr' = [fr EXCEPT !.j = 0, !.buf = ReadSector(Here, fr.info.ptrs[fr.i])]
      BY <1>5 DEF WritePointer, WriteNextPointer, Here
  <2>2. fr.i \in Pointers
    <3>1. fr.i <= PtrsPerInode
        BY <2>1 DEF Context, IInv, PlacesSet
    <3> QED
        BY <1>2, <2>1, <3>1, DiskAssumption DEF Pointers
  <2>3. fr'.i = fr.i /\ fr'.buf = ReadSector(Here, fr.info.ptrs[fr.i])
      BY <1>2, <2>1 DEF Frame
  <2> QED
      BY <1>2, <1>3, <2>1, <2>2, <2>3, PointerPlace
<1>6. InWrite'
    BY <1>2, <1>3, <1>4, <1>5 DEF InWrite
<1> QED
    BY <1>4, <1>6

(* What the loops of file_write have in hand.                              *)
LEMMA LoopFacts ==
    ASSUME Context, pc \in {"blocks", "data"}
    PROVE  /\ pc \in Writes /\ fr.i \in Pointers /\ fr.info.ptrs[fr.i] # 0
           /\ fr.info.ptrs[fr.i] \in DataArea /\ fr.buf = Here[fr.info.ptrs[fr.i]]
           /\ fr.buf \in Sector
           /\ \A c \in Cells : fr.buf[c] = Claim(Here, fr.info, fr.i, c)
           /\ \A c \in Cells : fr.buf[c] # 0 => fr.buf[c] \in DataArea
<1>1. pc \in Writes
    BY DEF Writes
<1>2. fr.i \in Pointers /\ fr.info.ptrs[fr.i] # 0 /\ fr.buf = Here[fr.info.ptrs[fr.i]]
    BY DEF Context, Owned, InWrite
<1>3. WellFormed(Here, fr.info) /\ fr.buf \in Sector
    BY <1>1, WritesFacts DEF Frame
<1>4. /\ fr.info.ptrs[fr.i] \in DataArea
      /\ ReadSector(Here, fr.info.ptrs[fr.i]) = Here[fr.info.ptrs[fr.i]]
    BY <1>2, <1>3, PointerPlace
<1>5. ASSUME NEW c \in Cells
      PROVE  /\ fr.buf[c] = Claim(Here, fr.info, fr.i, c)
             /\ fr.buf[c] # 0 => fr.buf[c] \in DataArea
  <2>1. c \in Places /\ c # -1
      BY PlaceFacts
  <2>2. fr.buf[c] = Claim(Here, fr.info, fr.i, c)
      BY <1>2, <1>4, <2>1 DEF Claim
  <2>3. Claim(Here, fr.info, fr.i, c) \in DataArea \union {0}
      BY <1>2, <1>3, <2>1 DEF WellFormed
  <2> QED
      BY <2>2, <2>3
<1> QED
    BY <1>1, <1>2, <1>3, <1>4, <1>5

(* A pointer block gets a block that was free.                             *)
LEMMA LongerStep ==
    ASSUME Context, pc = "blocks", pc' = "blocks", NEW x \in Cells, fr.buf[x] = 0,
           NEW new, new = Allocate(Here, sb, lab), FreeBlocks(Here, sb, lab) # {},
           Write(fr.info.ptrs[fr.i], [fr.buf EXCEPT ![x] = new]), lab' = Cursor(Here, sb, lab),
           UNCHANGED <<drive, sb, stale, todo, job>>,
           fr'.info = fr.info, fr'.i = fr.i, fr'.buf = [fr.buf EXCEPT ![x] = new]
    PROVE  Owned'
<1> DEFINE ptr == fr.info.ptrs[fr.i]
           dk2 == Longer(Here, ptr, x, new)
<1>1. /\ pc \in Writes /\ fr.i \in Pointers /\ ptr # 0 /\ ptr \in DataArea
      /\ fr.buf = Here[ptr] /\ fr.buf \in Sector
    BY LoopFacts
<1>2. /\ Mine = Entries(Here) /\ lab \in DataArea /\ IsSuperblock(sb)
      /\ Known(Here, Mine, job.name, fr.info) /\ WellFormed(Here, fr.info) /\ fr.info.valid = 1
    BY <1>1, WritesFacts
<1>3. /\ Here \in Disk /\ Separate(Here, Mine) /\ drive \in Drives
      /\ disk \in [Drives -> Disk] /\ Mine \in SUBSET Entries(Here)
    BY ContextFacts
<1>4. /\ new \in DataArea /\ LooksEmpty(ReadSector(Here, new)) /\ new \notin PointedTo(Here)
      /\ lab' = new
    BY <1>2, Allocated
<1>5. ~Claimed(Here, Mine, new)
  <2>1. Mine \subseteq Reached(Here, NullFiles)
      BY <1>2, <1>3 DEF Context, EntriesShown, Formats, Here
  <2>2. \A p \in Mine : WellFormed(Here, InodeAt(Here, p))
      BY <1>3 DEF Separate
  <2>3. new # 0
      BY <1>4, DataOutside
  <2> QED
      BY <1>4, <2>1, <2>2, <2>3, FreeUnclaimed
<1>6. disk' = [disk EXCEPT ![drive] = dk2]
    BY <1>1 DEF Write, Here, Longer
<1>7. /\ Entries(dk2) = Mine /\ \A p \in Mine : InodeAt(dk2, p) = InodeAt(Here, p)
    BY <1>1, <1>2, <1>3, LongerTable
<1>8. SuperblockOf(dk2) = SuperblockOf(Here)
  <2>1. SuperblockBlock \in Sectors /\ ptr # SuperblockBlock
      BY <1>1, DataOutside, DiskAssumption DEF Sectors
  <2> QED
      BY <2>1 DEF SuperblockOf, Longer, WriteSector
<1>9. Separate(dk2, Mine) /\ Known(dk2, Mine, job.name, fr.info)
  <2>1. CASE Found(Here, Mine, job.name, fr.info)
    <3>1. PICK p \in Mine : InodeAt(Here, p).ptrs = fr.info.ptrs /\ NameAt(Here, p) = job.name
        BY <2>1 DEF Found
    <3>2. ptr = InodeAt(Here, p).ptrs[fr.i] /\ Here[ptr][x] = 0
        BY <1>1, <3>1
    <3> HIDE DEF dk2
    <3>3. Separate(dk2, Mine) /\ \A q \in Mine : NameAt(dk2, q) = NameAt(Here, q)
        BY <1>1, <1>3, <1>4, <1>5, <3>2, FileLonger DEF dk2
    <3>4. Found(dk2, Mine, job.name, fr.info)
        BY <1>7, <3>1, <3>3 DEF Found
    <3> QED
        BY <3>3, <3>4 DEF Known
  <2>2. CASE Ghost(Here, Mine, job.name, fr.info)
    <3>1. new # 0
        BY <1>4, DataOutside
    <3>2. \A k \in Pointers : fr.info.ptrs[k] # new
        BY <1>2, <1>4, <3>1, EmptyNoPointer
    <3> HIDE DEF dk2
    <3>3. Same(Here, dk2, Mine) /\ Ghost(dk2, Mine, job.name, fr.info)
        BY <1>1, <1>3, <1>4, <1>5, <2>2, <3>2, GhostLonger DEF dk2
    <3> QED
        BY <1>3, <3>3, SameSeparate DEF Known
  <2> QED
      BY <1>2, <2>1, <2>2 DEF Known
<1>10. dk2[ptr] = [fr.buf EXCEPT ![x] = new]
  <2>1. ptr \in Sectors
      BY <1>1, DataOutside
  <2>2. dk2[ptr] = [Here[ptr] EXCEPT ![x] = new]
      BY <1>3, <2>1 DEF Longer, WriteSector, Disk
  <2> QED
      BY <1>1, <2>2
<1> HIDE DEF dk2
<1>11. Here' = dk2 /\ (InWrite' => Owned')
    BY <1>1, <1>2, <1>4, <1>6, <1>7, <1>8, <1>9, WriteStep
<1>12. InWrite'
    BY <1>1, <1>2, <1>10, <1>11 DEF InWrite, Writes
<1> QED
    BY <1>11, <1>12

(* What the search for a block returns.                                    *)
LEMMA AllocateFacts ==
    ASSUME Context, pc = "blocks"
    PROVE  Allocate(Here, sb, lab) # 0 /\ Cursor(Here, sb, lab) \in DataArea
<1>1. lab \in DataArea /\ IsSuperblock(sb)
    BY CallFacts
<1>2. lab \in Nat /\ sb \in Superblock
    BY <1>1, AreaFacts, SuperblockFacts
<1>3. Allocate(Here, sb, lab) # 0
    BY <1>2, AllocateNotZero
<1>4. Cursor(Here, sb, lab) \in DataArea
    BY <1>1, Allocated DEF Cursor
<1> QED
    BY <1>3, <1>4

LEMMA OwnedWriteAllocate == Context /\ WriteAllocate /\ Spared => Owned'
<1> SUFFICES ASSUME Context, WriteAllocate, Spared PROVE Owned'
    OBVIOUS
<1> DEFINE new == Allocate(Here, sb, lab)
           buf == [fr.buf EXCEPT ![fr.j] = new]
<1>1. /\ pc = "blocks" /\ fr.j < WordsPerSector /\ fr.buf[fr.j] = 0
      /\ Write(fr.info.ptrs[fr.i], buf) /\ fr' = [fr EXCEPT !.buf = buf]
      /\ lab' = Cursor(Here, sb, lab) /\ UNCHANGED <<drive, sb, stale, pc, todo, job>>
    BY DEF WriteAllocate, AtBlock, Here, program
<1>2. fr \in Frame /\ fr.buf \in Sector /\ fr.j \in Nat
    BY <1>1, WritesFacts DEF Writes, Frame
<1>3. fr.j \in Cells
    BY <1>1, <1>2, DiskAssumption DEF Cells
<1>4. new # 0
    BY <1>1, AllocateFacts
<1> HIDE DEF new
<1>5. fr'.info = fr.info /\ fr'.i = fr.i /\ fr'.buf = buf
    BY <1>1, <1>2 DEF Frame
<1>6. FreeBlocks(Here, sb, lab) # {}
  <2>1. buf[fr.j] = new
      BY <1>2, <1>3 DEF Sector
  <2>2. fr'.buf # fr.buf
      BY <1>1, <1>4, <1>5, <2>1
  <2> QED
      BY <1>1, <2>2 DEF Spared, BlockFound, Here
<1> QED
    BY <1>1, <1>3, <1>5, <1>6, LongerStep DEF new

LEMMA OwnedWriteFull == Context /\ WriteFull /\ Spared => Owned'
<1> SUFFICES ASSUME Context, WriteFull, Spared PROVE Owned'
    OBVIOUS
<1>1. /\ pc = "blocks" /\ fr.j < WordsPerSector
      /\ UNCHANGED <<drive, sb, stale, pc, todo, job>>
    BY DEF WriteFull, AtBlock, program
<1>2. /\ fr \in Frame /\ fr.buf \in Sector /\ fr.j \in Nat /\ lab \in DataArea
      /\ fr.info.valid = 1
    BY <1>1, WritesFacts DEF Writes, Frame
<1>3. /\ fr.i \in Pointers /\ fr.info.ptrs[fr.i] # 0 /\ fr.info.ptrs[fr.i] \in DataArea
      /\ fr.buf = Here[fr.info.ptrs[fr.i]] /\ pc \in Writes
    BY <1>1, LoopFacts
<1>4. ASSUME UNCHANGED disk, lab' \in DataArea, fr' = [fr EXCEPT !.j = @ + 1] PROVE Owned'
  <2>1. fr'.info = fr.info /\ fr'.i = fr.i /\ fr'.buf = fr.buf
      BY <1>2, <1>4 DEF Frame
  <2>2. Here' = Here /\ (InWrite' => Owned')
      BY <1>1, <1>3, <1>4, <2>1, WriteQuiet
  <2>3. InWrite'
      BY <1>1, <1>2, <1>3, <2>1, <2>2 DEF InWrite
  <2> QED
      BY <2>2, <2>3
<1>5. PICK beyond \in {0, 1} :
          LET next == IF fr.j = LastCell THEN beyond ELSE fr.buf[fr.j + 1]
              buf  == IF fr.j = LastCell THEN fr.buf
                      ELSE [fr.buf EXCEPT ![fr.j + 1] = Allocate(Here, sb, lab)]
          IN  IF next # 0
              THEN fr' = [fr EXCEPT !.j = @ + 1] /\ UNCHANGED <<disk, lab>>
              ELSE /\ Write(fr.info.ptrs[fr.i], buf)
                   /\ lab' = Cursor(Here, sb, lab)
                   /\ fr' = [fr EXCEPT !.j = @ + 1, !.buf = buf]
    BY Zenon DEF WriteFull, Here
<1>6. CASE fr.j = LastCell
  <2>1. CASE beyond # 0
      BY <1>2, <1>4, <1>5, <1>6, <2>1
  <2>2. CASE beyond = 0
    <3>1. /\ Write(fr.info.ptrs[fr.i], fr.buf) /\ lab' = Cursor(Here, sb, lab)
          /\ fr' = [fr EXCEPT !.j = @ + 1, !.buf = fr.buf]
        BY <1>5, <1>6, <2>2
    <3>2. fr' = [fr EXCEPT !.j = @ + 1]
        BY <1>2, <3>1 DEF Frame
    <3>3. UNCHANGED disk
      <4>1. Here \in Disk /\ disk \in [Drives -> Disk]
          BY ContextFacts
      <4>2. WriteSector(Here, fr.info.ptrs[fr.i], fr.buf) = Here
          BY <1>3, <4>1, DataOutside DEF WriteSector, Disk
      <4> QED
          BY <3>1, <4>1, <4>2 DEF Write, Here
    <3> QED
        BY <1>1, <1>4, <3>1, <3>2, <3>3, AllocateFacts
  <2> QED
      BY <2>1, <2>2
<1>7. CASE fr.j # LastCell
  <2> DEFINE x   == fr.j + 1
             new == Allocate(Here, sb, lab)
             buf == [fr.buf EXCEPT ![x] = new]
  <2>1. x \in Cells
      BY <1>1, <1>2, <1>7, DiskAssumption DEF Cells, LastCell
  <2>2. CASE fr.buf[x] # 0
      BY <1>2, <1>4, <1>5, <1>7, <2>2
  <2>3. CASE fr.buf[x] = 0
    <3>1. /\ Write(fr.info.ptrs[fr.i], buf) /\ lab' = Cursor(Here, sb, lab)
          /\ fr' = [fr EXCEPT !.j = @ + 1, !.buf = buf]
        BY <1>5, <1>7, <2>3
    <3>2. new # 0
        BY <1>1, AllocateFacts
    <3> HIDE DEF new, x
    <3>3. fr'.info = fr.info /\ fr'.i = fr.i /\ fr'.buf = buf
        BY <1>2, <3>1 DEF Frame
    <3>4. FreeBlocks(Here, sb, lab) # {}
      <4>1. buf[x] = new
          BY <1>2, <2>1 DEF Sector
      <4>2. fr'.buf # fr.buf
          BY <2>3, <3>2, <3>3, <4>1
      <4> QED
          BY <1>1, <4>2 DEF Spared, BlockFound, Here
    <3> QED
        BY <1>1, <2>1, <2>3, <3>1, <3>3, <3>4, LongerStep DEF new
  <2> QED
      BY <2>2, <2>3
<1> QED
    BY <1>6, <1>7

(* The inode of the file gets a new size, if the file has one.             *)
LEMMA InodeUpdated ==
    ASSUME Context, pc \in Writes, NEW ino \in Inode, ino.valid = 1, ino.ptrs = fr.info.ptrs,
           NEW dk2, dk2 = SetFileInfo(Here, job.name, ino)
    PROVE  /\ SuperblockOf(dk2) = SuperblockOf(Here) /\ Entries(dk2) = Mine /\ Separate(dk2, Mine)
           /\ Known(dk2, Mine, job.name, fr.info) /\ DataSame(Here, dk2)
           /\ \A q \in Mine : InodeAt(dk2, q).ptrs = InodeAt(Here, q).ptrs
<1>1. /\ Here \in Disk /\ Mine \in SUBSET Entries(Here) /\ Separate(Here, Mine)
      /\ drive \in Drives
    BY ContextFacts
<1>2. Mine = Entries(Here) /\ Known(Here, Mine, job.name, fr.info)
    BY WritesFacts
<1>3. Reached(Here, NullFiles) = Entries(Here)
    BY <1>1 DEF Context, EntriesShown, Formats, Writes, Here
<1>4. CASE Matches(Here, job.name) = {}
  <2>1. dk2 = Here
      BY <1>1, <1>4, UpdateNone
  <2>2. DataSame(Here, Here)
      BY DEF DataSame
  <2> QED
      BY <1>1, <1>2, <2>1, <2>2
<1>5. ASSUME NEW p \in Mine, Matches(Here, job.name) = {p}, NameAt(Here, p) = job.name
      PROVE  /\ SuperblockOf(dk2) = SuperblockOf(Here) /\ Entries(dk2) = Mine
             /\ Separate(dk2, Mine) /\ Known(dk2, Mine, job.name, fr.info) /\ DataSame(Here, dk2)
             /\ \A q \in Mine : InodeAt(dk2, q).ptrs = InodeAt(Here, q).ptrs
  <2>1. InodeAt(Here, p).ptrs = fr.info.ptrs
    <3>1. ~Ghost(Here, Mine, job.name, fr.info)
        BY <1>5 DEF Ghost, NoneNamed
    <3>2. PICK q \in Mine : InodeAt(Here, q).ptrs = fr.info.ptrs /\ NameAt(Here, q) = job.name
        BY <1>2, <3>1 DEF Known, Found
    <3>3. q = p
        BY <1>1, <1>5, <3>2 DEF Separate, NamedOnce
    <3> QED
        BY <3>2, <3>3
  <2>2. p \in Positions /\ IsInode(p) /\ InodeSector(p) <= TableEnd
      BY <1>1, EntryFacts
  <2>3. dk2 = WriteSector(Here, InodeSector(p), WithInode(Here[InodeSector(p)], p, ino))
      BY <1>1, <1>5, <2>2, UpdateOne
  <2>4. PutAt(Here, dk2, p, ino)
      BY <1>1, <2>2, <2>3, PutByWrite
  <2>5. Entries(dk2) = Mine /\ \A q \in Mine : InodeAt(dk2, q).ptrs = InodeAt(Here, q).ptrs
    <3>1. InodeInTable(p)
        BY <2>2 DEF InodeInTable
    <3>2. /\ Entries(dk2) = Entries(Here) \union {p}
          /\ \A q \in Entries(Here) : q # p => InodeAt(dk2, q) = InodeAt(Here, q)
        BY <2>4, <3>1, PutEntries
    <3>3. InodeAt(dk2, p) = ino
        BY <2>4 DEF PutAt
    <3> QED
        BY <1>2, <2>1, <3>2, <3>3
  <2>6. DataSame(Here, dk2) /\ SuperblockOf(dk2) = SuperblockOf(Here)
    <3>1. DataSame(Here, dk2) /\ dk2[SuperblockBlock] = Here[SuperblockBlock]
        BY <2>2, <2>4, PutData
    <3> QED
        BY <3>1 DEF SuperblockOf
  <2>7. \A q \in Mine : WellFormed(Here, InodeAt(Here, q))
      BY <1>1 DEF Separate
  <2>8. Same(Here, dk2, Mine)
      BY <2>5, <2>6, <2>7, DataSameSame
  <2>9. Separate(dk2, Mine)
      BY <1>1, <2>8, SameSeparate
  <2>10. Known(dk2, Mine, job.name, fr.info)
      BY <1>2, <2>5, <2>6, <2>7, KnownDataSame
  <2> QED
      BY <2>5, <2>6, <2>9, <2>10
<1>6. NamedOnce(Here, Entries(Here))
    BY <1>1, <1>2 DEF Separate
<1> QED
    BY <1>2, <1>3, <1>4, <1>5, <1>6, MatchesOne

LEMMA OwnedWriteFill == Context /\ WriteFill => Owned'
<1> SUFFICES ASSUME Context, WriteFill PROVE Owned'
    OBVIOUS
<1> DEFINE first == fr.i = 0 /\ fr.j = 0
           n     == FillCount(Block, first, fr.left)
           info  == [fr.info EXCEPT !.size = (@ + n) % WordRange]
           data  == Fill(Block, first, payload, fr.total, n)
           dk2   == SetFileInfo(Here, job.name, info)
<1>1. /\ pc = "blocks" /\ fr.j < WordsPerSector /\ fr.buf[fr.j] # 0 /\ pc' = "data"
      /\ fr' = [fr EXCEPT !.info = info, !.left = @ - n, !.total = @ + n, !.data = data]
      /\ disk' = [disk EXCEPT ![drive] = dk2]
      /\ UNCHANGED <<lab, drive, sb, stale, todo, job>>
    BY DEF WriteFill, AtBlock, Here, env, program
<1>2. /\ fr \in Frame /\ fr.info \in Inode /\ fr.info.valid = 1 /\ fr.j \in Nat
      /\ lab \in DataArea
    BY <1>1, WritesFacts DEF Writes, Frame
<1>3. /\ fr.i \in Pointers /\ fr.info.ptrs[fr.i] # 0 /\ fr.info.ptrs[fr.i] \in DataArea
      /\ fr.buf = Here[fr.info.ptrs[fr.i]] /\ pc \in Writes
      /\ \A c \in Cells : fr.buf[c] # 0 => fr.buf[c] \in DataArea
    BY <1>1, LoopFacts
<1>4. fr.j \in Cells
    BY <1>1, <1>2, DiskAssumption DEF Cells
<1>5. info \in Inode /\ info.valid = 1 /\ info.ptrs = fr.info.ptrs
  <2>1. n \in Nat
    <3>1. Here \in Disk /\ fr.buf[fr.j] \in DataArea
        BY <1>1, <1>3, <1>4, ContextFacts
    <3>2. Block \in Sector
        BY <3>1, DataOutside DEF Block, ReadSector, Here, Disk
    <3>3. fr.left \in Int
        BY <1>2 DEF Frame
    <3> QED
        BY <3>2, <3>3, FillCountType
  <2>2. fr.info.size \in Nat
      BY <1>2 DEF Inode
  <2> HIDE DEF n
  <2>3. (fr.info.size + n) % WordRange \in Nat
      BY <2>1, <2>2, DiskAssumption
  <2> QED
      BY <1>2, <2>3 DEF Inode
<1>6. first => Prefix(data) = Prefix(Block)
  <2> SUFFICES ASSUME first PROVE Prefix(data) = Prefix(Block)
      OBVIOUS
  <2> HIDE DEF n
  <2> DEFINE filled == Fill(Block, TRUE, payload, fr.total, n)
  <2>1. Holes(Block, first) = Holes(Block, TRUE)
      BY DEF Holes
  <2>2. data = filled
      BY <2>1 DEF Fill
  <2>3. Prefix(filled) = Prefix(Block)
      BY FillKeepsName
  <2> HIDE DEF data, filled
  <2> QED
      BY <2>2, <2>3
<1> HIDE DEF data, info, n
<1>7. /\ fr'.info = info /\ fr'.i = fr.i /\ fr'.j = fr.j /\ fr'.buf = fr.buf /\ fr'.data = data
    BY <1>1, <1>2 DEF Frame
<1>8. dk2 = SetFileInfo(Here, job.name, info)
    OBVIOUS
<1> HIDE DEF dk2
<1>9. /\ SuperblockOf(dk2) = SuperblockOf(Here) /\ Entries(dk2) = Mine /\ Separate(dk2, Mine)
      /\ Known(dk2, Mine, job.name, fr.info) /\ DataSame(Here, dk2)
    BY <1>3, <1>5, <1>8, InodeUpdated
<1>10. Here' = dk2 /\ (InWrite' => Owned')
  <2>1. pc' \in Writes
      BY <1>1 DEF Writes
  <2>2. fr'.info.ptrs = fr.info.ptrs /\ fr'.info.valid = 1
      BY <1>5, <1>7
  <2> QED
      BY <1>1, <1>2, <1>3, <1>9, <2>1, <2>2, WriteStep
<1>11. \A b \in DataArea : dk2[b] = Here[b]
    BY <1>9, DataOutside DEF DataSame, ReadSector
<1>12. fr'.buf = Here'[fr'.info.ptrs[fr'.i]]
    BY <1>3, <1>5, <1>7, <1>10, <1>11
<1>13. fr'.i = 0 /\ fr'.j = 0 => Prefix(fr'.data) = Prefix(Here'[fr'.buf[0]])
  <2> SUFFICES ASSUME fr.i = 0, fr.j = 0 PROVE Prefix(data) = Prefix(dk2[fr.buf[0]])
      BY <1>7, <1>10
  <2>1. fr.buf[0] \in DataArea /\ dk2[fr.buf[0]] = Here[fr.buf[0]]
      BY <1>1, <1>3, <1>4, <1>11
  <2>2. Block = Here[fr.buf[0]]
      BY <2>1, DataOutside DEF Block, ReadSector, Here
  <2> QED
      BY <1>6, <2>1, <2>2
<1>14. InWrite'
    BY <1>1, <1>3, <1>4, <1>5, <1>7, <1>12, <1>13 DEF InWrite
<1> QED
    BY <1>10, <1>14

LEMMA OwnedWriteSize == Context /\ WriteSize => Owned'
<1> SUFFICES ASSUME Context, WriteSize PROVE Owned'
    OBVIOUS
<1> DEFINE info == [fr.info EXCEPT !.size = (@ + fr.left) % WordRange]
           dk2  == SetFileInfo(Here, job.name, info)
<1>1. /\ pc = "size" /\ pc' = "written" /\ disk' = [disk EXCEPT ![drive] = dk2]
      /\ UNCHANGED <<lab, drive, sb, stale, todo, fr, job>>
    BY DEF WriteSize, Here, env, program
<1>2. /\ fr \in Frame /\ fr.info \in Inode /\ fr.info.valid = 1 /\ lab \in DataArea
      /\ pc \in Writes /\ pc' \in Writes
    BY <1>1, WritesFacts DEF Writes
<1>3. info \in Inode /\ info.valid = 1 /\ info.ptrs = fr.info.ptrs
  <2>1. fr.info.size \in Nat /\ fr.left \in Int
      BY <1>2 DEF Inode, Frame
  <2>2. (fr.info.size + fr.left) % WordRange \in Nat
      BY <2>1, DiskAssumption
  <2> QED
      BY <1>2, <2>2 DEF Inode
<1>4. dk2 = SetFileInfo(Here, job.name, info)
    OBVIOUS
<1> HIDE DEF dk2, info
<1>5. /\ SuperblockOf(dk2) = SuperblockOf(Here) /\ Entries(dk2) = Mine /\ Separate(dk2, Mine)
      /\ Known(dk2, Mine, job.name, fr.info)
    BY <1>2, <1>3, <1>4, InodeUpdated
<1>6. InWrite' => Owned'
    BY <1>1, <1>2, <1>5, WriteStep
<1>7. InWrite'
    BY <1>1, <1>2 DEF InWrite
<1> QED
    BY <1>6, <1>7

LEMMA OwnedWriteSave == Context /\ WriteSave => Owned'
<1> SUFFICES ASSUME Context, WriteSave PROVE Owned'
    OBVIOUS
<1>1. /\ pc = "written" /\ lab' = lab /\ SaveSuperblock /\ Return(fr.total)
      /\ UNCHANGED <<drive, stale, job>>
    BY DEF WriteSave, program
<1>2. todo # <<>> /\ todo' = Tail(todo) /\ pc' = "run"
    BY <1>1 DEF Return, Context, IInv, CallPending
<1>3. pc \notin {"off", "shell", "run"} \union Makes /\ lab \in DataArea
    BY <1>1, WritesFacts DEF Writes
<1> QED
    BY <1>1, <1>2, <1>3, SavedStep

LEMMA OwnedWriteData == Context /\ WriteData /\ Spared => Owned'
<1> SUFFICES ASSUME Context, WriteData, Spared PROVE Owned'
    OBVIOUS
<1> DEFINE b   == fr.buf[fr.j]
           dk2 == WriteSector(Here, b, fr.data)
<1>1. /\ pc = "data" /\ disk' = [disk EXCEPT ![drive] = dk2]
      /\ UNCHANGED <<drive, sb, stale, todo, job>>
    BY DEF WriteData, Write, Here, program
<1>2. /\ lab' = lab
      /\ \/ pc' = "size" /\ fr' = fr
         \/ pc' = "blocks" /\ fr' = [fr EXCEPT !.j = @ + 1]
    BY DEF WriteData, Spared
<1>3. /\ fr \in Frame /\ fr.info \in Inode /\ fr.info.valid = 1 /\ lab \in DataArea
      /\ Mine = Entries(Here) /\ Known(Here, Mine, job.name, fr.info)
    BY <1>1, WritesFacts DEF Writes
<1>4. /\ fr.i \in Pointers /\ fr.info.ptrs[fr.i] # 0 /\ fr.info.ptrs[fr.i] \in DataArea
      /\ fr.buf = Here[fr.info.ptrs[fr.i]] /\ pc \in Writes
      /\ \A c \in Cells : fr.buf[c] = Claim(Here, fr.info, fr.i, c)
      /\ \A c \in Cells : fr.buf[c] # 0 => fr.buf[c] \in DataArea
    BY <1>1, LoopFacts
<1>5. /\ fr.j \in Cells /\ b # 0
      /\ fr.i = 0 /\ fr.j = 0 => Prefix(fr.data) = Prefix(Here[b])
    BY <1>1 DEF Context, Owned, InWrite
<1>6. b \in DataArea /\ b = Claim(Here, fr.info, fr.i, fr.j)
    BY <1>4, <1>5
<1>7. dk2 = WriteSector(Here, b, fr.data)
    OBVIOUS
<1>8. Here \in Disk /\ Mine \in SUBSET Entries(Here) /\ Separate(Here, Mine)
    BY ContextFacts
<1> HIDE DEF dk2, b
<1>9. /\ Entries(dk2) = Entries(Here) /\ Same(Here, dk2, Mine)
      /\ Known(dk2, Mine, job.name, fr.info)
      /\ \A i \in Pointers : fr.info.ptrs[i] # b
  <2>1. CASE Found(Here, Mine, job.name, fr.info)
    <3>1. PICK p \in Mine : InodeAt(Here, p).ptrs = fr.info.ptrs /\ NameAt(Here, p) = job.name
        BY <2>1 DEF Found
    <3>2. b = Claim(Here, InodeAt(Here, p), fr.i, fr.j)
        BY <1>6, <3>1, ClaimOfPointers
    <3>3. /\ Entries(dk2) = Entries(Here) /\ Same(Here, dk2, Mine)
          /\ \A q \in Mine, i \in Pointers : InodeAt(Here, q).ptrs[i] # b
        BY <1>4, <1>5, <1>6, <1>7, <1>8, <3>2, OwnWrite
    <3>4. Found(dk2, Mine, job.name, fr.info)
        BY <2>1, <3>3, SameFound
    <3> QED
        BY <3>1, <3>3, <3>4 DEF Known
  <2>2. CASE Ghost(Here, Mine, job.name, fr.info)
    <3>1. b = ReadSector(Here, fr.info.ptrs[fr.i])[fr.j]
      <4>1. fr.j \in Places /\ fr.j # -1
          BY <1>5, PlaceFacts
      <4> QED
          BY <1>4, <1>6, <4>1 DEF Claim
    <3>2. ~Claimed(Here, Mine, b) /\ \A i \in Pointers : fr.info.ptrs[i] # b
        BY <1>4, <1>5, <2>2, <3>1, GhostBlock
    <3>3. Entries(dk2) = Entries(Here) /\ Same(Here, dk2, Mine)
        BY <1>6, <1>7, <1>8, <3>2, UnclaimedWrite
    <3>4. Alike(Here, dk2, fr.info)
        BY <1>7, <1>8, <3>2, AlikeWrite
    <3>5. Ghost(dk2, Mine, job.name, fr.info)
        BY <2>2, <3>3, <3>4, SameGhost
    <3> QED
        BY <3>2, <3>3, <3>5 DEF Known
  <2> QED
      BY <1>3, <2>1, <2>2 DEF Known
<1>10. SuperblockOf(dk2) = SuperblockOf(Here)
  <2>1. SuperblockBlock \in Sectors /\ b # SuperblockBlock
      BY <1>6, DataOutside, DiskAssumption DEF Sectors
  <2> QED
      BY <1>7, <2>1 DEF SuperblockOf, WriteSector
<1>11. Separate(dk2, Mine)
    BY <1>8, <1>9, SameSeparate
<1>12. fr'.info = fr.info /\ fr'.i = fr.i /\ fr'.buf = fr.buf /\ pc' \in {"size", "blocks"}
    BY <1>2, <1>3 DEF Frame
<1>13. Here' = dk2 /\ (InWrite' => Owned')
  <2>1. pc' \in Writes
      BY <1>12 DEF Writes
  <2> QED
      BY <1>1, <1>2, <1>3, <1>4, <1>9, <1>10, <1>11, <1>12, <2>1, WriteStep
<1>14. dk2[fr.info.ptrs[fr.i]] = Here[fr.info.ptrs[fr.i]]
  <2>1. fr.info.ptrs[fr.i] \in Sectors /\ fr.info.ptrs[fr.i] # b
      BY <1>4, <1>9, DataOutside
  <2> QED
      BY <1>7, <1>8, <2>1, WriteSectorElsewhere
<1>15. InWrite'
    BY <1>3, <1>4, <1>12, <1>13, <1>14 DEF InWrite
<1> QED
    BY <1>13, <1>15

LEMMA OwnedWriteChain == Context => ~WriteChain
  BY DEF Context, Owned, InWrite, WriteChain

-----------------------------------------------------------------------------
(* format                                                                  *)

(* A step of format, after which the drive is dk2.                         *)
LEMMA FormatDrive ==
    ASSUME Context, pc \in {"run", "super", "inodes"}, pc' \in {"run", "super", "inodes"},
           NEW dk2, disk' = [disk EXCEPT ![drive] = dk2],
           IsSuperblock(SuperblockOf(dk2)), Separate(dk2, Entries(dk2)),
           IsSuperblock(sb'), lab \in DataArea, stale.valid # 1,
           UNCHANGED <<lab, drive, stale, job>>, FormatAlone', InFormat'
    PROVE  Owned'
<1>1. pc' \notin Makes /\ pc # "off"
    BY DEF Makes
<1>2. Separate(dk2, Entries(dk2) \ (IF pc' \in Makes THEN {fr'.entry} ELSE {}))
    BY <1>1
<1>3. Geometries' /\ FilesSeparate'
    BY <1>1, <1>2, DriveStep
<1>4. InCreate' /\ InHand' /\ InDelete' /\ InWrite'
    BY DEF InCreate, InHand, InDelete, InWrite, Makes, Deletes, Writes
<1> QED
    BY <1>3, <1>4 DEF Owned

LEMMA FormatFacts ==
    ASSUME Context, pc \in {"super", "inodes"} \/ Calling("format")
    PROVE  /\ pc \in {"run", "super", "inodes"} /\ stale.valid # 1 /\ todo = <<"format">>
           /\ lab \in DataArea /\ IsSuperblock(sb) /\ Mine = Entries(Here)
<1>1. todo # <<>> /\ Head(todo) = "format" /\ pc \in {"run", "super", "inodes"}
  <2>1. CASE Calling("format")
      BY <2>1 DEF Calling
  <2>2. CASE pc \in {"super", "inodes"}
      BY <2>2 DEF Context, Owned, InFormat
  <2> QED
      BY <2>1, <2>2
<1>2. Len(todo) \in Nat /\ 1 \in 1 .. Len(todo) /\ todo[1] = "format"
  <2>1. todo \in Seq(Calls)
      BY ContextFacts DEF TypeOK
  <2> QED
      BY <1>1, <2>1
<1>3. todo = <<"format">> /\ stale.valid # 1
    BY <1>2 DEF Context, Owned, FormatAlone
<1>4. lab \in DataArea /\ IsSuperblock(sb)
    BY <1>1 DEF Context, Owned, Geometries
<1>5. Mine = Entries(Here)
    BY <1>1 DEF Mine, Settled, Here, Makes
<1> QED
    BY <1>1, <1>3, <1>4, <1>5

LEMMA OwnedFormat == Context /\ Format => Owned'
<1> SUFFICES ASSUME Context, Format PROVE Owned'
    OBVIOUS
<1> DEFINE s   == SuperblockOf(Here)
           dk2 == WriteSector(Here, SuperblockBlock, SuperblockSector(s))
<1>1. /\ Calling("format") /\ pc' = "super" /\ UNCHANGED <<lab, drive, stale, todo, job>>
    BY DEF Format, env, program
<1>2. /\ pc \in {"run", "super", "inodes"} /\ stale.valid # 1
      /\ lab \in DataArea /\ Mine = Entries(Here)
    BY <1>1, FormatFacts
<1>3. Here \in Disk /\ Separate(Here, Entries(Here)) /\ IsSuperblock(s)
    BY <1>2, ContextFacts
<1>4. sb' = s /\ disk' = [disk EXCEPT ![drive] = dk2]
    BY <1>3, InitFsInUse DEF Format, Write, Here
<1>5. dk2 = WriteSector(Here, SuperblockBlock, SuperblockSector(s))
    OBVIOUS
<1> HIDE DEF s, dk2
<1>6. SuperblockOf(dk2) = s /\ Entries(dk2) = Entries(Here) /\ Separate(dk2, Entries(Here))
    BY <1>3, <1>5, SavedDrive
<1>7. FormatAlone' /\ InFormat'
    BY <1>1, FormatFacts, FormatKept DEF Context, Owned, InFormat
<1> QED
    BY <1>1, <1>2, <1>3, <1>4, <1>6, <1>7, FormatDrive

LEMMA OwnedFormatSuperblock == Context /\ FormatSuperblock => Owned'
<1> SUFFICES ASSUME Context, FormatSuperblock PROVE Owned'
    OBVIOUS
<1> DEFINE dk2 == WriteSector(Here, SuperblockBlock, SuperblockSector(sb))
<1>1. /\ pc = "super" /\ pc' = "inodes" /\ UNCHANGED <<lab, drive, sb, stale, todo, job>>
      /\ disk' = [disk EXCEPT ![drive] = dk2] /\ fr' = [fr EXCEPT !.i = 1]
    BY DEF FormatSuperblock, env, program, Write, Here
<1>2. /\ pc \in {"run", "super", "inodes"} /\ stale.valid # 1
      /\ lab \in DataArea /\ Mine = Entries(Here) /\ IsSuperblock(sb)
    BY <1>1, FormatFacts
<1>3. Here \in Disk /\ Separate(Here, Entries(Here)) /\ fr \in Frame
    BY <1>2, ContextFacts DEF TypeOK
<1>5. dk2 = WriteSector(Here, SuperblockBlock, SuperblockSector(sb))
    OBVIOUS
<1> HIDE DEF dk2
<1>6. SuperblockOf(dk2) = sb /\ Entries(dk2) = Entries(Here) /\ Separate(dk2, Entries(Here))
    BY <1>2, <1>3, <1>5, SavedDrive
<1>7. FormatAlone'
    BY <1>1, FormatKept DEF Context, Owned
<1>8. InFormat'
    BY <1>1, <1>3, FormatFacts DEF InFormat, Frame
<1> QED
    BY <1>1, <1>2, <1>3, <1>6, <1>7, <1>8, FormatDrive

(* The inode blocks that format clears are those of the table.             *)
LEMMA TablePlace ==
    ASSUME IsSuperblock(sb), lab \in DataArea, NEW i \in Nat, i # 0, i <= sb.inode_blocks
    PROVE  InTable(InodeTableSector(i)) /\ InodeTableSector(i) \in Sectors
<1>1. TableEnd = SuperblockBlock + sb.inode_blocks /\ sb.inode_blocks \in Nat
    BY SuperblockFacts DEF Superblock
<1>2. TableEnd \in Nat /\ TableEnd < DiskSectors /\ SuperblockBlock \in Nat
  <2>1. lab \in Sectors /\ lab > TableEnd /\ TableEnd \in Nat /\ lab \in Nat
      BY AreaFacts
  <2> QED
      BY <2>1, DiskAssumption DEF Sectors
<1>3. InodeTableSector(i) = SuperblockBlock + i
    BY DEF InodeTableSector
<1>4. InodeTableSector(i) \in Nat /\ InodeTableSector(i) > SuperblockBlock
      /\ InodeTableSector(i) <= TableEnd
    BY <1>1, <1>2, <1>3
<1> QED
    BY <1>2, <1>4, DiskAssumption DEF InTable, Sectors

LEMMA OwnedFormatInodes == Context /\ FormatInodes => Owned'
<1> SUFFICES ASSUME Context, FormatInodes PROVE Owned'
    OBVIOUS
<1>1. pc = "inodes" /\ UNCHANGED <<lab, drive, sb, stale, job>>
    BY DEF FormatInodes, env, program
<1>2. /\ pc \in {"run", "super", "inodes"} /\ stale.valid # 1 /\ todo = <<"format">>
      /\ lab \in DataArea /\ Mine = Entries(Here) /\ IsSuperblock(sb)
    BY <1>1, FormatFacts
<1>3. /\ Here \in Disk /\ Separate(Here, Entries(Here)) /\ fr \in Frame
      /\ disk \in [Drives -> Disk] /\ IsSuperblock(SuperblockOf(Here)) /\ TypeOK
    BY <1>2, ContextFacts DEF TypeOK
<1>4. CASE fr.i <= sb.inode_blocks
  <2> DEFINE b   == InodeTableSector(fr.i)
             dk2 == WriteSector(Here, b, ZeroSector)
  <2>1. /\ disk' = [disk EXCEPT ![drive] = dk2] /\ fr' = [fr EXCEPT !.i = @ + 1]
        /\ UNCHANGED <<pc, todo>>
      BY <1>4 DEF FormatInodes, Write, Here
  <2>2. fr.i \in Nat /\ fr.i # 0
      BY <1>1, <1>3 DEF Context, Owned, InFormat, Frame
  <2>3. InTable(b) /\ b \in Sectors
      BY <1>2, <1>4, <2>2, TablePlace
  <2>4. dk2 = WriteSector(Here, b, ZeroSector)
      OBVIOUS
  <2> HIDE DEF dk2, b
  <2>5. /\ Entries(dk2) \subseteq Entries(Here) /\ DataSame(Here, dk2)
        /\ SuperblockOf(dk2) = SuperblockOf(Here)
        /\ \A p \in Entries(dk2) : InodeAt(dk2, p) = InodeAt(Here, p)
      BY <1>3, <2>3, <2>4, TableCleared
  <2>6. Separate(Here, Entries(dk2))
      BY <1>3, <2>5, FewerSeparate
  <2>7. Separate(dk2, Entries(dk2))
    <3>1. \A p \in Entries(dk2) : WellFormed(Here, InodeAt(Here, p))
        BY <2>6 DEF Separate
    <3>2. \A p \in Entries(dk2) : InodeAt(dk2, p).ptrs = InodeAt(Here, p).ptrs
        BY <2>5
    <3>3. Same(Here, dk2, Entries(dk2))
        BY <2>5, <3>1, <3>2, DataSameSame
    <3> QED
        BY <2>6, <3>3, SameSeparate
  <2>8. FormatAlone'
      BY <1>1, <2>1, FormatKept DEF Context, Owned
  <2>9. InFormat'
    <3>1. fr'.i = fr.i + 1
        BY <1>3, <2>1 DEF Frame
    <3> QED
        BY <1>2, <2>1, <2>2, <3>1 DEF InFormat
  <2> QED
      BY <1>1, <1>2, <1>3, <2>1, <2>5, <2>7, <2>8, <2>9, FormatDrive
<1>5. CASE ~(fr.i <= sb.inode_blocks)
  <2>1. disk' = disk /\ pc' = "run" /\ todo' = Tail(todo)
      BY <1>2, <1>5 DEF FormatInodes, Return
  <2>2. disk' = [disk EXCEPT ![drive] = Here]
      BY <1>3, <2>1 DEF Here
  <2>3. FormatAlone'
      BY <1>2, <1>3, <2>1, FormatLeft DEF Context, Owned
  <2>4. InFormat'
      BY <2>1 DEF InFormat
  <2> QED
      BY <1>1, <1>2, <1>3, <2>1, <2>2, <2>3, <2>4, FormatDrive
<1> QED
    BY <1>4, <1>5

(* In a behaviour that is spared, the power holds.                         *)
LEMMA NoCrash == Context /\ Crash => ~Spared
<1> SUFFICES ASSUME Context, Crash, Spared PROVE FALSE
    OBVIOUS
<1>1. crashes \in Nat
    BY ContextFacts, ESFSAssumption DEF TypeOK
<1>2. crashes' = crashes + 1 /\ crashes' = 0
    BY DEF Crash, Spared, NoLoss
<1> QED
    BY <1>1, <1>2

-----------------------------------------------------------------------------
(* The ownership of blocks is kept by every step that is spared.           *)

LEMMA OwnedNext == Context /\ [Next /\ Spared]_vars => Owned'
<1> SUFFICES ASSUME Context, [Next /\ Spared]_vars PROVE Owned'
    OBVIOUS
<1>1. CASE UNCHANGED vars
    BY <1>1, OwnedQuiet
<1>2. CASE Next /\ Spared
  <2>1. CASE FileCreate
      BY <1>2, <2>1, OwnedCreate, OwnedCreateImage, OwnedCreateBlock, OwnedCreateName,
         OwnedCreateSave DEF FileCreate
  <2>2. CASE FileDelete
      BY <2>2, OwnedDelete, OwnedDeleteLoad, OwnedDeleteWipe, OwnedDeleteSave DEF FileDelete
  <2>3. CASE FileWrite
      BY <1>2, <2>3, OwnedWriteCall, OwnedWritePointer, OwnedWriteAllocate, OwnedWriteFull,
         OwnedWriteFill, OwnedWriteData, OwnedWriteChain, OwnedWriteSize, OwnedWriteSave
      DEF FileWrite
  <2>4. CASE FormatDisk
      BY <2>4, OwnedFormat, OwnedFormatSuperblock, OwnedFormatInodes DEF FormatDisk
  <2>5. CASE Boot \/ Exit \/ SelectDrive \/ Fetch \/ Retry \/ Look
      BY <1>2, <2>5, OwnedBoot, OwnedExit, OwnedSelectDrive, OwnedFetch, OwnedRetry, OwnedQuiet
  <2>6. CASE Crash
      BY <1>2, <2>6, NoCrash
  <2>7. CASE \E j \in Commands : Execute(j)
      BY <2>7, OwnedExecute
  <2> QED
      BY <1>2, <2>1, <2>2, <2>3, <2>4, <2>5, <2>6, <2>7 DEF Next, Step
<1> QED
    BY <1>1, <1>2

LEMMA ContextInit == Init /\ InUse /\ EntriesShown => Context
  BY InitIInv, OwnedInit DEF Context

LEMMA ContextNext == Context /\ [Next /\ Spared]_vars => Context'
<1> SUFFICES ASSUME Context, [Next /\ Spared]_vars PROVE Context'
    OBVIOUS
<1>1. IInv'
    BY NextIInv DEF Context
<1>2. Owned'
    BY OwnedNext
<1>3. EntriesShown'
    BY DEF Spared, vars, Context, EntriesShown
<1> QED
    BY <1>1, <1>2, <1>3 DEF Context

LEMMA ContextInvariance == SparedSpec => []Context
  BY ContextInit, ContextNext, PTL DEF SparedSpec

(* At every moment of every call, whatever order the calls come in and     *)
(* however many drives there are, every block of the data area is claimed  *)
(* at most once: by one file, at one place of its pointers and pointer     *)
(* blocks, or by the file that file_create is making.  The code never      *)
(* checks this: it follows from the search for a free block, which skips   *)
(* what the pointer blocks name and what looks full (fs.c:299-357), the    *)
(* first write to a new pointer block, which makes it look full            *)
(* (fs.c:402-405), and the order in which file_delete clears the inode and *)
(* the blocks (fs.c:247-286).                                              *)
THEOREM OwnershipKept == SparedSpec => []Owned
<1>1. Context => Owned
    BY DEF Context
<1> QED
    BY <1>1, ContextInvariance, PTL

-----------------------------------------------------------------------------
(* What a user sees of it.                                                 *)

(* The files of a drive at the shell are the inodes of its table.          *)
LEMMA FilesOwned ==
    ASSUME Context, AtShell, NEW d \in Drives
    PROVE  Files(d) = Entries(disk[d]) /\ Separate(disk[d], Files(d))
<1>1. Files(d) = Entries(disk[d])
    BY DEF Context, EntriesShown, AtShell, Formats, Files
<1>2. Settled(d) = Entries(disk[d])
    BY DEF AtShell, Settled, Makes
<1> QED
    BY <1>1, <1>2 DEF Context, Owned, FilesSeparate

(* The blocks of a file are what it claims.                                *)
LEMMA BlocksClaimed ==
    ASSUME NEW d, NEW p
    PROVE  /\ \A b \in PointerBlocks(disk[d], InodeAt(disk[d], p)) :
                 b # 0 /\ \E i \in Pointers : b = Claim(disk[d], InodeAt(disk[d], p), i, -1)
           /\ \A b \in DataBlocks(disk[d], InodeAt(disk[d], p)) :
                 b # 0 /\ \E i \in Pointers, c \in Cells :
                             b = Claim(disk[d], InodeAt(disk[d], p), i, c)
<1> DEFINE dk  == disk[d]
           ino == InodeAt(dk, p)
<1>1. ASSUME NEW b \in PointerBlocks(dk, ino)
      PROVE  b # 0 /\ \E i \in Pointers : ino.ptrs[i] = b
    BY <1>1 DEF PointerBlocks, Pointers
<1>2. ASSUME NEW b \in DataBlocks(dk, ino)
      PROVE  b # 0 /\ \E i \in Pointers, c \in Cells : b = Claim(dk, ino, i, c)
  <2> DEFINE words(s) == {ReadSector(dk, s)[c] : c \in Cells}
  <2>1. b \in UNION {words(s) : s \in PointerBlocks(dk, ino)} /\ b # 0
      BY <1>2 DEF DataBlocks
  <2> HIDE DEF words
  <2>2. PICK s \in PointerBlocks(dk, ino) : b \in words(s)
      BY <2>1
  <2>3. PICK c \in Cells : b = ReadSector(dk, s)[c]
      BY <2>2 DEF words
  <2>4. PICK i \in Pointers : ino.ptrs[i] = s
      BY <1>1
  <2>5. s # 0
      BY <1>1
  <2>6. c # -1
      BY PlaceFacts
  <2>7. b = Claim(dk, ino, i, c)
      BY <2>3, <2>4, <2>5, <2>6 DEF Claim
  <2> QED
      BY <2>1, <2>7
<1> HIDE DEF ino, dk
<1>3. \A i \in Pointers : Claim(dk, ino, i, -1) = ino.ptrs[i]
    BY PointerClaimed
<1>4. \A b \in PointerBlocks(dk, ino) : b # 0 /\ \E i \in Pointers : b = Claim(dk, ino, i, -1)
    BY <1>1, <1>3
<1> QED
    BY <1>2, <1>4 DEF ino, dk

LEMMA BlocksPlace ==
    ASSUME NEW d, NEW p, NEW b \in BlocksOf(d, p)
    PROVE  /\ b # 0
           /\ \E i \in Pointers, c \in Places : b = Claim(disk[d], InodeAt(disk[d], p), i, c)
<1>1. CASE b \in PointerBlocks(disk[d], InodeAt(disk[d], p))
    BY <1>1, BlocksClaimed, PlaceFacts
<1>2. CASE b \in DataBlocks(disk[d], InodeAt(disk[d], p))
    BY <1>2, BlocksClaimed, PlaceFacts
<1> QED
    BY <1>1, <1>2 DEF BlocksOf

(* Separate files share no block.                                          *)
LEMMA SeparateApart ==
    ASSUME NEW d, NEW set, Separate(disk[d], set), NEW p \in set
    PROVE  /\ PointerBlocks(disk[d], InodeAt(disk[d], p))
                 \cap DataBlocks(disk[d], InodeAt(disk[d], p)) = {}
           /\ \A q \in set \ {p} : BlocksOf(d, p) \cap BlocksOf(d, q) = {}
           /\ BlocksOf(d, p) \subseteq DataArea
<1>1. ASSUME NEW i \in Pointers, NEW c \in Places, Claim(disk[d], InodeAt(disk[d], p), i, c) # 0
      PROVE  OnlyClaim(disk[d], set, p, i, c)
    BY <1>1 DEF Separate, ClaimedOnce
<1>2. ASSUME NEW b \in PointerBlocks(disk[d], InodeAt(disk[d], p)),
             b \in DataBlocks(disk[d], InodeAt(disk[d], p))
      PROVE  FALSE
  <2>1. PICK i \in Pointers : b = Claim(disk[d], InodeAt(disk[d], p), i, -1)
      BY <1>2, BlocksClaimed
  <2>2. PICK j \in Pointers, c \in Cells : b = Claim(disk[d], InodeAt(disk[d], p), j, c)
      BY <1>2, BlocksClaimed
  <2>3. b # 0 /\ -1 \in Places /\ c \in Places /\ c # -1
      BY <1>2, BlocksClaimed, PlaceFacts
  <2>4. OnlyClaim(disk[d], set, p, i, -1)
      BY <1>1, <2>1, <2>3
  <2> QED
      BY <2>1, <2>2, <2>3, <2>4 DEF OnlyClaim
<1>3. ASSUME NEW q \in set, q # p, NEW b \in BlocksOf(d, p), b \in BlocksOf(d, q) PROVE FALSE
  <2>1. PICK i \in Pointers, c \in Places : b = Claim(disk[d], InodeAt(disk[d], p), i, c)
      BY <1>3, BlocksPlace
  <2>2. PICK j \in Pointers, e \in Places : b = Claim(disk[d], InodeAt(disk[d], q), j, e)
      BY <1>3, BlocksPlace
  <2>3. OnlyClaim(disk[d], set, p, i, c)
      BY <1>1, <1>3, <2>1, BlocksPlace
  <2> QED
      BY <1>3, <2>1, <2>2, <2>3 DEF OnlyClaim
<1>4. ASSUME NEW b \in BlocksOf(d, p) PROVE b \in DataArea
  <2>1. PICK i \in Pointers, c \in Places : b = Claim(disk[d], InodeAt(disk[d], p), i, c)
      BY <1>4, BlocksPlace
  <2>2. WellFormed(disk[d], InodeAt(disk[d], p))
      BY DEF Separate
  <2>3. b \in DataArea \union {0}
      BY <2>1, <2>2 DEF WellFormed
  <2> QED
      BY <1>4, <2>3, BlocksPlace
<1> QED
    BY <1>2, <1>3, <1>4

(* Whenever the shell waits for a command no block belongs to two files,   *)
(* and none is both a pointer block and a data block of one: for drives in *)
(* use of every size, every number of them and every history of calls that *)
(* is spared.                                                              *)
THEOREM FilesStayApart == SparedSpec => []FilesApart
<1>1. Context => FilesApart
  <2> SUFFICES ASSUME Context, AtShell, NEW d \in Drives, NEW p \in Files(d)
               PROVE  /\ PointerBlocks(disk[d], InodeAt(disk[d], p))
                            \cap DataBlocks(disk[d], InodeAt(disk[d], p)) = {}
                      /\ \A q \in Files(d) \ {p} : BlocksOf(d, p) \cap BlocksOf(d, q) = {}
      BY Zenon DEF FilesApart
  <2>1. Separate(disk[d], Files(d))
      BY FilesOwned
  <2> QED
      BY <2>1, SeparateApart
<1> QED
    BY <1>1, ContextInvariance, PTL

(* Every block of a file is in the data area: beyond the inode table and   *)
(* not beyond the count of blocks of the superblock on the drive.          *)
THEOREM FilesStayInDataArea == SparedSpec => []FilesInDataArea
<1>1. Context => FilesInDataArea
  <2> SUFFICES ASSUME Context, AtShell, NEW d \in Drives, NEW n \in Names,
                      NEW p \in Matches(disk[d], n)
               PROVE  BlocksOf(d, p) \subseteq
                         SuperblockBlock + SuperblockOf(disk[d]).inode_blocks + 1
                            .. SuperblockOf(disk[d]).blocks
      BY DEF FilesInDataArea
  <2>1. p \in Files(d)
      BY DEF Matches, Files
  <2>2. BlocksOf(d, p) \subseteq DataArea
      BY <2>1, FilesOwned, SeparateApart
  <2>3. IsSuperblock(SuperblockOf(disk[d]))
      BY DEF Context, Owned, Geometries
  <2>4. /\ SuperblockOf(disk[d]).blocks = Geometry(Capacity, 0).blocks
        /\ SuperblockOf(disk[d]).inode_blocks = Geometry(Capacity, 0).inode_blocks
    <3> DEFINE s == SuperblockOf(disk[d])
    <3>1. s = Geometry(Capacity, s.last_allocated_block)
        BY <2>3 DEF IsSuperblock
    <3> HIDE DEF s
    <3>2. s.blocks = Geometry(Capacity, 0).blocks
          /\ s.inode_blocks = Geometry(Capacity, 0).inode_blocks
        BY <3>1 DEF Geometry
    <3> QED
        BY <3>2 DEF s
  <2> QED
      BY <2>2, <2>4 DEF DataArea, TableEnd
<1> QED
    BY <1>1, ContextInvariance, PTL

-----------------------------------------------------------------------------
(* Writing to the end.                                                     *)

(* The bytes written and those left are all there are, and the loops end   *)
(* when none is left.                                                      *)
Counted ==
    /\ pc \in Writes => fr.left = wsize - fr.total /\ fr.total <= Max({wsize, 0})
    /\ pc = "pointers" => fr.i = 0
    /\ pc \in {"size", "written"} => Done

(* A text ends before the words of a pointer block do.                     *)
WordsSuffice == pc = "blocks" /\ fr.j = WordsPerSector => Done

LEMMA CountedQuiet ==
    ASSUME Counted, pc \in Writes, pc' \in Writes, pc' # "pointers", wsize' = wsize,
           fr'.left = fr.left, fr'.total = fr.total,
           pc' \in {"size", "written"} => Done
    PROVE  Counted'
  BY DEF Counted, Done

LEMMA CountedFill == Context /\ Counted /\ WriteFill => Counted'
<1> SUFFICES ASSUME Context, Counted, WriteFill PROVE Counted'
    OBVIOUS
<1> DEFINE first == fr.i = 0 /\ fr.j = 0
           n     == FillCount(Block, first, fr.left)
<1>1. pc = "blocks" /\ pc' = "data" /\ wsize' = wsize
    BY DEF WriteFill, AtBlock, program
<1>2. fr \in Frame /\ fr.left \in Int /\ fr.total \in Nat /\ wsize \in Int
    BY ContextFacts DEF TypeOK, Frame
<1>3. fr'.left = fr.left - n /\ fr'.total = fr.total + n
    BY <1>2 DEF WriteFill, Frame
<1>4. n \in Nat /\ (fr.left <= 0 => n = 0) /\ (fr.left > 0 => n <= fr.left)
    BY <1>2, FillCountType
<1> HIDE DEF n
<1>5. fr.left = wsize - fr.total /\ fr.total <= Max({wsize, 0})
    BY <1>1 DEF Counted, Writes
<1>6. Max({wsize, 0}) = IF wsize >= 0 THEN wsize ELSE 0
    BY <1>2, MaxOfTwo
<1>7. fr'.left = wsize - fr'.total /\ fr'.total <= Max({wsize, 0})
    BY <1>2, <1>3, <1>4, <1>5, <1>6
<1> QED
    BY <1>1, <1>7 DEF Counted

LEMMA CountedNext == Context /\ Counted /\ WordsSuffice /\ [Next /\ Spared]_vars => Counted'
<1> SUFFICES ASSUME Context, Counted, WordsSuffice, [Next /\ Spared]_vars PROVE Counted'
    OBVIOUS
<1>0. fr \in Frame /\ wsize \in Int
    BY ContextFacts DEF TypeOK
<1>1. ASSUME pc' \notin Writes PROVE Counted'
    BY <1>1 DEF Counted, Writes
<1>2. CASE WriteCall
  <2>1. PICK info \in Lookup("write", job.name) : WriteNone(info) \/ WriteFound(info)
      BY <1>2, WriteCallParts
  <2>2. CASE WriteNone(info)
      BY <1>1, <2>2 DEF WriteNone, Return, Writes
  <2>3. CASE WriteFound(info)
    <3>1. pc' = "pointers" /\ fr'.left = wsize /\ fr'.total = 0 /\ fr'.i = 0
        BY <2>3 DEF WriteFound, NoFrame
    <3>2. Max({wsize, 0}) = IF wsize >= 0 THEN wsize ELSE 0
        BY <1>0, MaxOfTwo
    <3>3. 0 <= Max({wsize, 0}) /\ wsize = wsize - 0
        BY <1>0, <3>2
    <3>4. wsize' = wsize
        BY <1>2 DEF WriteCall, program
    <3> QED
        BY <3>1, <3>3, <3>4 DEF Counted
  <2> QED
      BY <2>1, <2>2, <2>3
<1>3. CASE WritePointer
  <2>1. pc = "pointers" /\ fr.i = 0 /\ pc \in Writes
      BY <1>3 DEF WritePointer, Counted, Writes
  <2>2. fr.info.ptrs[0] # 0 /\ 0 # PtrsPerInode
      BY <2>1, WritesFacts, DiskAssumption DEF WellFormed
  <2>3. pc' = "blocks" /\ fr'.left = fr.left /\ fr'.total = fr.total /\ wsize' = wsize
      BY <1>0, <1>3, <2>1, <2>2 DEF WritePointer, Frame, program
  <2> QED
      BY <2>1, <2>3, CountedQuiet DEF Writes
<1>4. CASE WriteNextPointer
  <2>1. pc = "blocks" /\ Done /\ pc' = "size" /\ fr' = fr /\ wsize' = wsize
      BY <1>4 DEF WriteNextPointer, WordsSuffice, program
  <2> QED
      BY <2>1, CountedQuiet DEF Writes
<1>5. CASE WriteAllocate \/ WriteFull
  <2>1. /\ pc = "blocks" /\ pc' = "blocks" /\ fr'.left = fr.left /\ fr'.total = fr.total
        /\ wsize' = wsize
      BY <1>0, <1>5 DEF WriteAllocate, WriteFull, AtBlock, Frame, program
  <2> QED
      BY <2>1, CountedQuiet DEF Writes
<1>6. CASE WriteFill
    BY <1>6, CountedFill
<1>7. CASE WriteData
  <2>1. CASE pc' = "chain"
      BY <1>1, <2>1 DEF Writes
  <2>2. CASE pc' # "chain"
    <3>1. /\ pc = "data" /\ wsize' = wsize
          /\ \/ Done /\ pc' = "size" /\ fr' = fr
             \/ pc' = "blocks" /\ fr' = [fr EXCEPT !.j = @ + 1]
        BY <1>7, <2>2 DEF WriteData, program
    <3>2. fr'.left = fr.left /\ fr'.total = fr.total
        BY <1>0, <3>1 DEF Frame
    <3> QED
        BY <3>1, <3>2, CountedQuiet DEF Writes
  <2> QED
      BY <2>1, <2>2
<1>8. CASE WriteChain
    BY <1>8 DEF WriteChain, Context, Owned, InWrite
<1>9. CASE WriteSize
    BY <1>9, CountedQuiet DEF WriteSize, Counted, Writes, program
<1>10. CASE UNCHANGED vars
    BY <1>10 DEF vars, Counted, Done
<1>11. CASE Create
  <2>1. PICK info \in Lookup("create", job.name) :
            CreateFound(info) \/ CreateNone(info) \/ CreateNew(info)
      BY <1>11, CreateParts
  <2> QED
      BY <1>1, <2>1 DEF CreateFound, CreateNone, CreateNew, Return, Writes
<1>12. CASE Delete
  <2>1. PICK info \in Lookup("delete", job.name) : DeleteNone(info) \/ DeleteFound(info)
      BY <1>12, DeleteParts
  <2> QED
      BY <1>1, <2>1 DEF DeleteNone, DeleteFound, Return, Writes
<1>13. CASE \/ CreateImage \/ CreateZero \/ CreatePointer \/ CreateName \/ CreateSave
            \/ DeleteLoad \/ DeleteWipe \/ DeleteSave \/ WriteSave
  <2>1. CASE CreateImage \/ CreateZero \/ CreatePointer \/ CreateName \/ CreateSave
      BY <1>1, <2>1
      DEF CreateImage, CreateZero, CreatePointer, CreateName, CreateSave, Return, Writes
  <2>2. CASE DeleteLoad \/ DeleteSave \/ WriteSave
      BY <1>1, <2>2 DEF DeleteLoad, DeleteSave, WriteSave, Return, Writes
  <2>3. CASE DeleteWipe
      BY <1>1, <2>3 DEF DeleteWipe, Writes
  <2> QED
      BY <1>13, <2>1, <2>2, <2>3
<1>14. CASE \/ Boot \/ Exit \/ SelectDrive \/ Fetch \/ Retry \/ Format \/ FormatSuperblock
            \/ FormatInodes \/ Crash \/ \E j \in Commands : Execute(j)
    BY <1>1, <1>14
    DEF Boot, Exit, SelectDrive, Fetch, Retry, Format, FormatSuperblock, FormatInodes, Crash,
        Execute, Calling, Return, Writes
<1> QED
    BY <1>2, <1>3, <1>4, <1>5, <1>6, <1>7, <1>8, <1>9, <1>10, <1>11, <1>12, <1>13, <1>14
    DEF Next, Step, Look, FileCreate, FileDelete, FileWrite, FormatDisk

(* file_write writes all the bytes it is given, none if it is given a      *)
(* negative number, and says so, if the text ends before the words of a    *)
(* pointer block do: however the bytes are spread over holes in old blocks *)
(* and new ones, the loops end only when nothing is left.  That there is a *)
(* pointer block to begin with, also for the inode a failed lookup leaves, *)
(* is what Owned says; what goes wrong past the last word is run spill.    *)
THEOREM WritesComplete == SparedSpec /\ []WordsSuffice => WriteComplete
<1>1. Init => Counted
    BY DEF Init, Counted, Writes
<1>2. Context /\ Counted /\ [Next /\ Spared]_vars
        => [WriteSave => ret' = Max({wsize, 0})]_vars
  <2> SUFFICES ASSUME Context, Counted, WriteSave PROVE ret' = Max({wsize, 0})
      OBVIOUS
  <2>1. /\ fr.left = wsize - fr.total /\ fr.total <= Max({wsize, 0}) /\ fr.left <= 0
        /\ ret' = fr.total
      BY DEF WriteSave, Return, Counted, Writes, Done
  <2>2. wsize \in Int /\ fr.total \in Nat
      BY ContextFacts DEF TypeOK, Frame
  <2>3. Max({wsize, 0}) = IF wsize >= 0 THEN wsize ELSE 0
      BY <2>2, MaxOfTwo
  <2> QED
      BY <2>1, <2>2, <2>3
<1> QED
    BY <1>1, <1>2, CountedNext, ContextInvariance, PTL DEF SparedSpec, WriteComplete

-----------------------------------------------------------------------------
(* The text of a file whose blocks are filled one after the other.         *)

(* Cell x of the blocks of such a file, laid end to end: the name, a NUL,  *)
(* the text, NULs.                                                         *)
Content(n, t, x) ==
    IF x < Len(n) THEN n[x + 1]
    ELSE IF x > Len(n) /\ x <= Len(n) + Len(t) THEN t[x - Len(n)] ELSE 0

Texts == Seq(Nat \ {0})

(* An inode with one pointer block, the first m words of which are set.    *)
Shape(dk, ino, m) ==
    /\ ino.ptrs[0] # 0 /\ \A i \in Pointers : i # 0 => ino.ptrs[i] = 0
    /\ m \in 1 .. WordsPerSector
    /\ \A k \in Cells : Claim(dk, ino, 0, k) # 0 <=> k < m

(* Cell c of the block that word k of the pointer block names.             *)
BlockCell(dk, ino, k, c) == ReadSector(dk, Claim(dk, ino, 0, k))[c]

Filled(dk, ino, m, n, t) ==
    \A k \in Cells, c \in Cells :
        k < m => BlockCell(dk, ino, k, c) = Content(n, t, k * WordsPerSector + c)

Holds(dk, ino, m, n, t) ==
    /\ Shape(dk, ino, m) /\ n \in Seq(Nat) /\ IsName(n) /\ t \in Texts
    /\ Len(n) + 1 + Len(t) <= m * WordsPerSector
    /\ Filled(dk, ino, m, n, t)

(* A sequence of which the first m elements are no NULs and the others are *)
(* keeps those.                                                            *)
LEMMA FrontKept ==
    ASSUME NEW n \in Nat, NEW s, DOMAIN s = 1 .. n, NEW m \in 0 .. n,
           \A k \in 1 .. n : s[k] = 0 <=> k > m
    PROVE  WithoutNuls(s) = [k \in 1 .. m |-> s[k]]
<1>1. PICK g : /\ g[0] = <<>> /\ WithoutNuls(s) = g[n]
               /\ \A k \in 1 .. n : g[k] = IF s[k] = 0 THEN g[k - 1] ELSE Append(g[k - 1], s[k])
    BY KeptRun
<1> DEFINE S     == {s[k] : k \in 1 .. n}
           Fore  == {k \in Nat : /\ g[k] \in Seq(S) /\ Len(g[k]) = IF k <= m THEN k ELSE m
                                 /\ \A i \in 1 .. n : i <= k /\ i <= m => g[k][i] = s[i]}
<1>2. 0 \in Fore
  <2>1. g[0] \in Seq(S) /\ Len(g[0]) = 0
      BY <1>1
  <2>2. (IF 0 <= m THEN 0 ELSE m) = 0 /\ \A i \in 1 .. n : ~(i <= 0)
      OBVIOUS
  <2> HIDE DEF S
  <2> QED
      BY <2>1, <2>2
<1>3. ASSUME NEW k \in 0 .. n - 1, k \in Fore PROVE k + 1 \in Fore
  <2>1. k + 1 \in 1 .. n /\ (k + 1) - 1 = k /\ k + 1 \in Nat /\ k \in Nat /\ m \in Nat
      OBVIOUS
  <2>2. g[k] \in Seq(S) /\ Len(g[k]) = (IF k <= m THEN k ELSE m)
        /\ \A i \in 1 .. n : i <= k /\ i <= m => g[k][i] = s[i]
      BY <1>3
  <2>3. g[k + 1] = IF s[k + 1] = 0 THEN g[k] ELSE Append(g[k], s[k + 1])
      BY <1>1, <2>1
  <2>4. CASE k + 1 > m
    <3>1. g[k + 1] = g[k]
        BY <2>1, <2>3, <2>4
    <3>2. (IF k <= m THEN k ELSE m) = (IF k + 1 <= m THEN k + 1 ELSE m)
        BY <2>1, <2>4
    <3>3. \A i \in 1 .. n : i <= k + 1 /\ i <= m => i <= k
        BY <2>1, <2>4
    <3> HIDE DEF S
    <3> QED
        BY <2>1, <2>2, <3>1, <3>2, <3>3
  <2>5. CASE k + 1 <= m
    <3>1. s[k + 1] \in S /\ s[k + 1] # 0 /\ k <= m
        BY <2>1, <2>5
    <3> HIDE DEF S
    <3>2. g[k + 1] = Append(g[k], s[k + 1]) /\ Len(g[k]) = k
        BY <2>2, <2>3, <3>1
    <3>3. /\ Append(g[k], s[k + 1]) \in Seq(S) /\ Len(Append(g[k], s[k + 1])) = k + 1
          /\ Append(g[k], s[k + 1])[k + 1] = s[k + 1]
          /\ \A i \in 1 .. k : Append(g[k], s[k + 1])[i] = g[k][i]
        BY <2>2, <3>1, <3>2, AppendProperties
    <3>4. ASSUME NEW i \in 1 .. n, i <= k + 1, i <= m PROVE g[k + 1][i] = s[i]
      <4>1. i = k + 1 \/ (i \in 1 .. k /\ i <= k)
          BY <2>1, <3>4
      <4> QED
          BY <2>2, <3>2, <3>3, <3>4, <4>1
    <3> QED
        BY <2>1, <2>5, <3>2, <3>3, <3>4
  <2> QED
      BY <2>1, <2>4, <2>5
<1> HIDE DEF S, Fore
<1>4. \A k \in 0 .. n : k \in Fore
    BY <1>2, <1>3, Keeping!UpTo
<1>5. n \in Fore
    BY <1>4
<1>6. /\ g[n] \in Seq(S) /\ Len(g[n]) = m /\ \A i \in 1 .. m : g[n][i] = s[i]
  <2>1. n \in Nat /\ (IF n <= m THEN n ELSE m) = m /\ \A i \in 1 .. m : i \in 1 .. n /\ i <= n /\ i <= m
      OBVIOUS
  <2> QED
      BY <1>5, <2>1 DEF Fore
<1> DEFINE f == [k \in 1 .. m |-> s[k]]
<1>7. f = [k \in 1 .. m |-> f[k]] /\ \A i \in 1 .. m : g[n][i] = f[i]
    BY <1>6
<1> HIDE DEF f
<1>8. g[n] = f
    BY <1>6, <1>7, Keeping!SameSeq
<1> QED
    BY <1>1, <1>8 DEF f

(* Where a cell is among blocks laid end to end.                           *)
LEMMA CellPlace ==
    ASSUME NEW m \in Nat, NEW x \in Nat, x < m * WordsPerSector
    PROVE  /\ x \div WordsPerSector \in Nat /\ x \div WordsPerSector < m
           /\ x % WordsPerSector \in Cells
           /\ (x \div WordsPerSector) * WordsPerSector + (x % WordsPerSector) = x
<1> DEFINE q == x \div WordsPerSector
           r == x % WordsPerSector
<1>1. WordsPerSector \in Nat \ {0}
    BY DiskAssumption
<1>2. q \in Nat /\ r \in 0 .. WordsPerSector - 1 /\ x = WordsPerSector * q + r
    BY <1>1, DivMod
<1> HIDE DEF q, r
<1>3. WordsPerSector * q = q * WordsPerSector
    BY <1>1, <1>2
<1>4. q < m
  <2> SUFFICES ASSUME m <= q PROVE FALSE
      BY <1>2
  <2>1. m * WordsPerSector <= q * WordsPerSector
      BY <1>1, <1>2, ProductMonotone
  <2>2. m * WordsPerSector \in Nat /\ q * WordsPerSector \in Nat
      BY <1>1, <1>2
  <2> QED
      BY <1>1, <1>2, <1>3, <2>1, <2>2
<1>5. q \in Nat /\ q < m /\ r \in Cells /\ q * WordsPerSector + r = x
    BY <1>1, <1>2, <1>3, <1>4 DEF Cells
<1> QED
    BY <1>5, Zenon DEF q, r

LEMMA BlockEnds ==
    ASSUME NEW k \in Nat, NEW m \in Nat, k < m
    PROVE  /\ k * WordsPerSector \in Nat /\ m * WordsPerSector \in Nat
           /\ k * WordsPerSector + WordsPerSector <= m * WordsPerSector
<1>1. WordsPerSector \in Nat /\ k + 1 \in Nat /\ k + 1 <= m
    BY DiskAssumption
<1>2. (k + 1) * WordsPerSector <= m * WordsPerSector
    BY <1>1, ProductMonotone
<1>3. (k + 1) * WordsPerSector = k * WordsPerSector + WordsPerSector
    BY <1>1
<1> QED
    BY <1>1, <1>2, <1>3

LEMMA ContentType ==
    ASSUME NEW n \in Seq(Nat), NEW t \in Texts, NEW x \in Nat
    PROVE  Content(n, t, x) \in Nat
<1>1. Len(n) \in Nat /\ Len(t) \in Nat
    BY DEF Texts
<1>2. x < Len(n) => n[x + 1] \in Nat
  <2>1. x < Len(n) => x + 1 \in 1 .. Len(n)
      BY <1>1
  <2> QED
      BY <2>1, ElementOfSeq
<1>3. x > Len(n) /\ x <= Len(n) + Len(t) => t[x - Len(n)] \in Nat
  <2>1. x > Len(n) /\ x <= Len(n) + Len(t) => x - Len(n) \in 1 .. Len(t)
      BY <1>1
  <2> QED
      BY <2>1, ElementOfSeq DEF Texts
<1> QED
    BY <1>2, <1>3 DEF Content

(* The name ends at the first NUL, the text at the next.                   *)
LEMMA ContentNul ==
    ASSUME NEW n \in Seq(Nat), IsName(n), NEW t \in Texts, NEW x \in Nat
    PROVE  Content(n, t, x) = 0 <=> x = Len(n) \/ x > Len(n) + Len(t)
<1>1. Len(n) \in Nat /\ Len(t) \in Nat
    BY DEF Texts
<1>2. x < Len(n) => n[x + 1] # 0
  <2>1. x < Len(n) => x + 1 \in 1 .. Len(n)
      BY <1>1
  <2> QED
      BY <2>1 DEF IsName
<1>3. x > Len(n) /\ x <= Len(n) + Len(t) => t[x - Len(n)] # 0
  <2>1. x > Len(n) /\ x <= Len(n) + Len(t) => x - Len(n) \in 1 .. Len(t)
      BY <1>1
  <2> QED
      BY <2>1, ElementOfSeq DEF Texts
<1> QED
    BY <1>1, <1>2, <1>3 DEF Content

(* The data blocks of such a file, in order.                               *)
LEMMA ShapeWords ==
    ASSUME NEW dk \in Disk, NEW ino \in Inode, NEW m, Shape(dk, ino, m)
    PROVE  DataWords(dk, ino) = [k \in 1 .. m |-> Claim(dk, ino, 0, k - 1)]
<1> DEFINE n == PtrsPerInode * WordsPerSector
           s == [k \in 1 .. n |-> PointerWord(dk, ino, k - 1)]
<1>1. WordsPerSector \in Nat \ {0} /\ PtrsPerInode \in Nat \ {0} /\ n \in Nat /\ WordsPerSector <= n
  <2>1. WordsPerSector \in Nat \ {0} /\ PtrsPerInode \in Nat \ {0} /\ 1 \in Nat /\ 1 <= PtrsPerInode
      BY DiskAssumption
  <2>2. 1 * WordsPerSector <= PtrsPerInode * WordsPerSector
      BY <2>1, ProductMonotone
  <2> QED
      BY <2>1, <2>2
<1>2. m \in 1 .. WordsPerSector /\ ino.ptrs[0] # 0
    BY DEF Shape
<1>3. ASSUME NEW k \in 1 .. n, k <= WordsPerSector
      PROVE  PointerWord(dk, ino, k - 1) = Claim(dk, ino, 0, k - 1)
  <2>1. k - 1 \in Nat /\ k - 1 < 1 * WordsPerSector
      BY <1>1, <1>3
  <2>2. (k - 1) \div WordsPerSector = 0 /\ (k - 1) % WordsPerSector = k - 1
    <3>1. /\ (k - 1) \div WordsPerSector \in Nat /\ (k - 1) \div WordsPerSector < 1
          /\ (k - 1) % WordsPerSector \in Cells
          /\ ((k - 1) \div WordsPerSector) * WordsPerSector + ((k - 1) % WordsPerSector) = k - 1
        BY <2>1, CellPlace
    <3>2. (k - 1) \div WordsPerSector = 0
        BY <3>1
    <3>3. 0 * WordsPerSector = 0 /\ (k - 1) % WordsPerSector \in Nat
        BY <1>1, <3>1 DEF Cells
    <3> QED
        BY <3>1, <3>2, <3>3
  <2>3. k - 1 # -1
      BY <2>1
  <2> QED
      BY <1>2, <2>2, <2>3 DEF PointerWord, Claim
<1>4. ASSUME NEW k \in 1 .. n, k > WordsPerSector PROVE PointerWord(dk, ino, k - 1) = 0
  <2>1. k - 1 \in Nat /\ k - 1 < n
      BY <1>1
  <2>2. /\ (k - 1) \div WordsPerSector \in Nat /\ (k - 1) \div WordsPerSector < PtrsPerInode
        /\ (k - 1) % WordsPerSector \in Cells
        /\ ((k - 1) \div WordsPerSector) * WordsPerSector + ((k - 1) % WordsPerSector) = k - 1
      BY <1>1, <2>1, CellPlace
  <2>3. (k - 1) \div WordsPerSector # 0
    <3>1. 0 * WordsPerSector = 0 /\ (k - 1) % WordsPerSector < WordsPerSector
          /\ (k - 1) % WordsPerSector \in Nat
        BY <1>1, <2>2 DEF Cells
    <3> QED
        BY <1>1, <1>4, <2>2, <3>1
  <2>4. (k - 1) \div WordsPerSector \in Pointers
      BY <1>1, <2>2 DEF Pointers
  <2>5. ino.ptrs[(k - 1) \div WordsPerSector] = 0
      BY <2>3, <2>4 DEF Shape
  <2> QED
      BY <2>5 DEF PointerWord
<1>5. ASSUME NEW k \in 1 .. n PROVE s[k] = 0 <=> k > m
  <2>1. s[k] = PointerWord(dk, ino, k - 1) /\ k \in Nat /\ m \in Nat /\ m <= WordsPerSector
      BY <1>2
  <2>2. CASE k <= WordsPerSector
    <3>1. k - 1 \in Cells
        BY <1>1, <2>1, <2>2 DEF Cells
    <3>2. Claim(dk, ino, 0, k - 1) # 0 <=> k - 1 < m
        BY <3>1 DEF Shape
    <3>3. k - 1 < m <=> ~(k > m)
        BY <2>1
    <3> HIDE DEF s, n
    <3> QED
        BY <1>3, <2>1, <2>2, <3>2, <3>3
  <2>3. CASE k > WordsPerSector
    <3>1. k > m
        BY <1>1, <2>1, <2>3
    <3> HIDE DEF s, n
    <3> QED
        BY <1>4, <2>1, <2>3, <3>1
  <2> QED
      BY <1>1, <2>2, <2>3
<1>6. DOMAIN s = 1 .. n /\ m \in 0 .. n
    BY <1>1, <1>2
<1>7. ASSUME NEW k \in 1 .. m PROVE s[k] = Claim(dk, ino, 0, k - 1)
  <2>1. k \in 1 .. n /\ k <= WordsPerSector
      BY <1>1, <1>2
  <2> QED
      BY <1>3, <2>1
<1>8. DataWords(dk, ino) = WithoutNuls(s)
    BY DEF DataWords
<1> HIDE DEF n, s
<1>9. WithoutNuls(s) = [k \in 1 .. m |-> s[k]]
    BY <1>1, <1>5, <1>6, FrontKept
<1> QED
    BY <1>7, <1>8, <1>9

(* Such a file has that name and that text.                                *)
LEMMA HeldStream ==
    ASSUME NEW dk \in Disk, NEW ino \in Inode, NEW m, NEW n, NEW t, Holds(dk, ino, m, n, t)
    PROVE  /\ Stream(dk, ino) \in Seq(Nat) /\ Len(Stream(dk, ino)) = m * WordsPerSector
           /\ \A x \in 1 .. m * WordsPerSector : Stream(dk, ino)[x] = Content(n, t, x - 1)
<1> DEFINE blocks  == DataWords(dk, ino)
           byte(x) == ReadSector(dk, blocks[(x - 1) \div WordsPerSector + 1])
                          [(x - 1) % WordsPerSector]
           size    == m * WordsPerSector
<1>1. m \in 1 .. WordsPerSector /\ m \in Nat /\ WordsPerSector \in Nat /\ size \in Nat
    BY DiskAssumption DEF Holds, Shape
<1>2. blocks = [k \in 1 .. m |-> Claim(dk, ino, 0, k - 1)]
    BY ShapeWords DEF Holds
<1>3. Len(blocks) = m /\ \A k \in 1 .. m : blocks[k] = Claim(dk, ino, 0, k - 1)
    BY <1>1, <1>2
<1>4. Stream(dk, ino) = [x \in 1 .. size |-> byte(x)]
    BY <1>3 DEF Stream
<1> HIDE DEF blocks
<1>5. ASSUME NEW x \in 1 .. size PROVE byte(x) = Content(n, t, x - 1)
  <2> DEFINE q == (x - 1) \div WordsPerSector
             r == (x - 1) % WordsPerSector
  <2>1. q \in Nat /\ q < m /\ r \in Cells /\ q * WordsPerSector + r = x - 1
    <3>1. x - 1 \in Nat /\ x - 1 < m * WordsPerSector
        BY <1>1
    <3> QED
        BY <1>1, <3>1, CellPlace
  <2> HIDE DEF q, r
  <2>2. q + 1 \in 1 .. m /\ (q + 1) - 1 = q /\ q \in Cells
      BY <1>1, <2>1 DEF Cells
  <2>3. blocks[q + 1] = Claim(dk, ino, 0, q)
      BY <1>3, <2>2
  <2>4. BlockCell(dk, ino, q, r) = Content(n, t, q * WordsPerSector + r)
      BY <2>1, <2>2 DEF Holds, Filled
  <2>5. byte(x) = BlockCell(dk, ino, q, r)
      BY <2>3 DEF BlockCell, q, r
  <2> QED
      BY <2>1, <2>4, <2>5
<1> HIDE DEF byte, size
<1>6. Len(Stream(dk, ino)) = size /\ \A x \in 1 .. size : Stream(dk, ino)[x] = Content(n, t, x - 1)
    BY <1>1, <1>4, <1>5
<1> QED
    BY <1>6, StreamType DEF size

LEMMA HeldBody ==
    ASSUME NEW dk \in Disk, NEW ino \in Inode, NEW m, NEW n, NEW t, Holds(dk, ino, m, n, t)
    PROVE  /\ Body(dk, ino) \in Seq(Nat)
           /\ Len(Body(dk, ino)) = m * WordsPerSector - (Len(n) + 1)
           /\ \A x \in 1 .. m * WordsPerSector - (Len(n) + 1) :
                 Body(dk, ino)[x] = IF x <= Len(t) THEN t[x] ELSE 0
<1> DEFINE s    == Stream(dk, ino)
           size == m * WordsPerSector
           nuls == {k \in 1 .. Len(s) : s[k] = 0}
           from == Len(n) + 1
<1>1. s \in Seq(Nat) /\ Len(s) = size /\ \A x \in 1 .. size : s[x] = Content(n, t, x - 1)
    BY HeldStream
<1>2. /\ n \in Seq(Nat) /\ IsName(n) /\ t \in Texts /\ Len(n) \in Nat /\ Len(t) \in Nat
      /\ size \in Nat /\ from + Len(t) <= size /\ from \in 1 .. size
  <2>1. n \in Seq(Nat) /\ IsName(n) /\ t \in Texts /\ Len(n) \in Nat /\ Len(t) \in Nat
        /\ m \in Nat /\ WordsPerSector \in Nat /\ from + Len(t) <= size
      BY DiskAssumption DEF Holds, Shape, Texts
  <2>2. size \in Nat
      BY <2>1
  <2> HIDE DEF size
  <2> QED
      BY <2>1, <2>2
<1>3. Body(dk, ino) = IF nuls = {} THEN <<>> ELSE SubSeq(s, Min(nuls) + 1, Len(s))
    BY DEF Body
<1> HIDE DEF s, size
<1>4. nuls \in SUBSET Nat /\ from \in nuls
  <2>1. s[from] = Content(n, t, from - 1) /\ from - 1 = Len(n)
      BY <1>1, <1>2
  <2>2. Content(n, t, Len(n)) = 0
      BY <1>2, ContentNul
  <2> QED
      BY <1>1, <1>2, <2>1, <2>2
<1>5. \A k \in nuls : from <= k
  <2> SUFFICES ASSUME NEW k \in nuls, k < from PROVE FALSE
      BY <1>2, <1>4
  <2>1. k \in 1 .. size /\ s[k] = 0 /\ k - 1 \in Nat /\ k - 1 < Len(n)
      BY <1>1, <1>2
  <2>2. Content(n, t, k - 1) = 0
      BY <1>1, <2>1
  <2>3. k - 1 = Len(n) \/ k - 1 > Len(n) + Len(t)
      BY <1>2, <2>1, <2>2, ContentNul
  <2> QED
      BY <1>2, <2>1, <2>3
<1> HIDE DEF nuls
<1>6. Min(nuls) = from
  <2>1. Min(nuls) \in nuls /\ Min(nuls) <= from
      BY <1>4, MinProperties
  <2>2. from <= Min(nuls) /\ Min(nuls) \in Nat
      BY <1>4, <1>5, <2>1
  <2> QED
      BY <1>2, <2>1, <2>2
<1> HIDE DEF from
<1> DEFINE rest == SubSeq(s, from + 1, size)
<1>7. Body(dk, ino) = rest
    BY <1>1, <1>3, <1>4, <1>6
<1>8. /\ rest \in Seq(Nat) /\ Len(rest) = (size - (from + 1)) + 1
      /\ \A k \in 1 .. (size - (from + 1)) + 1 : rest[k] = s[((from + 1) + k) - 1]
  <2>1. from + 1 \in Int /\ size \in Int /\ 1 <= from + 1 /\ size <= Len(s) /\ from + 1 <= size + 1
      BY <1>1, <1>2
  <2> QED
    <3>1. PICK a \in Int : a = from + 1
        BY <2>1
    <3>2. 1 <= a /\ size <= Len(s) /\ a <= size + 1 /\ size \in Int /\ s \in Seq(Nat)
        BY <1>1, <2>1, <3>1
    <3> HIDE DEF from
    <3>3. /\ SubSeq(s, a, size) \in Seq(Nat) /\ Len(SubSeq(s, a, size)) = (size - a) + 1
          /\ \A k \in 1 .. (size - a) + 1 : SubSeq(s, a, size)[k] = s[(a + k) - 1]
        BY <3>2, Keeping!Part
    <3> QED
        BY <3>1, <3>3
<1> HIDE DEF rest
<1>9. (size - (from + 1)) + 1 = size - from
    BY <1>2
<1>10. ASSUME NEW x \in 1 .. size - from PROVE rest[x] = IF x <= Len(t) THEN t[x] ELSE 0
  <2>1. ((from + 1) + x) - 1 = from + x /\ from + x \in 1 .. size /\ (from + x) - 1 \in Nat
        /\ (from + x) - 1 = Len(n) + x
      BY <1>2 DEF from
  <2>2. rest[x] = Content(n, t, Len(n) + x)
      BY <1>1, <1>8, <1>9, <2>1
  <2>3. ~(Len(n) + x < Len(n)) /\ Len(n) + x > Len(n) /\ (Len(n) + x) - Len(n) = x
        /\ (Len(n) + x <= Len(n) + Len(t) <=> x <= Len(t))
      BY <1>2
  <2> QED
      BY <2>2, <2>3 DEF Content
<1> QED
    BY <1>7, <1>8, <1>9, <1>10 DEF size, from

LEMMA HeldText ==
    ASSUME NEW dk \in Disk, NEW ino \in Inode, NEW m, NEW n, NEW t, Holds(dk, ino, m, n, t)
    PROVE  Text(dk, ino) = t
<1> DEFINE s    == Body(dk, ino)
           size == m * WordsPerSector - (Len(n) + 1)
<1>1. /\ s \in Seq(Nat) /\ Len(s) = size
      /\ \A x \in 1 .. size : s[x] = IF x <= Len(t) THEN t[x] ELSE 0
    BY HeldBody
<1>2. Len(t) \in Nat /\ size \in Nat /\ Len(t) <= size /\ t \in Texts
  <2>1. Len(n) \in Nat /\ Len(t) \in Nat /\ m \in Nat /\ WordsPerSector \in Nat /\ t \in Texts
        /\ Len(n) + 1 + Len(t) <= m * WordsPerSector
      BY DiskAssumption DEF Holds, Shape, Texts
  <2>2. m * WordsPerSector \in Nat
      BY <2>1
  <2> QED
      BY <2>1, <2>2
<1>3. Text(dk, ino) = WithoutNuls(s)
    BY DEF Text
<1> HIDE DEF s, size
<1>4. ASSUME NEW k \in 1 .. size PROVE s[k] = 0 <=> k > Len(t)
  <2>1. k <= Len(t) => t[k] # 0
      BY <1>2, ElementOfSeq DEF Texts
  <2> QED
      BY <1>1, <1>2, <2>1
<1>5. DOMAIN s = 1 .. size /\ Len(t) \in 0 .. size
    BY <1>1, <1>2
<1>6. WithoutNuls(s) = [k \in 1 .. Len(t) |-> s[k]]
    BY <1>2, <1>4, <1>5, FrontKept
<1>7. \A k \in 1 .. Len(t) : s[k] = t[k]
    BY <1>1, <1>2
<1>8. t = [k \in 1 .. Len(t) |-> t[k]]
    BY <1>2 DEF Texts
<1> QED
    BY <1>3, <1>6, <1>7, <1>8

(* The name in front of the first NUL of a sector.                         *)
LEMMA PrefixIs ==
    ASSUME NEW sector, NEW name \in Seq(Nat), IsName(name),
           \A c \in Cells : c < Len(name) => sector[c] = name[c + 1],
           sector[Len(name)] = 0
    PROVE  Prefix(sector) = name
<1> DEFINE n == Len(name)
           S == {c \in Cells : sector[c] = 0} \union {WordsPerSector}
<1>1. n \in Nat /\ n < WordsPerSector /\ WordsPerSector \in Nat
      /\ \A k \in 1 .. n : name[k] # 0
    BY DiskAssumption DEF IsName
<1>2. \A c \in Cells : c < n => sector[c] = name[c + 1]
    OBVIOUS
<1>3. S \in SUBSET Nat /\ n \in S
    BY <1>1 DEF Cells
<1>4. ASSUME NEW c \in S, c < n PROVE FALSE
  <2>1. c \in Cells /\ sector[c] = 0 /\ c + 1 \in 1 .. n
      BY <1>1, <1>3, <1>4
  <2> QED
      BY <1>1, <1>2, <1>4, <2>1
<1>5. Min(S) = n
  <2> HIDE DEF S
  <2>1. Min(S) \in S /\ Min(S) <= n
      BY <1>3, MinProperties
  <2>2. Min(S) \in Nat /\ ~(Min(S) < n)
      BY <1>3, <1>4, <2>1
  <2> QED
      BY <1>1, <2>1, <2>2
<1>6. Prefix(sector) = [i \in 1 .. n |-> sector[i - 1]]
    BY <1>5 DEF Prefix
<1> HIDE DEF S
<1>7. ASSUME NEW i \in 1 .. n PROVE sector[i - 1] = name[i]
  <2>1. i - 1 \in Cells /\ i - 1 < n /\ (i - 1) + 1 = i
      BY <1>1 DEF Cells
  <2> QED
      BY <1>2, <2>1
<1>8. name = [i \in 1 .. n |-> name[i]]
    OBVIOUS
<1> QED
    BY <1>6, <1>7, <1>8

LEMMA HeldName ==
    ASSUME NEW dk, NEW ino, NEW m, NEW n, NEW t, Holds(dk, ino, m, n, t)
    PROVE  NameOf(dk, ino) = n
<1> DEFINE sector == ReadSector(dk, Claim(dk, ino, 0, 0))
<1>1. NameOf(dk, ino) = Prefix(sector)
    BY NameIs DEF Holds, Shape
<1>2. n \in Seq(Nat) /\ IsName(n) /\ t \in Texts /\ Len(n) \in Nat /\ Len(n) \in Cells
    BY DiskAssumption DEF Holds, IsName, Cells
<1>3. ASSUME NEW c \in Cells PROVE sector[c] = Content(n, t, c)
  <2>1. 0 \in Cells /\ 0 < m /\ 0 * WordsPerSector + c = c
      BY DiskAssumption DEF Holds, Shape, Cells
  <2>2. BlockCell(dk, ino, 0, c) = Content(n, t, 0 * WordsPerSector + c)
      BY <2>1 DEF Holds, Filled
  <2> QED
      BY <2>1, <2>2 DEF BlockCell
<1> HIDE DEF sector
<1>4. sector[Len(n)] = 0
    BY <1>2, <1>3, ContentNul
<1>5. \A c \in Cells : c < Len(n) => sector[c] = n[c + 1]
    BY <1>3 DEF Content
<1> QED
    BY <1>1, <1>2, <1>4, <1>5, PrefixIs

(* The cell behind the text.                                               *)
TextEnd(n, t) == Len(n) + 1 + Len(t)

LEMMA PieceOf ==
    ASSUME NEW T \in Texts, NEW a \in Nat, NEW b \in Nat, a <= b, b <= Len(T)
    PROVE  /\ SubSeq(T, a + 1, b) \in Texts /\ Len(SubSeq(T, a + 1, b)) = b - a
           /\ \A k \in 1 .. b - a : SubSeq(T, a + 1, b)[k] = T[a + k]
<1>1. T \in Seq(Nat \ {0}) /\ Len(T) \in Nat
    BY LenProperties DEF Texts
<1>2. 1 <= a + 1 /\ a + 1 <= b + 1 /\ a + 1 \in Int /\ b \in Int
    OBVIOUS
<1>3. /\ SubSeq(T, a + 1, b) \in Seq(Nat \ {0})
      /\ Len(SubSeq(T, a + 1, b)) = (b - (a + 1)) + 1
      /\ \A k \in 1 .. (b - (a + 1)) + 1 : SubSeq(T, a + 1, b)[k] = T[((a + 1) + k) - 1]
    BY <1>1, <1>2, Keeping!Part
<1>4. (b - (a + 1)) + 1 = b - a /\ \A k \in Int : ((a + 1) + k) - 1 = a + k
    OBVIOUS
<1> QED
    BY <1>3, <1>4 DEF Texts

LEMMA JoinContent ==
    ASSUME NEW n \in Seq(Nat), NEW t \in Texts, NEW x \in Texts
    PROVE  /\ t \o x \in Texts /\ TextEnd(n, t \o x) = TextEnd(n, t) + Len(x)
           /\ \A y \in Nat : Content(n, t \o x, y) =
                 IF y >= TextEnd(n, t) /\ y < TextEnd(n, t) + Len(x)
                 THEN x[(y - TextEnd(n, t)) + 1] ELSE Content(n, t, y)
<1>1. /\ t \in Seq(Nat \ {0}) /\ x \in Seq(Nat \ {0})
      /\ Len(n) \in Nat /\ Len(t) \in Nat /\ Len(x) \in Nat
    BY LenProperties DEF Texts
<1>2. /\ t \o x \in Seq(Nat \ {0}) /\ Len(t \o x) = Len(t) + Len(x)
      /\ \A i \in 1 .. Len(t) + Len(x) :
            (t \o x)[i] = IF i <= Len(t) THEN t[i] ELSE x[i - Len(t)]
    BY <1>1, ConcatProperties
<1>3. TextEnd(n, t \o x) = TextEnd(n, t) + Len(x) /\ TextEnd(n, t) = Len(n) + 1 + Len(t)
    BY <1>1, <1>2 DEF TextEnd
<1>4. ASSUME NEW y \in Nat
      PROVE  Content(n, t \o x, y) =
                 IF y >= TextEnd(n, t) /\ y < TextEnd(n, t) + Len(x)
                 THEN x[(y - TextEnd(n, t)) + 1] ELSE Content(n, t, y)
  <2>1. CASE y <= Len(n)
      BY <1>1, <1>3, <2>1 DEF Content
  <2>2. CASE y > Len(n) /\ y <= Len(n) + Len(t)
    <3>1. (t \o x)[y - Len(n)] = t[y - Len(n)]
        BY <1>1, <1>2, <2>2
    <3> QED
        BY <1>1, <1>2, <1>3, <2>2, <3>1 DEF Content
  <2>3. CASE y > Len(n) + Len(t) /\ y <= Len(n) + Len(t) + Len(x)
    <3>1. (t \o x)[y - Len(n)] = x[(y - Len(n)) - Len(t)]
        BY <1>1, <1>2, <2>3
    <3>2. (y - Len(n)) - Len(t) = (y - TextEnd(n, t)) + 1
        BY <1>1, <1>3
    <3> QED
        BY <1>1, <1>2, <1>3, <2>3, <3>1, <3>2 DEF Content
  <2>4. CASE y > Len(n) + Len(t) + Len(x)
      BY <1>1, <1>2, <1>3, <2>4 DEF Content
  <2> QED
      BY <1>1, <2>1, <2>2, <2>3, <2>4
<1> QED
    BY <1>2, <1>3, <1>4 DEF Texts

(* The holes of a block are the cells from some cell on.                   *)
LEMMA HolesAre ==
    ASSUME NEW n \in Seq(Nat), IsName(n), NEW t \in Texts, NEW j \in Nat, NEW block,
           \A c \in Cells : block[c] = Content(n, t, j * WordsPerSector + c),
           NEW first, first <=> j = 0
    PROVE  Holes(block, first) = {c \in Cells : j * WordsPerSector + c >= TextEnd(n, t)}
<1> DEFINE a    == j * WordsPerSector
           nuls == {c \in Cells : block[c] = 0}
<1>1. /\ Len(n) \in Nat /\ Len(n) < WordsPerSector /\ Len(t) \in Nat /\ TextEnd(n, t) \in Nat
      /\ TextEnd(n, t) = Len(n) + 1 + Len(t)
    BY LenProperties DEF IsName, TextEnd, Texts
<1>2. WordsPerSector \in Nat /\ a \in Nat /\ Cells \subseteq Nat /\ (j = 0 => a = 0)
      /\ (j # 0 => a >= WordsPerSector)
    BY DiskAssumption DEF Cells
<1> HIDE DEF a
<1>3. \A c \in Cells : block[c] = 0 <=> a + c = Len(n) \/ a + c >= TextEnd(n, t)
  <2> SUFFICES ASSUME NEW c \in Cells
               PROVE  block[c] = 0 <=> a + c = Len(n) \/ a + c >= TextEnd(n, t)
      OBVIOUS
  <2>1. a + c \in Nat /\ block[c] = Content(n, t, a + c)
      BY <1>2 DEF a
  <2> QED
      BY <1>1, <2>1, ContentNul
<1>4. CASE j = 0
  <2>1. a = 0 /\ first /\ Len(n) \in Cells
      BY <1>1, <1>2, <1>4 DEF Cells
  <2>2. Len(n) \in nuls /\ \A c \in nuls : Len(n) <= c
      BY <1>1, <1>2, <1>3, <2>1
  <2>3. Min(nuls) = Len(n)
    <3>1. nuls \in SUBSET Nat /\ nuls # {}
        BY <1>2, <2>2
    <3> HIDE DEF nuls
    <3>2. Min(nuls) \in nuls /\ Min(nuls) <= Len(n)
        BY <2>2, <3>1, MinProperties
    <3>3. Min(nuls) \in Nat /\ Len(n) <= Min(nuls) /\ Len(n) \in Nat
        BY <1>1, <2>2, <3>1, <3>2
    <3> QED
        BY <3>2, <3>3
  <2>4. Holes(block, first) = nuls \ {Len(n)}
      BY <2>1, <2>2, <2>3 DEF Holes
  <2>5. \A c \in Cells : c \in nuls \ {Len(n)} <=> a + c >= TextEnd(n, t)
      BY <1>1, <1>2, <1>3, <2>1
  <2> QED
      BY <2>4, <2>5 DEF a
<1>5. CASE j # 0
  <2>1. Holes(block, first) = nuls
      BY <1>5 DEF Holes
  <2>2. \A c \in Cells : c \in nuls <=> a + c >= TextEnd(n, t)
      BY <1>1, <1>2, <1>3, <1>5
  <2> QED
      BY <2>1, <2>2 DEF a
<1> QED
    BY <1>4, <1>5

LEMMA HolesRun ==
    ASSUME NEW h \in 0 .. WordsPerSector, NEW holes, holes = {c \in Cells : c >= h}
    PROVE  /\ Cardinality(holes) = WordsPerSector - h
           /\ \A c \in holes : Cardinality({x \in holes : x < c}) = c - h
<1>1. WordsPerSector \in Nat /\ Cells = 0 .. WordsPerSector - 1
    BY DiskAssumption DEF Cells
<1>2. holes = h .. WordsPerSector - 1
    BY <1>1
<1>3. Cardinality(holes) = WordsPerSector - h
  <2>1. h \in Int /\ WordsPerSector - 1 \in Int
      BY <1>1
  <2>2. Cardinality(h .. WordsPerSector - 1)
           = IF h > WordsPerSector - 1 THEN 0 ELSE (WordsPerSector - 1) - h + 1
      BY <2>1, FS_Interval
  <2> QED
      BY <1>1, <1>2, <2>1, <2>2
<1>4. ASSUME NEW c \in holes PROVE Cardinality({x \in holes : x < c}) = c - h
  <2>1. {x \in holes : x < c} = h .. c - 1 /\ h \in Int /\ c - 1 \in Int /\ h <= c
      BY <1>1, <1>2
  <2>2. Cardinality(h .. c - 1) = IF h > c - 1 THEN 0 ELSE (c - 1) - h + 1
      BY <2>1, FS_Interval
  <2>3. c \in Int
      BY <1>1, <1>2
  <2>4. Cardinality(h .. c - 1) = c - h
      BY <2>1, <2>2, <2>3
  <2> QED
      BY <2>1, <2>4
<1> QED
    BY <1>3, <1>4

-----------------------------------------------------------------------------
(* The files of a drive.                                                   *)

IsFile(dk, p) == \E m, t : Holds(dk, InodeAt(dk, p), m, NameAt(dk, p), t)
AreFiles(dk, set) == \A p \in set : IsFile(dk, p)

(* Files that are the same on two disks.                                   *)
TextSame(dk, dk2, set) ==
    \A p \in set : /\ NameAt(dk2, p) = NameAt(dk, p)
                   /\ Text(dk2, InodeAt(dk2, p)) = Text(dk, InodeAt(dk, p))

(* The blocks of an inode are the same on two disks.                       *)
Untouched(dk, dk2, ino) ==
    \A c \in Places : Claim(dk, ino, 0, c) # 0
        => ReadSector(dk2, Claim(dk, ino, 0, c)) = ReadSector(dk, Claim(dk, ino, 0, c))

LEMMA HoldsSame ==
    ASSUME NEW dk, NEW dk2, NEW ino, NEW ino2, NEW m, NEW n, NEW t,
           Holds(dk, ino, m, n, t), ino2.ptrs = ino.ptrs, Untouched(dk, dk2, ino)
    PROVE  Holds(dk2, ino2, m, n, t)
<1>1. ino.ptrs[0] # 0 /\ ino2.ptrs[0] # 0 /\ -1 \in Places /\ Cells \subseteq Places /\ -1 \notin Cells
    BY PlaceFacts DEF Holds, Shape
<1>2. ReadSector(dk2, ino.ptrs[0]) = ReadSector(dk, ino.ptrs[0])
    BY <1>1, PointerClaimed DEF Untouched
<1>3. ASSUME NEW k \in Cells PROVE Claim(dk2, ino2, 0, k) = Claim(dk, ino, 0, k)
  <2>1. k # -1
      BY <1>1
  <2> QED
      BY <1>1, <1>2, <2>1 DEF Claim
<1>4. Shape(dk2, ino2, m)
    BY <1>1, <1>3 DEF Holds, Shape
<1>5. ASSUME NEW k \in Cells, NEW c \in Cells, k < m
      PROVE  BlockCell(dk2, ino2, k, c) = Content(n, t, k * WordsPerSector + c)
  <2>1. Claim(dk, ino, 0, k) # 0
      BY <1>5 DEF Holds, Shape
  <2>2. ReadSector(dk2, Claim(dk, ino, 0, k)) = ReadSector(dk, Claim(dk, ino, 0, k))
      BY <1>1, <2>1 DEF Untouched
  <2>3. BlockCell(dk, ino, k, c) = Content(n, t, k * WordsPerSector + c)
      BY <1>5 DEF Holds, Filled
  <2> QED
      BY <1>3, <2>2, <2>3 DEF BlockCell
<1>6. Filled(dk2, ino2, m, n, t)
    BY <1>5 DEF Filled
<1> QED
    BY <1>4, <1>6 DEF Holds

LEMMA FilesSame ==
    ASSUME NEW dk \in Disk, NEW dk2 \in Disk, NEW set \in SUBSET Entries(dk), AreFiles(dk, set),
           \A p \in set : /\ InodeAt(dk2, p).ptrs = InodeAt(dk, p).ptrs
                          /\ Untouched(dk, dk2, InodeAt(dk, p))
    PROVE  AreFiles(dk2, set) /\ TextSame(dk, dk2, set)
<1> SUFFICES ASSUME NEW p \in set
             PROVE  /\ IsFile(dk2, p) /\ NameAt(dk2, p) = NameAt(dk, p)
                    /\ Text(dk2, InodeAt(dk2, p)) = Text(dk, InodeAt(dk, p))
    BY DEF AreFiles, TextSame
<1>1. PICK m, t : Holds(dk, InodeAt(dk, p), m, NameAt(dk, p), t)
    BY DEF AreFiles, IsFile
<1>2. Holds(dk2, InodeAt(dk2, p), m, NameAt(dk, p), t)
    BY <1>1, HoldsSame
<1>3. InodeAt(dk, p) \in Inode /\ InodeAt(dk2, p) \in Inode
    BY EntryFacts, InodeAtType
<1>4. NameAt(dk2, p) = NameAt(dk, p)
    BY <1>2, HeldName DEF NameAt
<1>5. Text(dk2, InodeAt(dk2, p)) = t /\ Text(dk, InodeAt(dk, p)) = t
    BY <1>1, <1>2, <1>3, HeldText
<1> QED
    BY <1>2, <1>4, <1>5 DEF IsFile

LEMMA DataUntouched ==
    ASSUME NEW dk, NEW dk2, DataSame(dk, dk2), NEW ino, WellFormed(dk, ino)
    PROVE  Untouched(dk, dk2, ino)
<1>1. \A c \in Places : Claim(dk, ino, 0, c) \in DataArea \union {0}
    BY PlaceFacts DEF WellFormed
<1> QED
    BY <1>1 DEF Untouched, DataSame

LEMMA OtherUntouched ==
    ASSUME NEW dk \in Disk, NEW ino, NEW b, \A c \in Places : Claim(dk, ino, 0, c) # b, NEW data
    PROVE  Untouched(dk, WriteSector(dk, b, data), ino)
  BY ReadOther DEF Untouched

LEMMA UnclaimedUntouched ==
    ASSUME NEW dk \in Disk, NEW set, NEW b, ~Claimed(dk, set, b), NEW data, NEW p \in set
    PROVE  Untouched(dk, WriteSector(dk, b, data), InodeAt(dk, p))
<1>1. \A c \in Places : Claim(dk, InodeAt(dk, p), 0, c) # b
    BY PlaceFacts DEF Claimed
<1> QED
    BY <1>1, OtherUntouched

-----------------------------------------------------------------------------
(* What lookups by name see.                                               *)

View(dk, set) ==
    \A n \in Names :
        /\ NoneNamed(dk, set, n) => FileText(dk, n) = None
        /\ \A p \in set : NameAt(dk, p) = n => FileText(dk, n) = Text(dk, InodeAt(dk, p))

Seen(dk, set) ==
    /\ set \subseteq Reached(dk, NullFiles)
    /\ \A r \in Reached(dk, NullFiles) :
          NameAt(dk, r) \in Names => \E p \in set : p <= r /\ InodeAt(dk, p) = InodeAt(dk, r)

LEMMA ViewFrom ==
    ASSUME NEW dk, NEW set, NamedOnce(dk, set), Seen(dk, set)
    PROVE  View(dk, set)
<1> SUFFICES ASSUME NEW n \in Names
             PROVE  /\ NoneNamed(dk, set, n) => FileText(dk, n) = None
                    /\ \A p \in set : NameAt(dk, p) = n
                                          => FileText(dk, n) = Text(dk, InodeAt(dk, p))
    BY DEF View
<1>1. Matches(dk, n) \in SUBSET Nat
    BY DEF Matches, Reached, LiveEntries, Positions
<1>2. ASSUME NEW r \in Matches(dk, n)
      PROVE  \E p \in set : p <= r /\ NameAt(dk, p) = n
  <2>1. r \in Reached(dk, NullFiles) /\ NameAt(dk, r) = n
      BY DEF Matches, NameAt
  <2> QED
      BY <2>1 DEF Seen, NameAt
<1>3. CASE NoneNamed(dk, set, n)
  <2>1. Matches(dk, n) = {}
      BY <1>2, <1>3 DEF NoneNamed
  <2> QED
      BY <1>3, <2>1 DEF FileText, NoneNamed
<1>4. ASSUME NEW p \in set, NameAt(dk, p) = n PROVE FileText(dk, n) = Text(dk, InodeAt(dk, p))
  <2>1. p \in Matches(dk, n)
      BY <1>4 DEF Matches, Seen, NameAt
  <2>2. \A r \in Matches(dk, n) : p <= r
      BY <1>2, <1>4 DEF NamedOnce
  <2>3. Min(Matches(dk, n)) \in Matches(dk, n) /\ Min(Matches(dk, n)) <= p
      BY <1>1, <2>1, MinProperties
  <2>4. p <= Min(Matches(dk, n)) /\ Min(Matches(dk, n)) \in Nat /\ p \in Nat
      BY <1>1, <2>1, <2>2, <2>3
  <2>5. Min(Matches(dk, n)) = p
      BY <2>3, <2>4
  <2> QED
      BY <2>1, <2>5 DEF FileText
<1> QED
    BY <1>3, <1>4

LEMMA ViewSame ==
    ASSUME NEW dk, NEW dk2, NEW set, View(dk, set), View(dk2, set), TextSame(dk, dk2, set),
           NEW n \in Names
    PROVE  FileText(dk2, n) = FileText(dk, n)
<1>1. CASE NoneNamed(dk, set, n)
  <2>1. NoneNamed(dk2, set, n)
      BY <1>1 DEF NoneNamed, TextSame
  <2> QED
      BY <1>1, <2>1 DEF View
<1>2. CASE ~NoneNamed(dk, set, n)
  <2>1. PICK p \in set : NameAt(dk, p) = n
      BY <1>2 DEF NoneNamed
  <2> QED
      BY <2>1 DEF View, TextSame
<1> QED
    BY <1>1, <1>2

(* A number has one quotient and one remainder.                            *)
LEMMA QuotientLess ==
    ASSUME NEW n \in Nat, NEW q \in Nat, NEW u \in Nat, NEW x \in 0 .. n - 1, NEW y \in Nat,
           q < u
    PROVE  n * q + x < n * u + y
<1>1. (q + 1) * n <= u * n
    BY ProductMonotone
<1>2. (q + 1) * n = n * q + n /\ u * n = n * u
    OBVIOUS
<1>3. n * q \in Nat /\ n * u \in Nat
    OBVIOUS
<1> DEFINE a == n * q
           b == n * u
<1> HIDE DEF a, b
<1>4. a \in Nat /\ b \in Nat /\ a + n <= b
    BY <1>1, <1>2, <1>3 DEF a, b
<1>5. a + x < b + y
    BY <1>4
<1> QED
    BY <1>5 DEF a, b

LEMMA DivUnique ==
    ASSUME NEW n \in Nat, NEW q \in Nat, NEW u \in Nat, NEW x \in 0 .. n - 1,
           NEW y \in 0 .. n - 1, n * q + x = n * u + y
    PROVE  q = u /\ x = y
<1>1. n * q \in Nat /\ n * u \in Nat
    OBVIOUS
<1>2. ~(q < u)
  <2> SUFFICES ASSUME q < u PROVE FALSE
      OBVIOUS
  <2>1. n * q + x < n * u + y
      BY QuotientLess
  <2> QED
      BY <1>1, <2>1
<1>3. ~(u < q)
  <2> SUFFICES ASSUME u < q PROVE FALSE
      OBVIOUS
  <2>1. n * u + y < n * q + x
      BY QuotientLess
  <2> QED
      BY <1>1, <2>1
<1>4. q = u
    BY <1>2, <1>3
<1>5. n * q = n * u
    BY <1>4
<1> DEFINE a == n * q
<1> HIDE DEF a
<1>6. a \in Nat /\ a + x = a + y
    BY <1>1, <1>5 DEF a
<1> QED
    BY <1>4, <1>6

(* An inode seen in a copy of a sector of the inode table is one of the    *)
(* inodes in the table itself.                                             *)
LEMMA CopyOf ==
    ASSUME NEW dk \in Disk, NEW e \in Positions, InodeSector(e) <= TableEnd,
           NEW r \in LiveEntries(dk), InodeSector(r) \in DataArea,
           dk[InodeSector(r)] = dk[InodeSector(e)]
    PROVE  \E p \in Entries(dk) : p <= r /\ InodeAt(dk, p) = InodeAt(dk, r)
<1> DEFINE n == EntriesPerSector
           m == DiskSectors - SuperblockBlock - 1
           x == r % n
           p == n * (e \div n) + x
<1>1. n \in Nat \ {0} /\ m \in Nat /\ SuperblockBlock \in Nat /\ TableEnd \in Nat
  <2> QED
      BY InodeWordsType, AreaFacts, DiskAssumption
<1>2. e \in Nat /\ r \in Nat /\ e <= m * n - 1 /\ r \in Positions /\ IsInode(r) /\ ValidAt(dk, r) = 1
  <2>1. r \in Positions /\ IsInode(r) /\ ValidAt(dk, r) = 1
      BY DEF LiveEntries
  <2>2. Positions = 0 .. m * n - 1
      BY DEF Positions
  <2>3. m * n \in Nat
      BY <1>1
  <2> HIDE DEF m, n
  <2> QED
      BY <2>1, <2>2, <2>3
<1> DEFINE q == e \div n
           u == r \div n
<1>3. /\ q \in Nat /\ u \in Nat /\ x \in 0 .. n - 1
      /\ e % n \in 0 .. n - 1 /\ e = n * q + (e % n) /\ r = n * u + x
  <2> HIDE DEF n
  <2> QED
      BY <1>1, <1>2, DivMod
<1> HIDE DEF q, u, x
<1>4. q < m
  <2>1. e \div n <= m - 1
    <3> HIDE DEF m, n
    <3>1. m \in Int
        BY <1>1
    <3> QED
        BY <1>1, <1>2, <3>1, DivBound, Zenon
  <2> QED
      BY <1>1, <1>3, <2>1 DEF q
<1>5. p \in Nat /\ p \div n = q /\ p % n = x
  <2>1. n * q \in Nat /\ p = n * q + x
      BY <1>1, <1>3 DEF q
  <2> HIDE DEF p, n
  <2>2. p \in Nat
      BY <1>1, <1>3, <2>1
  <2>3. p \div n \in Nat /\ p % n \in 0 .. n - 1 /\ p = n * (p \div n) + (p % n)
      BY <1>1, <2>2, DivMod
  <2>4. p \div n = q /\ p % n = x
      BY <1>1, <1>3, <2>1, <2>3, DivUnique
  <2> QED
      BY <2>2, <2>4
<1>6. p \in Positions
  <2>1. (q + 1) * n <= m * n
      BY <1>1, <1>3, <1>4, ProductMonotone
  <2>2. (q + 1) * n = n * q + n /\ n * q \in Nat /\ m * n \in Nat
      BY <1>1, <1>3
  <2>3. p = n * q + x
      BY DEF q
  <2> HIDE DEF p
  <2>4. p <= m * n - 1
      BY <1>1, <1>3, <1>5, <2>1, <2>2, <2>3
  <2> QED
      BY <1>5, <2>4, <2>2 DEF Positions
<1> HIDE DEF p
<1>7. InodeSector(p) = InodeSector(e) /\ InodeCell(p) = InodeCell(r) /\ IsInode(p)
    BY <1>2, <1>5 DEF InodeSector, InodeCell, IsInode, q, x
<1>8. dk[InodeSector(p)] = dk[InodeSector(r)]
    BY <1>7
<1>9. InodeAt(dk, p) = InodeAt(dk, r) /\ ValidAt(dk, p) = 1
    BY <1>2, <1>7, <1>8 DEF InodeAt, ValidAt
<1>10. p \in Entries(dk)
    BY <1>6, <1>7, <1>9 DEF Entries, LiveEntries
<1>11. p <= r
  <2>1. InodeSector(e) = SuperblockBlock + 1 + q /\ InodeSector(r) = SuperblockBlock + 1 + u
      BY DEF InodeSector, q, u
  <2>2. InodeSector(r) > TableEnd /\ InodeSector(r) \in Nat
      BY AreaFacts
  <2>3. q + 1 <= u
      BY <1>1, <1>3, <2>1, <2>2
  <2>4. (q + 1) * n <= u * n
      BY <1>1, <1>3, <2>3, ProductMonotone
  <2>5. (q + 1) * n = n * q + n /\ n * q \in Nat /\ u * n \in Nat /\ u * n = n * u
      BY <1>1, <1>3
  <2>6. p = n * q + x
      BY DEF p, q
  <2> HIDE DEF n
  <2> QED
      BY <1>1, <1>3, <2>4, <2>5, <2>6
<1> QED
    BY <1>9, <1>10, <1>11

(* What a file in the making is called is no name that a user types, and   *)
(* besides the files lookups see the copy of its sector at most.           *)
HalfMade ==
    /\ pc \in Makes => NameAt(Here, fr.entry) \notin Names
    /\ pc = "zero" => \A d \in Drives : \A r \in Reached(disk[d], NullFiles) :
                         r \notin Entries(disk[d]) => d = drive /\ InodeSector(r) = fr.block

(* The copy is one.                                                        *)
CopyMade == pc = "zero" => Here[fr.block] = Here[InodeSector(fr.entry)]

LEMMA Seeing ==
    ASSUME Context, HalfMade, CopyMade, pc \notin Formats, NEW d \in Drives
    PROVE  View(disk[d], Settled(d))
<1>1. disk[d] \in Disk /\ Separate(disk[d], Settled(d)) /\ Entries(disk[d]) \subseteq Reached(disk[d], NullFiles)
    BY ContextFacts DEF Context, Owned, FilesSeparate, EntriesShown
<1>2. NamedOnce(disk[d], Settled(d)) /\ Settled(d) \subseteq Entries(disk[d])
    BY <1>1 DEF Separate, Settled
<1>3. pc # "zero" => Reached(disk[d], NullFiles) \subseteq Entries(disk[d])
    BY DEF Context, EntriesShown
<1>4. ASSUME NEW p \in Entries(disk[d]), NameAt(disk[d], p) \in Names PROVE p \in Settled(d)
    BY <1>4 DEF HalfMade, Settled, Here
<1>5. Positions \subseteq Nat
    BY DEF Positions
<1>6. ASSUME NEW r \in Reached(disk[d], NullFiles), NameAt(disk[d], r) \in Names
      PROVE  \E p \in Settled(d) : p <= r /\ InodeAt(disk[d], p) = InodeAt(disk[d], r)
  <2>1. CASE r \in Entries(disk[d])
    <3>1. r \in Nat
        BY <1>5, <2>1, EntryFacts
    <3> QED
        BY <1>4, <1>6, <2>1, <3>1
  <2>2. CASE r \notin Entries(disk[d])
    <3>1. pc = "zero" /\ d = drive /\ InodeSector(r) = fr.block
        BY <1>3, <2>2 DEF HalfMade
    <3>2. fr.entry \in Entries(disk[d]) /\ fr.block \in DataArea
        BY <3>1, MakesFacts DEF Makes, Here
    <3>3. disk[d][InodeSector(r)] = disk[d][InodeSector(fr.entry)]
        BY <3>1 DEF CopyMade, Here
    <3>4. r \in LiveEntries(disk[d])
        BY DEF Reached
    <3>5. fr.entry \in Positions /\ InodeSector(fr.entry) <= TableEnd
        BY <3>2, EntryFacts
    <3>6. PICK p \in Entries(disk[d]) : p <= r /\ InodeAt(disk[d], p) = InodeAt(disk[d], r)
        BY <1>1, <3>1, <3>2, <3>3, <3>4, <3>5, CopyOf
    <3>7. NameAt(disk[d], p) \in Names
        BY <1>6, <3>6 DEF NameAt
    <3> QED
        BY <1>4, <3>6, <3>7
  <2> QED
      BY <2>1, <2>2
<1>7. Seen(disk[d], Settled(d))
    BY <1>1, <1>2, <1>6 DEF Seen
<1> QED
    BY <1>2, <1>7, ViewFrom

-----------------------------------------------------------------------------
(* Steps that leave the files alone.                                       *)

(* A block that looks empty is: the last word, which the search does not   *)
(* look at, is not the only one that is set.                               *)
Clean(dk) == \A b \in DataArea : LooksEmpty(dk[b]) => dk[b] = ZeroSector

FilesPacked == \A d \in Drives : AreFiles(disk[d], Settled(d))
BlocksClean == \A d \in Drives : Clean(disk[d])
SameFiles   == \A d \in Drives, n \in Names : FileText(disk'[d], n) = FileText(disk[d], n)
SameInodes  == \A d \in Drives : Settled(d)' = Settled(d)
SameTexts   == \A d \in Drives : TextSame(disk[d], disk'[d], Settled(d))

LEMMA CleanData ==
    ASSUME NEW dk, NEW dk2, DataSame(dk, dk2), Clean(dk)
    PROVE  Clean(dk2)
<1>1. ASSUME NEW b \in DataArea PROVE dk2[b] = dk[b]
  <2>1. b \in Sectors
      BY AreaFacts
  <2> QED
      BY <2>1 DEF DataSame, ReadSector
<1> QED
    BY <1>1 DEF Clean

LEMMA CleanWrite ==
    ASSUME NEW dk \in Disk, Clean(dk), NEW b \in Sectors, NEW data,
           LooksEmpty(data) => data = ZeroSector
    PROVE  Clean(WriteSector(dk, b, data))
<1> DEFINE dk2 == WriteSector(dk, b, data)
<1>1. dk2[b] = data
    BY ReadWritten
<1>2. ASSUME NEW x \in DataArea, x # b PROVE dk2[x] = dk[x]
  <2>1. x \in Sectors
      BY AreaFacts
  <2>2. ReadSector(dk2, x) = ReadSector(dk, x)
      BY <1>2, ReadOther
  <2> QED
      BY <2>1, <2>2 DEF ReadSector
<1> HIDE DEF dk2
<1>3. Clean(dk2)
    BY <1>1, <1>2 DEF Clean
<1> QED
    BY <1>3 DEF dk2

(* A sector that is not empty in its first cells.                          *)
LEMMA NotEmpty ==
    ASSUME NEW sector, NEW c \in Cells, c < WordsPerSector - 1, sector[c] # 0
    PROVE  ~LooksEmpty(sector)
  BY DEF LooksEmpty

LEMMA TextItself == \A dk, set : TextSame(dk, dk, set)
  BY DEF TextSame

LEMMA ContextSettled ==
    ASSUME Context, NEW d \in Drives
    PROVE  /\ disk[d] \in Disk /\ Separate(disk[d], Settled(d))
           /\ Settled(d) \in SUBSET Entries(disk[d])
           /\ \A p \in Settled(d) : WellFormed(disk[d], InodeAt(disk[d], p))
<1>1. disk[d] \in Disk /\ Separate(disk[d], Settled(d))
    BY ContextFacts DEF Context, Owned, FilesSeparate
<1> QED
    BY <1>1 DEF Separate, Settled

LEMMA SettledSame ==
    ASSUME Context, NEW e \in Drives, NEW dk2, disk' = [disk EXCEPT ![e] = dk2],
           Entries(dk2) = Entries(disk[e]),
           \/ pc \notin Makes /\ pc' \notin Makes
           \/ pc \in Makes /\ pc' \in Makes /\ drive' = drive /\ fr'.entry = fr.entry
    PROVE  SameInodes
<1> SUFFICES ASSUME NEW d \in Drives PROVE Settled(d)' = Settled(d)
    BY DEF SameInodes
<1>1. disk \in [Drives -> Disk]
    BY ContextFacts
<1>2. Entries(disk'[d]) = Entries(disk[d])
    BY <1>1
<1> QED
    BY <1>2 DEF Settled

LEMMA FilesStep ==
    ASSUME Context, FilesPacked, BlocksClean, SameInodes,
           NEW e \in Drives, NEW dk2 \in Disk, disk' = [disk EXCEPT ![e] = dk2], Clean(dk2),
           \A p \in Settled(e) : /\ InodeAt(dk2, p).ptrs = InodeAt(disk[e], p).ptrs
                                 /\ Untouched(disk[e], dk2, InodeAt(disk[e], p))
    PROVE  FilesPacked' /\ BlocksClean' /\ SameTexts
<1>1. disk \in [Drives -> Disk]
    BY ContextFacts
<1>2. AreFiles(dk2, Settled(e)) /\ TextSame(disk[e], dk2, Settled(e))
    BY <1>1, ContextSettled, FilesSame DEF FilesPacked
<1>3. ASSUME NEW d \in Drives
      PROVE  AreFiles(disk'[d], Settled(d)) /\ TextSame(disk[d], disk'[d], Settled(d))
             /\ Clean(disk'[d])
  <2>1. CASE d = e
    <3>1. disk'[d] = dk2
        BY <1>1, <2>1
    <3> QED
        BY <1>2, <2>1, <3>1
  <2>2. CASE d # e
    <3>1. disk'[d] = disk[d]
        BY <1>1, <2>2
    <3> QED
        BY <3>1, TextItself DEF FilesPacked, BlocksClean
  <2> QED
      BY <2>1, <2>2
<1>4. FilesPacked'
    BY <1>3 DEF FilesPacked, SameInodes
<1>5. BlocksClean'
    BY <1>3 DEF BlocksClean
<1>6. SameTexts
    BY <1>3 DEF SameTexts
<1> QED
    BY <1>4, <1>5, <1>6

LEMMA FilesQuiet ==
    ASSUME Context, FilesPacked, BlocksClean, SameInodes, disk' = disk
    PROVE  FilesPacked' /\ BlocksClean' /\ SameTexts /\ SameFiles
<1>1. FilesPacked'
    BY DEF FilesPacked, SameInodes
<1>2. BlocksClean'
    BY DEF BlocksClean
<1>3. SameTexts
    BY TextItself DEF SameTexts
<1>4. SameFiles
    BY DEF SameFiles
<1> QED
    BY <1>1, <1>2, <1>3, <1>4

(* What such a step leaves is seen as before.                              *)
Sees == \A d \in Drives : View(disk[d], Settled(d))

Seeable == Context /\ HalfMade /\ CopyMade /\ pc \notin Formats

LEMMA SeesNow == Seeable => Sees
  BY Seeing DEF Sees, Seeable

LEMMA SeesNext == Seeable' => Sees'
  BY SeesNow, PTL

LEMMA SeenSame ==
    ASSUME Context, Context', HalfMade, HalfMade', CopyMade, CopyMade',
           pc \notin Formats, pc' \notin Formats, SameInodes, SameTexts
    PROVE  SameFiles
<1> SUFFICES ASSUME NEW d \in Drives, NEW n \in Names
             PROVE  FileText(disk'[d], n) = FileText(disk[d], n)
    BY DEF SameFiles
<1>1. View(disk[d], Settled(d))
    BY Seeing
<1>2. View(disk[d], Settled(d))'
    BY SeesNext DEF Sees, Seeable, Formats
<1>3. View(disk'[d], Settled(d))
    BY <1>2 DEF SameInodes
<1> QED
    BY <1>1, <1>3, ViewSame DEF SameTexts

(* Where file_create is before and after a step.                           *)
MakesAlike ==
    \/ pc \notin Makes /\ pc' \notin Makes
    \/ pc \in Makes /\ pc' \in Makes /\ drive' = drive /\ fr'.entry = fr.entry

(* The step moves no file and no text.                                     *)
Steady == FilesPacked' /\ BlocksClean' /\ SameInodes /\ SameTexts

LEMMA QuietFiles ==
    ASSUME Context, FilesPacked, BlocksClean, MakesAlike, disk' = disk
    PROVE  Steady /\ SameFiles
<1>1. SameInodes
    BY DEF SameInodes, Settled, MakesAlike
<1> QED
    BY <1>1, FilesQuiet DEF Steady

(* A superblock is written.                                                *)
LEMMA SavedFiles ==
    ASSUME Context, FilesPacked, BlocksClean, MakesAlike, NEW e \in Drives, NEW s, IsSuperblock(s),
           disk' = [disk EXCEPT ![e] = WriteSector(disk[e], SuperblockBlock, SuperblockSector(s))]
    PROVE  Steady
<1> DEFINE dk  == disk[e]
           dk2 == WriteSector(dk, SuperblockBlock, SuperblockSector(s))
<1>1. /\ dk \in Disk /\ Separate(dk, Settled(e)) /\ Settled(e) \in SUBSET Entries(dk)
      /\ \A p \in Settled(e) : WellFormed(dk, InodeAt(dk, p))
    BY ContextSettled
<1>2. /\ DataSame(dk, dk2) /\ Entries(dk2) = Entries(dk)
      /\ \A p \in Settled(e) : InodeAt(dk2, p).ptrs = InodeAt(dk, p).ptrs
    BY <1>1, SavedDrive
<1>3. dk2 \in Disk
    BY <1>1, SuperblockFacts, SuperblockSectorType, WriteSectorType
<1>4. disk' = [disk EXCEPT ![e] = dk2]
    OBVIOUS
<1>5. \A p \in Settled(e) : Untouched(dk, dk2, InodeAt(dk, p))
    BY <1>1, <1>2, DataUntouched
<1>6. Clean(dk2)
    BY <1>2, CleanData DEF BlocksClean
<1> HIDE DEF dk2
<1>7. SameInodes
    BY <1>2, <1>4, SettledSame DEF MakesAlike
<1> QED
    BY <1>2, <1>3, <1>4, <1>5, <1>6, <1>7, FilesStep DEF Steady

(* A block that belongs to no file is written.                             *)
LEMMA UnclaimedFiles ==
    ASSUME Context, FilesPacked, BlocksClean, MakesAlike, NEW b \in DataArea, ~Held(b),
           NEW data \in Sector, LooksEmpty(data) => data = ZeroSector, Write(b, data),
           drive' = drive
    PROVE  Steady /\ Here' = WriteSector(Here, b, data)
<1> DEFINE dk  == disk[drive]
           dk2 == WriteSector(dk, b, data)
<1>1. drive \in Drives /\ Here = dk /\ disk \in [Drives -> Disk]
    BY ContextFacts DEF Here
<1>2. /\ dk \in Disk /\ Separate(dk, Mine) /\ Mine \in SUBSET Entries(dk)
      /\ Mine = Settled(drive)
    BY <1>1, ContextSettled DEF Mine
<1>3. ~Claimed(dk, Mine, b)
    BY <1>1 DEF Held
<1>4. /\ Entries(dk2) = Entries(dk)
      /\ \A p \in Entries(dk) : InodeAt(dk2, p) = InodeAt(dk, p)
    BY <1>2, <1>3, UnclaimedWrite
<1>5. b \in Sectors /\ dk2 \in Disk
  <2>1. b \in Sectors
      BY AreaFacts
  <2> QED
      BY <1>2, <2>1, WriteSectorType
<1>6. disk' = [disk EXCEPT ![drive] = dk2]
    BY DEF Write
<1>7. \A p \in Settled(drive) : /\ InodeAt(dk2, p).ptrs = InodeAt(dk, p).ptrs
                                /\ Untouched(dk, dk2, InodeAt(dk, p))
    BY <1>2, <1>3, <1>4, UnclaimedUntouched
<1>8. Clean(dk2)
    BY <1>1, <1>2, <1>5, CleanWrite DEF BlocksClean
<1> HIDE DEF dk2
<1>9. SameInodes
    BY <1>1, <1>4, <1>6, SettledSame DEF MakesAlike
<1>10. Here' = dk2
    BY <1>1, <1>6 DEF Here
<1>11. Steady
    BY <1>1, <1>5, <1>6, <1>7, <1>8, <1>9, FilesStep DEF Steady
<1> QED
    BY <1>1, <1>10, <1>11 DEF dk2

(* The inode table is written, and the files keep their pointers.          *)
LEMMA TableFiles ==
    ASSUME Context, FilesPacked, BlocksClean, SameInodes, NEW dk2 \in Disk,
           disk' = [disk EXCEPT ![drive] = dk2], DataSame(Here, dk2),
           \A p \in Mine : InodeAt(dk2, p).ptrs = InodeAt(Here, p).ptrs
    PROVE  Steady
<1>1. drive \in Drives /\ Here = disk[drive] /\ Mine = Settled(drive)
    BY ContextFacts DEF Here, Mine
<1>2. \A p \in Settled(drive) : Untouched(Here, dk2, InodeAt(Here, p))
    BY <1>1, ContextSettled, DataUntouched
<1>3. Clean(dk2)
    BY <1>1, CleanData DEF BlocksClean
<1> QED
    BY <1>1, <1>2, <1>3, FilesStep DEF Steady

-----------------------------------------------------------------------------
(* file_create                                                             *)

LEMMA StoreCreateInode ==
    ASSUME Context, FilesPacked, BlocksClean, Calling("create"),
           NEW e \in FreeEntry(disk[drive], sb), CreateInode(e), pc' = "image", drive' = drive,
           Spared
    PROVE  Steady
<1> PICK block, ino, image : CreateInodeAs(e, block, ino, image)
    BY CreateInodeTerms
<1> USE DEF CreateInodeAs
<1> DEFINE dk  == disk[drive]
           b   == InodeSector(e)
           dk2 == WriteSector(dk, b, image)
<1>1. /\ TypeOK /\ dk \in Disk /\ dk = Here /\ pc = "run" /\ drive \in Drives
      /\ disk \in [Drives -> Disk]
      /\ lab \in DataArea /\ IsSuperblock(sb) /\ StartLab = lab /\ job.name \in Seq(Nat)
    BY ContextFacts, CallFacts DEF Here, Calling
<1>2. Mine = Entries(dk)
    BY <1>1 DEF Mine, Settled, Here, Makes
<1>3. e \in Positions /\ IsInode(e) /\ b <= TableEnd /\ e \notin Entries(dk)
    BY <1>1, FreeEntryFacts
<1>4. block \in DataArea
  <2>1. FreeBlocks(dk, sb, StartLab) # {}
      BY DEF Spared, BlockFound
  <2> QED
      BY <1>1, <2>1, Allocated
<1>5. ino \in Inode /\ ino.valid = 1
  <2>1. InitialSize(job.name) \in Nat
      BY <1>1, LenProperties DEF InitialSize
  <2>2. block \in Nat
      BY <1>4, AreaFacts
  <2> DEFINE ptrs == [NoInode.ptrs EXCEPT ![0] = block]
  <2>3. ptrs \in [0 .. PtrsPerInode - 1 -> Nat]
      BY <2>2 DEF NoInode
  <2> HIDE DEF ptrs
  <2> QED
      BY <2>1, <2>3 DEF Inode, ptrs
<1>6. image \in Sector
  <2>1. b \in Sectors
      BY <1>3, EntryPlace
  <2>2. dk[b] \in Sector
      BY <1>1, <2>1 DEF Disk
  <2> QED
      BY <1>3, <1>5, <2>2, WithInodeType
<1>7. PutAt(dk, dk2, e, ino)
    BY <1>1, <1>3, <1>5, PutByWrite
<1>8. disk' = [disk EXCEPT ![drive] = dk2] /\ dk2 \in Disk
    BY <1>1, <1>6, WriteSectorType DEF Write
<1> HIDE DEF dk2
<1>9. /\ Entries(dk2) = Entries(dk) \union {e}
      /\ \A p \in Entries(dk) : InodeAt(dk2, p) = InodeAt(dk, p)
  <2>1. InodeInTable(e)
      BY <1>3 DEF InodeInTable
  <2> QED
      BY <1>3, <1>5, <1>7, <2>1, PutEntries
<1>10. DataSame(dk, dk2)
    BY <1>3, <1>7, PutData
<1>11. fr'.entry = e
    BY DEF NoFrame
<1>12. SameInodes
  <2> SUFFICES ASSUME NEW d \in Drives PROVE Settled(d)' = Settled(d)
      BY DEF SameInodes
  <2>1. CASE d = drive
    <3>1. disk'[d] = dk2 /\ pc' \in Makes /\ pc \notin Makes
        BY <1>1, <1>8, <2>1 DEF Makes
    <3> QED
        BY <1>3, <1>9, <1>11, <2>1, <3>1 DEF Settled
  <2>2. CASE d # drive
    <3>1. disk'[d] = disk[d]
        BY <1>1, <1>8, <2>2
    <3> QED
        BY <2>2, <3>1 DEF Settled
  <2> QED
      BY <2>1, <2>2
<1> QED
    BY <1>1, <1>2, <1>8, <1>9, <1>10, <1>12, TableFiles

LEMMA StoreCreate == Context /\ FilesPacked /\ BlocksClean /\ Create /\ Spared => Steady
<1> SUFFICES ASSUME Context, FilesPacked, BlocksClean, Create, Spared PROVE Steady
    OBVIOUS
<1>1. Calling("create") /\ UNCHANGED drive
    BY CreateParts
<1>2. PICK info \in Lookup("create", job.name) :
          stale' = info /\ (CreateFound(info) \/ CreateNone(info) \/ CreateNew(info))
    BY CreateParts
<1>3. CASE CreateFound(info) \/ CreateNone(info)
  <2>1. disk' = disk /\ pc = "run" /\ pc' = "run"
      BY <1>1, <1>3 DEF CreateFound, CreateNone, Return, Calling
  <2>2. MakesAlike
      BY <2>1 DEF MakesAlike, Makes
  <2> QED
      BY <2>1, <2>2, QuietFiles
<1>4. CASE CreateNew(info)
  <2>1. pc' = "image"
      BY <1>4 DEF CreateNew
  <2>2. PICK e \in FreeEntry(disk[drive], sb) : CreateInode(e)
      BY <1>4 DEF CreateNew
  <2> QED
      BY <1>1, <2>1, <2>2, StoreCreateInode
<1> QED
    BY <1>2, <1>3, <1>4

(* A sector that holds one word.                                           *)
LEMMA OneWord ==
    ASSUME NEW b \in Nat \ {0}
    PROVE  /\ ToSector(<<b>>) \in Sector /\ ~LooksEmpty(ToSector(<<b>>))
           /\ \A c \in Cells : ToSector(<<b>>)[c] = IF c = 0 THEN b ELSE 0
<1>1. <<b>> \in Seq(Nat) /\ Len(<<b>>) = 1 /\ <<b>>[1] = b
    OBVIOUS
<1>2. ToSector(<<b>>) \in Sector
    BY <1>1, ToSectorType
<1>3. 0 \in Cells /\ 0 < WordsPerSector - 1 /\ Cells \subseteq Nat
    BY DiskAssumption DEF Cells
<1>4. \A c \in Cells : ToSector(<<b>>)[c] = IF c = 0 THEN b ELSE 0
  <2> SUFFICES ASSUME NEW c \in Cells PROVE ToSector(<<b>>)[c] = IF c = 0 THEN b ELSE 0
      OBVIOUS
  <2>1. ToSector(<<b>>)[c] = IF c < 1 THEN <<b>>[c + 1] ELSE 0
      BY <1>1 DEF ToSector
  <2>2. c \in Nat /\ (c < 1 <=> c = 0) /\ 0 + 1 = 1
      BY <1>3
  <2> QED
      BY <1>1, <2>1, <2>2
<1>5. ToSector(<<b>>)[0] # 0
    BY <1>3, <1>4
<1> QED
    BY <1>2, <1>3, <1>4, <1>5, NotEmpty

LEMMA StoreCreateImage == Context /\ FilesPacked /\ BlocksClean /\ CreateImage => Steady /\ CopyMade'
<1> SUFFICES ASSUME Context, FilesPacked, BlocksClean, CreateImage PROVE Steady /\ CopyMade'
    OBVIOUS
<1>1. /\ pc = "image" /\ pc' = "zero" /\ Write(fr.block, fr.image) /\ drive' = drive
      /\ \E b : fr' = [fr EXCEPT !.block2 = b]
    BY DEF CreateImage
<1>2. TypeOK /\ fr \in Frame /\ Here \in Disk
    BY ContextFacts DEF TypeOK
<1>3. fr'.entry = fr.entry /\ fr'.block = fr.block /\ fr.image \in Sector
    BY <1>1, <1>2 DEF Frame
<1>4. fr.entry \in Entries(Here) /\ fr.block \in DataArea /\ ~Held(fr.block)
    BY <1>1, MakesFacts DEF Makes
<1>5. fr.image = Here[InodeSector(fr.entry)] /\ ~LooksEmpty(fr.image)
  <2>1. fr.image = Here[InodeSector(fr.entry)]
      BY <1>1 DEF Context, Owned, InCreate
  <2> QED
      BY <1>2, <1>4, <2>1, InodeNotEmpty
<1>6. MakesAlike
    BY <1>1, <1>3 DEF MakesAlike, Makes
<1>7. Steady /\ Here' = WriteSector(Here, fr.block, fr.image)
    BY <1>1, <1>3, <1>4, <1>5, <1>6, UnclaimedFiles
<1>8. CopyMade'
  <2>1. InodeSector(fr.entry) \in Sectors /\ InodeSector(fr.entry) # fr.block /\ fr.block \in Sectors
      BY <1>4, EntryFacts, EntryPlace, AreaFacts
  <2>2. Here'[fr.block] = fr.image
      BY <1>2, <1>7, <2>1, ReadWritten
  <2>3. Here'[InodeSector(fr.entry)] = Here[InodeSector(fr.entry)]
      BY <1>7, <2>1 DEF WriteSector
  <2> QED
      BY <1>3, <1>5, <2>2, <2>3 DEF CopyMade
<1> QED
    BY <1>7, <1>8

LEMMA StoreCreateBlock ==
    Context /\ FilesPacked /\ BlocksClean /\ (CreateZero \/ CreatePointer) => Steady
<1> SUFFICES ASSUME Context, FilesPacked, BlocksClean, CreateZero \/ CreatePointer PROVE Steady
    OBVIOUS
<1>1. /\ pc \in {"zero", "pointer"} /\ pc' \in {"pointer", "name"} /\ UNCHANGED <<drive, fr>>
      /\ \/ Write(fr.block, ZeroSector)
         \/ Write(fr.block, ToSector(<<fr.block2>>))
    BY DEF CreateZero, CreatePointer
<1>2. fr.block \in DataArea /\ ~Held(fr.block)
    BY <1>1, MakesFacts DEF Makes
<1>3. fr.block2 \in Nat \ {0}
  <2>1. fr.block2 \in DataArea
      BY <1>1 DEF Context, Owned, InCreate, Makes
  <2> QED
      BY <2>1, AreaFacts
<1>4. MakesAlike
    BY <1>1 DEF MakesAlike, Makes
<1>5. ZeroSector \in Sector
    BY DEF ZeroSector, Sector
<1>6. CASE Write(fr.block, ZeroSector)
    BY <1>1, <1>2, <1>4, <1>5, <1>6, UnclaimedFiles
<1>7. CASE Write(fr.block, ToSector(<<fr.block2>>))
    BY <1>1, <1>2, <1>3, <1>4, <1>7, OneWord, UnclaimedFiles
<1> QED
    BY <1>1, <1>6, <1>7

(* A new file is empty.                                                    *)
LEMMA NewHolds ==
    ASSUME NEW dk \in Disk, NEW ino, NEW b \in DataArea, NEW b2 \in DataArea,
           ino.ptrs = [NoInode.ptrs EXCEPT ![0] = b], dk[b] = ToSector(<<b2>>),
           NEW name \in Seq(Nat), IsName(name), dk[b2] = ToSector(name)
    PROVE  Holds(dk, ino, 1, name, <<>>)
<1>1. \A i \in Pointers, c \in Places :
          Claim(dk, ino, i, c) = IF i # 0 THEN 0 ELSE IF c = -1 THEN b ELSE IF c = 0 THEN b2 ELSE 0
    BY NewClaim
<1>2. /\ -1 \notin Cells /\ 0 \in Cells /\ -1 \in Places /\ Cells \subseteq Places /\ 0 \in Pointers
      /\ WordsPerSector \in Nat /\ WordsPerSector >= 6 /\ 1 * WordsPerSector = WordsPerSector
    BY PlaceFacts, DiskAssumption
<1>3. b # 0 /\ b2 # 0 /\ b2 \in Sectors
    BY AreaFacts
<1>4. \A i \in Pointers : ino.ptrs[i] = IF i = 0 THEN b ELSE 0
  <2> SUFFICES ASSUME NEW i \in Pointers PROVE ino.ptrs[i] = IF i = 0 THEN b ELSE 0
      OBVIOUS
  <2>1. Claim(dk, ino, i, -1) = IF i # 0 THEN 0 ELSE IF -1 = -1 THEN b ELSE IF -1 = 0 THEN b2 ELSE 0
      BY <1>1, <1>2
  <2>2. Claim(dk, ino, i, -1) = ino.ptrs[i]
      BY DEF Claim
  <2> QED
      BY <2>1, <2>2
<1>5. \A k \in Cells : Claim(dk, ino, 0, k) = IF k = 0 THEN b2 ELSE 0
    BY <1>1, <1>2
<1>6. \A k \in Cells : k < 1 <=> k = 0
    BY DEF Cells
<1>7. Shape(dk, ino, 1)
    BY <1>2, <1>3, <1>4, <1>5, <1>6 DEF Shape
<1>8. ASSUME NEW k \in Cells, NEW c \in Cells, k < 1
      PROVE  BlockCell(dk, ino, k, c) = Content(name, <<>>, k * WordsPerSector + c)
  <2>1. k = 0
      BY <1>6, <1>8
  <2>2. Claim(dk, ino, 0, k) = b2
      BY <1>5, <2>1
  <2>3. BlockCell(dk, ino, k, c) = ToSector(name)[c]
      BY <1>3, <2>2 DEF BlockCell, ReadSector
  <2>4. ToSector(name)[c] = IF c < Len(name) THEN name[c + 1] ELSE 0
      BY DEF ToSector
  <2>5. c \in Nat /\ k * WordsPerSector + c = c
      BY <1>2, <2>1 DEF Cells
  <2>6. Content(name, <<>>, c) = IF c < Len(name) THEN name[c + 1] ELSE 0
    <3>1. Len(name) \in Nat /\ Len(<<>>) = 0
        OBVIOUS
    <3>2. ~(c > Len(name) /\ c <= Len(name) + 0)
        BY <2>5, <3>1
    <3> QED
        BY <3>1, <3>2 DEF Content
  <2> QED
      BY <2>3, <2>4, <2>5, <2>6
<1>9. Filled(dk, ino, 1, name, <<>>)
    BY <1>8 DEF Filled
<1>10. <<>> \in Texts /\ Len(name) + 1 + Len(<<>>) <= 1 * WordsPerSector
    BY <1>2 DEF Texts, IsName
<1> QED
    BY <1>7, <1>9, <1>10 DEF Holds

(* The files of the drives after one more has been made.                   *)
MadeFile ==
    /\ FileText(Here, job.name) = None /\ FileText(Here', job.name) = <<>>
    /\ \A d \in Drives, n \in Names :
          d # drive \/ n # job.name => FileText(disk'[d], n) = FileText(disk[d], n)

(* What a step leaves of the files that are there after it.                *)
FileSame(d, p) ==
    /\ p \in Settled(d)
    /\ InodeAt(disk'[d], p) = InodeAt(disk[d], p)
    /\ NameAt(disk'[d], p) = NameAt(disk[d], p)
    /\ Text(disk'[d], InodeAt(disk'[d], p)) = Text(disk[d], InodeAt(disk[d], p))

FileMade(d, p) ==
    /\ d = drive /\ InodeAt(disk'[d], p) = InodeAt(Here, fr.entry)
    /\ NameAt(disk'[d], p) = job.name /\ Text(disk'[d], InodeAt(disk'[d], p)) = <<>>

FilesKept == \A d \in Drives : \A p \in Settled(d)' : FileSame(d, p)
FilesMade == \A d \in Drives : \A p \in Settled(d)' : FileSame(d, p) \/ FileMade(d, p)

LEMMA ViewMade ==
    ASSUME NEW dk, NEW dk2, NEW set, NEW e, View(dk, set), View(dk2, set \union {e}),
           TextSame(dk, dk2, set), NEW n \in Names, NameAt(dk2, e) # n
    PROVE  FileText(dk2, n) = FileText(dk, n)
<1>1. CASE NoneNamed(dk, set, n)
  <2>1. NoneNamed(dk2, set \union {e}, n)
      BY <1>1 DEF NoneNamed, TextSame
  <2> QED
      BY <1>1, <2>1 DEF View
<1>2. CASE ~NoneNamed(dk, set, n)
  <2>1. PICK p \in set : NameAt(dk, p) = n
      BY <1>2 DEF NoneNamed
  <2> QED
      BY <2>1 DEF View, TextSame
<1> QED
    BY <1>1, <1>2

LEMMA StoreCreateName ==
    ASSUME Context, FilesPacked, BlocksClean, CreateName, Seeable, Seeable', job.name \in Names
    PROVE  FilesPacked' /\ BlocksClean' /\ MadeFile /\ FilesMade
<1> DEFINE dk2 == WriteSector(Here, fr.block2, ToSector(job.name))
           e   == fr.entry
<1>1. /\ pc = "name" /\ pc' = "created" /\ Write(fr.block2, ToSector(job.name))
      /\ UNCHANGED <<lab, drive, sb, stale, todo, fr, job>>
    BY DEF CreateName, env, program
<1>2. /\ Here \in Disk /\ Mine \in SUBSET Entries(Here) /\ Separate(Here, Mine)
      /\ job.name \in Seq(Nat) /\ IsName(job.name) /\ drive \in Drives
      /\ disk \in [Drives -> Disk] /\ Here = disk[drive] /\ Mine = Settled(drive)
    BY ContextFacts DEF Here, Mine
<1>3. /\ e \in Entries(Here) /\ NewInode(InodeAt(Here, e)) /\ fr.block \in DataArea
      /\ NoneNamed(Here, Mine, job.name) /\ Mine = Entries(Here) \ {e}
    BY <1>1, MakesFacts DEF Makes
<1>4. /\ fr.block2 \in DataArea /\ fr.block2 # fr.block /\ ~Claimed(Here, Mine, fr.block2)
      /\ Here[fr.block] = ToSector(<<fr.block2>>)
    BY <1>1 DEF Context, Owned, InCreate, Makes, Held
<1>5. disk' = [disk EXCEPT ![drive] = dk2]
    BY <1>1 DEF Write, Here
<1>6. /\ Entries(dk2) = Entries(Here)
      /\ \A p \in Entries(Here) : InodeAt(dk2, p) = InodeAt(Here, p)
    BY <1>2, <1>4, UnclaimedWrite
<1>7. dk2 \in Disk
  <2>1. ToSector(job.name) \in Sector
      BY <1>2, ToSectorType
  <2> QED
      BY <1>2, <2>1, WriteSectorType
<1>8. fr.block2 \in Sectors /\ fr.block \in Sectors
    BY <1>3, <1>4, DataOutside
<1>9. dk2[fr.block2] = ToSector(job.name) /\ dk2[fr.block] = ToSector(<<fr.block2>>)
  <2>1. dk2[fr.block] = Here[fr.block]
      BY <1>4, <1>8 DEF WriteSector
  <2> QED
      BY <1>2, <1>4, <1>8, <2>1, ReadWritten
<1>10. \A p \in Mine : Untouched(Here, dk2, InodeAt(Here, p))
    BY <1>2, <1>4, UnclaimedUntouched
<1>11. Clean(dk2)
  <2>1. LooksEmpty(ToSector(job.name)) => ToSector(job.name) = ZeroSector
    <3> SUFFICES ASSUME LooksEmpty(ToSector(job.name)) PROVE ToSector(job.name) = ZeroSector
        OBVIOUS
    <3>1. 0 \in Cells /\ 0 < WordsPerSector - 1
        BY DiskAssumption DEF Cells
    <3>2. ToSector(job.name)[0] = 0
        BY <3>1 DEF LooksEmpty
    <3>3. Len(job.name) = 0
      <4>1. Len(job.name) \in Nat
          BY <1>2
      <4>2. 0 < Len(job.name) => job.name[0 + 1] # 0
          BY <1>2, <4>1 DEF IsName
      <4>3. ToSector(job.name)[0] = IF 0 < Len(job.name) THEN job.name[0 + 1] ELSE 0
          BY <3>1 DEF ToSector
      <4> QED
          BY <3>2, <4>1, <4>2, <4>3
    <3>4. \A c \in Cells : ~(c < 0)
        BY DEF Cells
    <3> QED
        BY <3>3, <3>4 DEF ToSector, ZeroSector
  <2> QED
      BY <1>2, <1>8, <2>1, CleanWrite DEF BlocksClean
<1> HIDE DEF dk2
<1>12. InodeAt(dk2, e).ptrs = [NoInode.ptrs EXCEPT ![0] = fr.block]
    BY <1>3, <1>6 DEF NewInode
<1>13. Holds(dk2, InodeAt(dk2, e), 1, job.name, <<>>)
    BY <1>2, <1>3, <1>4, <1>7, <1>9, <1>12, NewHolds
<1>14. NameAt(dk2, e) = job.name /\ Text(dk2, InodeAt(dk2, e)) = <<>>
  <2>1. InodeAt(dk2, e) \in Inode
      BY <1>3, <1>7, EntryFacts, InodeAtType
  <2> QED
      BY <1>7, <1>13, <2>1, HeldName, HeldText DEF NameAt
<1>15. AreFiles(dk2, Mine) /\ TextSame(Here, dk2, Mine)
  <2>1. AreFiles(Here, Mine)
      BY <1>2 DEF FilesPacked
  <2>2. \A p \in Mine : InodeAt(dk2, p).ptrs = InodeAt(Here, p).ptrs
      BY <1>2, <1>6
  <2> QED
      BY <1>2, <1>7, <1>10, <2>1, <2>2, FilesSame
<1>16. AreFiles(dk2, Mine \union {e})
    BY <1>13, <1>14, <1>15 DEF AreFiles, IsFile
<1>17. Here' = dk2 /\ \A d \in Drives : d = drive => Settled(d)' = Mine \union {e}
  <2>1. disk'[drive] = dk2 /\ drive' = drive
      BY <1>1, <1>2, <1>5
  <2>2. Entries(dk2) = Mine \union {e} /\ pc' \notin Makes
      BY <1>1, <1>3, <1>6 DEF Makes
  <2> QED
      BY <2>1, <2>2 DEF Here, Settled
<1>18. \A d \in Drives : d # drive => disk'[d] = disk[d] /\ Settled(d)' = Settled(d)
  <2> SUFFICES ASSUME NEW d \in Drives, d # drive
               PROVE  disk'[d] = disk[d] /\ Settled(d)' = Settled(d)
      OBVIOUS
  <2>1. disk'[d] = disk[d]
      BY <1>2, <1>5
  <2> QED
      BY <1>1, <2>1 DEF Settled
<1>19. disk'[drive] = dk2
    BY <1>2, <1>5
<1>20. FilesPacked'
  <2> SUFFICES ASSUME NEW d \in Drives PROVE AreFiles(disk'[d], Settled(d)')
      BY DEF FilesPacked
  <2>1. CASE d = drive
      BY <1>16, <1>17, <1>19, <2>1
  <2>2. CASE d # drive
      BY <1>18, <2>2 DEF FilesPacked
  <2> QED
      BY <2>1, <2>2
<1>21. BlocksClean'
    BY <1>11, <1>18, <1>19 DEF BlocksClean
<1>22. View(Here, Mine)
    BY <1>2, SeesNow DEF Sees
<1>23. View(dk2, Mine \union {e})
  <2>1. \A d \in Drives : View(disk'[d], Settled(d)')
      BY SeesNext DEF Sees
  <2> QED
      BY <1>2, <1>17, <1>19, <2>1
<1>24. FileText(Here, job.name) = None
    BY <1>3, <1>22 DEF View
<1>25. FileText(dk2, job.name) = <<>>
    BY <1>14, <1>23 DEF View
<1>26. ASSUME NEW d \in Drives, NEW n \in Names, d # drive \/ n # job.name
       PROVE  FileText(disk'[d], n) = FileText(disk[d], n)
  <2>1. CASE d # drive
      BY <1>18, <2>1
  <2>2. CASE d = drive
    <3>1. NameAt(dk2, e) # n
        BY <1>14, <1>26, <2>2
    <3>2. FileText(dk2, n) = FileText(Here, n)
        BY <1>15, <1>22, <1>23, <3>1, ViewMade
    <3> QED
        BY <1>2, <1>19, <2>2, <3>2
  <2> QED
      BY <2>1, <2>2
<1>27. MadeFile
    BY <1>17, <1>24, <1>25, <1>26 DEF MadeFile
<1>28. FilesMade
  <2> SUFFICES ASSUME NEW d \in Drives, NEW p \in Settled(d)'
               PROVE  FileSame(d, p) \/ FileMade(d, p)
      BY DEF FilesMade
  <2>1. CASE d # drive
      BY <1>18, <2>1 DEF FileSame
  <2>2. CASE d = drive /\ p = e
    <3>1. InodeAt(disk'[d], p) = InodeAt(Here, e)
        BY <1>3, <1>6, <1>19, <2>2
    <3> QED
        BY <1>14, <1>19, <2>2, <3>1 DEF FileMade
  <2>3. CASE d = drive /\ p # e
    <3>1. p \in Mine
        BY <1>17, <2>3
    <3>2. InodeAt(disk'[d], p) = InodeAt(disk[d], p)
        BY <1>2, <1>6, <1>19, <2>3, <3>1
    <3> QED
        BY <1>2, <1>15, <1>19, <2>3, <3>1, <3>2 DEF FileSame, TextSame
  <2> QED
      BY <2>1, <2>2, <2>3
<1> QED
    BY <1>20, <1>21, <1>27, <1>28

=============================================================================
