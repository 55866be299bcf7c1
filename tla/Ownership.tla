------------------------------ MODULE Ownership ------------------------------
(***************************************************************************)
(* Which blocks belong to which file, at every moment of every call.  An   *)
(* inode claims the blocks its pointers name and those that the words of   *)
(* its pointer blocks name.  On drives in use no block is claimed twice,   *)
(* as long as a behaviour is spared what takes the separation of files     *)
(* away.                                                                   *)
(***************************************************************************)
EXTENDS ESFSProperties

CONSTANT Capacity  \* the size in bytes that the superblocks record

IsName(n) == Len(n) < WordsPerSector /\ \A k \in 1 .. Len(n) : n[k] # 0

(* The drives have the blocks that their superblocks count, and what the   *)
(* user types has a name's length and no NUL.                              *)
ASSUME OwnershipAssumption ==
    /\ Capacity \in Nat \ {0}
    /\ Geometry(Capacity, 0).blocks < DiskSectors
    /\ \A j \in Commands : IsName(j.name)

Pointers == 0 .. PtrsPerInode - 1
TableEnd == SuperblockBlock + Geometry(Capacity, 0).inode_blocks
DataArea == TableEnd + 1 .. Geometry(Capacity, 0).blocks

-----------------------------------------------------------------------------
(* Claims.                                                                 *)

(* The inodes in use, and their names.                                     *)
Entries(dk) == {p \in LiveEntries(dk) : InodeSector(p) <= TableEnd}
NameAt(dk, p) == NameOf(dk, InodeAt(dk, p))

(* What an inode claims at place c of its pointer i: the block the pointer *)
(* names at place -1, else the one that word c of that block names.        *)
Places == {-1} \union Cells
Claim(dk, ino, i, c) ==
    IF c = -1 \/ ino.ptrs[i] = 0 THEN ino.ptrs[i] ELSE ReadSector(dk, ino.ptrs[i])[c]

(* An inode has a pointer block and every pointer block a data block; all  *)
(* it claims lies in the data area.                                        *)
WellFormed(dk, ino) ==
    /\ ino.ptrs[0] # 0
    /\ \A i \in Pointers : ino.ptrs[i] # 0 => Claim(dk, ino, i, 0) # 0
    /\ \A i \in Pointers, c \in Places : Claim(dk, ino, i, c) \in DataArea \union {0}

(* No block is claimed twice, and no name is used twice.                   *)
OnlyClaim(dk, set, p, i, c) ==
    \A q \in set, j \in Pointers, e \in Places :
        Claim(dk, InodeAt(dk, q), j, e) = Claim(dk, InodeAt(dk, p), i, c)
            => q = p /\ j = i /\ e = c
ClaimedOnce(dk, set) ==
    \A p \in set, i \in Pointers, c \in Places :
        Claim(dk, InodeAt(dk, p), i, c) # 0 => OnlyClaim(dk, set, p, i, c)
NamedOnce(dk, set) == \A p, q \in set : NameAt(dk, p) = NameAt(dk, q) => p = q

Separate(dk, set) ==
    /\ \A p \in set : WellFormed(dk, InodeAt(dk, p))
    /\ ClaimedOnce(dk, set) /\ NamedOnce(dk, set)

Claimed(dk, set, b) ==
    \E p \in set, i \in Pointers, c \in Places : b = Claim(dk, InodeAt(dk, p), i, c)

NoneNamed(dk, set, name) == \A p \in set : NameAt(dk, p) # name

(* An inode of one of the files, or of none of them: then what it claims   *)
(* is no file's, and its data blocks are not its pointer blocks.           *)
Found(dk, set, name, ino) ==
    \E p \in set : InodeAt(dk, p).ptrs = ino.ptrs /\ NameAt(dk, p) = name

Ghost(dk, set, name, ino) ==
    /\ WellFormed(dk, ino)
    /\ \A i, j \in Pointers, c \in Cells :
          ino.ptrs[i] # 0 /\ ino.ptrs[j] # 0 => Claim(dk, ino, j, c) # ino.ptrs[i]
    /\ \A i \in Pointers, c \in Places :
          Claim(dk, ino, i, c) # 0 => ~Claimed(dk, set, Claim(dk, ino, i, c))
    /\ NoneNamed(dk, set, name)

-----------------------------------------------------------------------------
(* Drives in use: all of one size, on record in their superblocks with a   *)
(* cursor in the data area, no file of a drive sharing a block.            *)
IsSuperblock(s) ==
    s = Geometry(Capacity, s.last_allocated_block) /\ s.last_allocated_block \in DataArea

InUse ==
    \A d \in Drives : IsSuperblock(SuperblockOf(disk[d])) /\ Separate(disk[d], Entries(disk[d]))

(* What takes the separation away is a loss of power in a call, inodes     *)
(* hidden behind a gap or taken for one behind the table, a full drive, and*)
(* a file that outgrows a pointer block.                                   *)
Formats == {"super", "inodes"}

EntriesShown ==
    \A d \in Drives :
        /\ pc \notin Formats => Entries(disk[d]) \subseteq Reached(disk[d], NullFiles)
        /\ pc \notin Formats \union {"zero"} => Reached(disk[d], NullFiles) \subseteq Entries(disk[d])

BlockFound ==
    /\ pc' = "image" => FreeBlocks(disk[drive], sb, StartLab) # {}
    /\ pc' = "zero" => FreeBlocks(disk'[drive], sb, lab) # {}
    /\ pc = "blocks" /\ fr'.buf # fr.buf => FreeBlocks(disk[drive], sb, lab) # {}

Spared == NoLoss' /\ EntriesShown' /\ BlockFound /\ pc' # "chain"

SparedSpec == Init /\ InUse /\ EntriesShown /\ [][Next /\ Spared]_vars

-----------------------------------------------------------------------------
(* The inductive invariant.                                                *)

(* The inode that file_create is making is no file yet.                    *)
Makes == {"image", "zero", "pointer", "name"}
Settled(d) == Entries(disk[d]) \ (IF pc \in Makes /\ d = drive THEN {fr.entry} ELSE {})

Here    == disk[drive]
Mine    == Settled(drive)
Held(b) == Claimed(Here, Mine, b)

Geometries ==
    /\ \A d \in Drives : IsSuperblock(SuperblockOf(disk[d]))
    /\ pc # "off" => lab \in DataArea
    /\ pc \notin {"off", "shell"} => IsSuperblock(sb)

FilesSeparate == \A d \in Drives : Separate(disk[d], Settled(d))

NewInode(ino) == ino.valid = 1 /\ ino.ptrs = [NoInode.ptrs EXCEPT ![0] = fr.block]

InCreate ==
    /\ pc \in Makes =>
          /\ fr.entry \in Entries(Here) /\ NewInode(InodeAt(Here, fr.entry))
          /\ fr.block \in DataArea /\ ~Held(fr.block)
          /\ NoneNamed(Here, Mine, job.name) /\ stale.valid # 1
    /\ pc = "image" => fr.image = Here[InodeSector(fr.entry)]
    /\ pc \in Makes \ {"image"} => fr.block2 \in DataArea \ {fr.block} /\ ~Held(fr.block2)
    /\ pc = "name" => Here[fr.block] = ToSector(<<fr.block2>>)
    /\ pc = "created" =>
          /\ fr.entry \in Entries(Here) /\ NewInode(InodeAt(Here, fr.entry))
          /\ Here[fr.block] = ToSector(<<fr.block2>>) /\ Here[fr.block2] = ToSector(job.name)

Deletes == {"load", "wipe"}
Writes  == {"pointers", "blocks", "data", "size", "written"}

IsGhost(ino) == Ghost(Here, Mine, job.name, ino)
IsKnown(ino) == IsGhost(ino) \/ Found(Here, Mine, job.name, ino)

InHand ==
    /\ stale.valid = 1 => IsKnown(stale) /\ pc \notin {"off", "shell"}
    /\ pc \in Deletes => stale.valid = 1 /\ IsGhost(stale) /\ fr.info.ptrs = stale.ptrs
    /\ pc \in Writes => IsKnown(fr.info) /\ (stale.valid = 1 => fr.info.ptrs = stale.ptrs)

InDelete ==
    /\ pc \in Deletes => fr.least \in DataArea \union {0}
    /\ pc = "load" /\ fr.least = 0 => fr.i = 0
    /\ pc = "wipe" /\ fr.least = 0 => fr.rest # {}
    /\ pc = "wipe" /\ fr.rest # {} =>
          \E i \in Pointers : fr.info.ptrs[i] # 0 /\ fr.buf = Here[fr.info.ptrs[i]]

InWrite ==
    /\ pc # "chain"
    /\ pc \in Writes => fr.info.valid = 1
    /\ pc \in {"blocks", "data"} =>
          fr.i \in Pointers /\ fr.info.ptrs[fr.i] # 0 /\ fr.buf = Here[fr.info.ptrs[fr.i]]
    /\ pc = "data" =>
          /\ fr.j \in Cells /\ fr.buf[fr.j] # 0
          /\ fr.i = 0 /\ fr.j = 0 => Prefix(fr.data) = Prefix(Here[fr.buf[0]])

(* Nothing is in hand when a drive is formatted.                           *)
FormatAlone ==
    (\E k \in 1 .. Len(todo) : todo[k] = "format") => todo = <<"format">> /\ stale.valid # 1

(* format does nothing else, and spares the superblock's own sector.       *)
InFormat ==
    /\ pc \in {"super", "inodes"} => todo = <<"format">>
    /\ pc = "inodes" => fr.i # 0

Owned == /\ Geometries /\ FilesSeparate /\ InCreate /\ InHand /\ InDelete /\ InWrite
         /\ FormatAlone /\ InFormat
=============================================================================
