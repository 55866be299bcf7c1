------------------------------ MODULE ESFSDisk ------------------------------
(***************************************************************************)
(* The on-disk format of ESFS, SystemZero's file system, and the           *)
(* operations of kernel/drivers/disk/fs.c that only look at a disk: the    *)
(* inode table, the lookup by name, the search for a free block, the       *)
(* filling of a data block.  No variables: a disk is a value.              *)
(*                                                                         *)
(* A sector is a function from its cells to naturals.  The code reads the  *)
(* same sector as 128 words (inodes, pointer blocks) and as 512 bytes      *)
(* (names and text); here both are the WordsPerSector cells of the sector, *)
(* so one cell stands for a word or for a byte.                            *)
(***************************************************************************)
EXTENDS Integers, Sequences, FiniteSets, FiniteSetsExt, SequencesExt

CONSTANTS
    DiskSectors,      \* sectors of a drive
    SuperblockBlock,  \* superblock_block: 200
    WordsPerSector,   \* 128 words, 512 bytes
    PtrsPerInode,     \* indirect_pointers of an inode: 14
    NullFiles,        \* null entries in a row that end a scan: 100
    InodeShare,       \* one block in InodeShare is an inode block: 10
    ProbeStep,        \* sectors between two probes of the drive's size: 10
    Magic,            \* 0xf0f03410
    WordRange         \* 2^32, the values of a uint32_t

InodeWords      == PtrsPerInode + 2
InodesPerSector == WordsPerSector \div InodeWords

ASSUME DiskAssumption ==
    /\ SuperblockBlock \in Nat \ {0}
    /\ DiskSectors \in Nat /\ DiskSectors > SuperblockBlock + 1
    /\ WordsPerSector \in Nat /\ WordsPerSector >= 6
    /\ PtrsPerInode \in Nat \ {0}
    /\ WordsPerSector % InodeWords = 0
    /\ NullFiles \in Nat \ {0}
    /\ InodeShare \in Nat \ {0}
    /\ ProbeStep \in Nat \ {0}
    /\ Magic \in Nat \ {0}
    /\ WordRange \in Nat \ {0}

Sectors == 0 .. DiskSectors - 1
Cells   == 0 .. WordsPerSector - 1
Sector  == [Cells -> Nat]
Disk    == [Sectors -> Sector]

ZeroSector == [c \in Cells |-> 0]

(* A transfer past the last sector fails in the drive: the data port reads *)
(* as zeros and a write is lost.                                           *)
ReadSector(dk, b) == IF b \in Sectors THEN dk[b] ELSE ZeroSector

WriteSector(dk, b, data) ==
    IF b \in Sectors THEN [dk EXCEPT ![b] = data] ELSE dk

(* memcpy of a few words, or of a name, into a zeroed sector buffer.       *)
ToSector(s) == [c \in Cells |-> IF c < Len(s) THEN s[c + 1] ELSE 0]

(* The bytes of a sector up to its first NUL.                              *)
Prefix(sector) ==
    LET stop == Min({c \in Cells : sector[c] = 0} \union {WordsPerSector})
    IN  [i \in 1 .. stop |-> sector[i - 1]]

(* The int a uint32_t is converted to.                                     *)
Signed(x) ==
    LET w == x % WordRange IN IF 2 * w >= WordRange THEN w - WordRange ELSE w

(* file_size / 512 + 1, rounding towards zero.                             *)
SectorsToRead(size) ==
    IF size >= 0 THEN size \div WordsPerSector + 1
    ELSE 1 - (-size) \div WordsPerSector

-----------------------------------------------------------------------------
(* The superblock.                                                         *)

Superblock == [magic : Nat, blocks : Nat, inode_blocks : Nat, inodes : Nat,
               disk_size : Nat, last_allocated_block : Nat]

SuperblockSector(sb) ==
    ToSector(<<sb.magic, sb.blocks, sb.inode_blocks, sb.inodes,
               sb.disk_size, sb.last_allocated_block>>)

SuperblockOf(dk) ==
    LET s == dk[SuperblockBlock]
    IN  [magic |-> s[0], blocks |-> s[1], inode_blocks |-> s[2],
         inodes |-> s[3], disk_size |-> s[4], last_allocated_block |-> s[5]]

(* The geometry init_fs derives from the size of the drive in bytes.       *)
Geometry(size, lab) ==
    LET blocks == size \div WordsPerSector
    IN  [magic |-> Magic,
         blocks |-> blocks,
         inode_blocks |-> blocks \div InodeShare,
         inodes |-> (blocks \div InodeShare) * InodesPerSector,
         disk_size |-> size,
         last_allocated_block |-> lab]

(* The probing loop reads sectors 0, ProbeStep, 2*ProbeStep ... until the  *)
(* drive reports an error and counts ProbeStep sectors for every read, the *)
(* failing one included; ATA_err is not initialised, so the loop may also  *)
(* not run at all (skipped).  The reserved sectors are then subtracted, in *)
(* uint32_t arithmetic.                                                    *)
ProbedSize_Whole(skipped) ==  \* a mistake: the reserved sectors counted
    IF skipped THEN (-SuperblockBlock * WordsPerSector) % WordRange
    ELSE ((DiskSectors + ProbeStep - 1) \div ProbeStep + 1) * ProbeStep * WordsPerSector

ProbedSize(skipped) ==
    LET reads == (DiskSectors + ProbeStep - 1) \div ProbeStep + 1
        bytes == IF skipped THEN 0 ELSE reads * ProbeStep * WordsPerSector
    IN  (bytes - SuperblockBlock * WordsPerSector) % WordRange

-----------------------------------------------------------------------------
(* The inode table.  A scan looks at EntriesPerSector entries of every     *)
(* sector after the superblock: the inodes and, because its loop runs to   *)
(* j <= 128, one phantom entry past the end of the sector buffer, which is *)
(* never a valid inode here.  An entry is named by its position in that    *)
(* scan.  The scan does not stop at the end of the inode table: it stops   *)
(* when it has met `limit' entries in a row that are not valid.            *)

EntriesPerSector == InodesPerSector + 1
Positions == 0 .. (DiskSectors - SuperblockBlock - 1) * EntriesPerSector - 1

InodeSector(p) == SuperblockBlock + 1 + p \div EntriesPerSector
InodeCell(p)   == (p % EntriesPerSector) * InodeWords
IsInode(p)     == p % EntriesPerSector < InodesPerSector

Inode == [valid : Nat, size : Nat, ptrs : [0 .. PtrsPerInode - 1 -> Nat]]
NoInode == [valid |-> 0, size |-> 0, ptrs |-> [i \in 0 .. PtrsPerInode - 1 |-> 0]]

ValidAt(dk, p) == dk[InodeSector(p)][InodeCell(p)]

InodeAt(dk, p) ==
    LET s == dk[InodeSector(p)]
        c == InodeCell(p)
    IN  [valid |-> s[c], size |-> s[c + 1],
         ptrs |-> [i \in 0 .. PtrsPerInode - 1 |-> s[c + 2 + i]]]

(* The sector of entry p with the inode stored in it.                      *)
WithInode(sector, p, ino) ==
    LET c == InodeCell(p)
    IN  [x \in Cells |->
            CASE x = c     -> ino.valid
              [] x = c + 1 -> ino.size
              [] x \in c + 2 .. c + 1 + PtrsPerInode -> ino.ptrs[x - c - 2]
              [] OTHER     -> sector[x]]

LiveEntries(dk) == {p \in Positions : IsInode(p) /\ ValidAt(dk, p) = 1}

(* Null entries in a row before the sector of entry p is read.             *)
NullsBefore(live, p) ==
    LET start == (p \div EntriesPerSector) * EntriesPerSector
    IN  start - 1 - Max({q \in live : q < start} \union {-1})

Reached(dk, limit) ==
    LET live == LiveEntries(dk)
    IN  {p \in live : \A q \in live :
            q \div EntriesPerSector <= p \div EntriesPerSector
                => NullsBefore(live, q) < limit}

(* The name of a file is the prefix of its first data block.               *)
NameOf(dk, ino) ==
    Prefix(ReadSector(dk, ReadSector(dk, ino.ptrs[0])[0]))

Matches(dk, name) ==
    {p \in Reached(dk, NullFiles) : NameOf(dk, InodeAt(dk, p)) = name}

(* The entries file_list prints: its scan gives up one null entry later.   *)
Listed(dk) == Reached(dk, NullFiles + 1)

(* get_file_info returns the first match.  With no match it runs off its   *)
(* end and the caller's inode_t keeps what its stack slot held: leftover   *)
(* is the set of inodes that may be.                                       *)
GetFileInfo(dk, name, leftover) ==
    LET found == Matches(dk, name)
    IN  IF found = {} THEN leftover ELSE {InodeAt(dk, Min(found))}

(* set_file_info overwrites every match.                                   *)
SetFileInfo(dk, name, ino) ==
    LET found  == Matches(dk, name)
        At(b, x) == {p \in found : InodeSector(p) = b
                        /\ x \in InodeCell(p) .. InodeCell(p) + InodeWords - 1}
        Updated(b) == [x \in Cells |->
                          IF At(b, x) = {} THEN dk[b][x]
                          ELSE WithInode(dk[b], Min(At(b, x)), ino)[x]]
        touched == {InodeSector(p) : p \in found}
    IN  [b \in Sectors |-> IF b \in touched THEN Updated(b) ELSE dk[b]]

(* The first entry of the inode table proper whose valid word is 0, as a   *)
(* set: empty when the table is full.                                      *)
InodeTableSector_FromZero(i) == i  \* a mistake: the superblock's place left out
InodeTableSector(i) == SuperblockBlock + i

FreeEntries(dk, sb) ==
    {p \in Positions : /\ IsInode(p)
                       /\ InodeSector(p) <= InodeTableSector(sb.inode_blocks)
                       /\ ValidAt(dk, p) = 0}

FreeEntry(dk, sb) ==
    IF FreeEntries(dk, sb) = {} THEN {} ELSE {Min(FreeEntries(dk, sb))}

-----------------------------------------------------------------------------
(* The search for a free block.                                            *)

(* Every word of every pointer block of the files the scan reaches; an     *)
(* unused pointer is followed too, to sector 0.                            *)
PointedTo(dk) ==
    UNION {LET ptr == InodeAt(dk, p).ptrs[i]
           IN  {ReadSector(dk, ptr)[c] : c \in Cells} :
                p \in Reached(dk, NullFiles + 1), i \in 0 .. PtrsPerInode - 1}

(* data_i >= 127: the last word of the sector is not looked at.            *)
LooksEmpty_NoBreak(sector) == TRUE  \* a mistake: no break at a word that is set
LooksEmpty(sector) == \A c \in Cells : c < WordsPerSector - 1 => sector[c] = 0

FreeBlocks_EmptyOnly(dk, sb, lab) ==  \* a mistake: the inodes not consulted
    {b \in lab .. sb.blocks : b # 0 /\ LooksEmpty(ReadSector(dk, b))}

FreeBlocks(dk, sb, lab) ==
    LET used == PointedTo(dk)
    IN  {b \in lab .. sb.blocks :
            b # 0 /\ LooksEmpty(ReadSector(dk, b)) /\ b \notin used}

(* The block allocate_data_block returns, searching upwards from the       *)
(* cursor lab.  When it finds none it runs off its end, and the caller     *)
(* gets the loop variable: the first block past the last, or the cursor    *)
(* if that is already further.                                             *)
Allocate(dk, sb, lab) ==
    LET free == FreeBlocks(dk, sb, lab)
    IN  IF free # {} THEN Min(free)
        ELSE IF lab > sb.blocks THEN lab ELSE sb.blocks + 1

(* The cursor moves to the block that was found and stays otherwise.       *)
Cursor(dk, sb, lab) ==
    IF FreeBlocks(dk, sb, lab) = {} THEN lab ELSE Allocate(dk, sb, lab)

-----------------------------------------------------------------------------
(* Names, text and the filling of a data block.                            *)

(* The cells of a data block that file_write may fill: its NULs, except    *)
(* that in a file's first block the first NUL ends the name.               *)
Holes_NoName(sector, first) ==  \* a mistake: the name's NUL is a hole too
    {c \in Cells : sector[c] = 0}

Holes(sector, first) ==
    LET nuls == {c \in Cells : sector[c] = 0}
    IN  IF first /\ nuls # {} THEN nuls \ {Min(nuls)} ELSE nuls

FillCount_NoGuard(sector, first, left) ==  \* a mistake: write_size > 0 not tested
    Min({Cardinality(Holes(sector, first)), left})


FillCount(sector, first, left) ==
    Min({Cardinality(Holes(sector, first)), Max({left, 0})})

(* The block with the next bytes of data, from index from on, in its holes.*)
Fill(sector, first, data, from, left) ==
    LET holes == Holes(sector, first)
        rank(c) == Cardinality({h \in holes : h < c}) + 1
    IN  [c \in Cells |->
            IF c \in holes /\ rank(c) <= left THEN data[from + rank(c)]
            ELSE sector[c]]

(* The places of the words that are set in a pointer block.                *)
PointersIn_All(sector) == Cells  \* a mistake: unused words are taken for blocks
PointersIn_FromOne(sector) ==    \* a mistake: the loop starts at 1
    {c \in Cells \ {0} : sector[c] # 0}

PointersIn(sector) == {c \in Cells : sector[c] # 0}

(* A sequence without its NULs.                                            *)
UnlessNul(kept, x) == IF x = 0 THEN kept ELSE Append(kept, x)
WithoutNuls(s) == FoldLeft(UnlessNul, <<>>, s)

(* Word k of the pointer blocks of a file, taken one after the other, and  *)
(* the words that are set: they are the data blocks of the file.           *)
PointerWord(dk, ino, k) ==
    LET ptr == ino.ptrs[k \div WordsPerSector]
    IN  IF ptr = 0 THEN 0 ELSE ReadSector(dk, ptr)[k % WordsPerSector]

DataWords(dk, ino) ==
    WithoutNuls([k \in 1 .. PtrsPerInode * WordsPerSector |-> PointerWord(dk, ino, k - 1)])

(* The bytes file_read goes through: those blocks one after the other.     *)
Stream(dk, ino) ==
    LET blocks == DataWords(dk, ino)
    IN  [x \in 1 .. Len(blocks) * WordsPerSector |->
            ReadSector(dk, blocks[(x - 1) \div WordsPerSector + 1])
                [(x - 1) % WordsPerSector]]

(* What is stored after the name's NUL.                                    *)
Body(dk, ino) ==
    LET s    == Stream(dk, ino)
        nuls == {k \in 1 .. Len(s) : s[k] = 0}
    IN  IF nuls = {} THEN <<>> ELSE SubSeq(s, Min(nuls) + 1, Len(s))

(* A buffer up to its first NUL.                                           *)
UpToNul(s) ==
    LET nuls == {k \in 1 .. Len(s) : s[k] = 0} \union {Len(s) + 1}
    IN  SubSeq(s, 1, Min(nuls) - 1)

(* The text of a file: its body without NULs.                              *)
Text(dk, ino) == WithoutNuls(Body(dk, ino))
=============================================================================
