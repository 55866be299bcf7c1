----------------------------- MODULE ESFS_proofs -----------------------------
(***************************************************************************)
(* Theorems about ESFS, for every drive size, geometry, set of commands    *)
(* and initial disk: the types of all variables, and that no step ever     *)
(* writes the boot sector.  First the lemmas about the operators of        *)
(* ESFSDisk: what they return is of the right type, and the block the      *)
(* search for a free block returns is never block 0.  At the end those     *)
(* about the blocks that files claim: what each write to a drive does to   *)
(* the files of Ownership.                                                 *)
(***************************************************************************)
EXTENDS Ownership, TLAPS, FiniteSetTheorems, SequenceTheorems, WellFoundedInduction

(* A set of naturals that is not empty has a least element, and Min is it. *)
LEMMA MinProperties ==
    ASSUME NEW S \in SUBSET Nat, S # {}
    PROVE  Min(S) \in S /\ \A x \in S : Min(S) <= x
<1>. DEFINE Less == {ss \in Nat \X Nat : ss[1] < ss[2]}
<1>1. IsWellFoundedOn(Less, Nat)
  BY NatLessThanWellFounded, Zenon DEF OpToRel
<1>. HIDE DEF Less
<1>2. \E x \in S : \A y \in S : ~(<<y, x>> \in Less)
  BY <1>1, WFMin, Zenon
<1>3. PICK x \in S : \A y \in S : ~(<<y, x>> \in Less)
  BY <1>2
<1>4. \A y \in S : x <= y
  <2>. TAKE y \in S
  <2>1. x \in Nat /\ y \in Nat
    OBVIOUS
  <2>2. y < x => <<y, x>> \in Less
    BY <2>1 DEF Less
  <2>. QED  BY <1>3, <2>1, <2>2
<1>. QED  BY <1>4 DEF Min

(* The same for two integers, of which a bound is taken.                   *)
LEMMA MinOfTwo ==
    ASSUME NEW a \in Int, NEW b \in Int
    PROVE  Min({a, b}) = IF a <= b THEN a ELSE b
<1>1. \E x \in {a, b} : \A y \in {a, b} : x <= y
  OBVIOUS
<1>2. Min({a, b}) \in {a, b} /\ \A y \in {a, b} : Min({a, b}) <= y
  BY <1>1 DEF Min
<1>. QED  BY <1>2

LEMMA MaxOfTwo ==
    ASSUME NEW a \in Int, NEW b \in Int
    PROVE  Max({a, b}) = IF a >= b THEN a ELSE b
<1>1. \E x \in {a, b} : \A y \in {a, b} : x >= y
  OBVIOUS
<1>2. Max({a, b}) \in {a, b} /\ \A y \in {a, b} : Max({a, b}) >= y
  BY <1>1 DEF Max
<1>. QED  BY <1>2
-----------------------------------------------------------------------------
(* Sectors and disks.                                                      *)

LEMMA ZeroSectorType == ZeroSector \in Sector
  BY DEF ZeroSector, Sector

LEMMA ReadSectorType ==
    ASSUME NEW dk \in Disk, NEW b
    PROVE  ReadSector(dk, b) \in Sector
  BY ZeroSectorType DEF ReadSector, Disk

LEMMA WriteSectorType ==
    ASSUME NEW dk \in Disk, NEW b, NEW data \in Sector
    PROVE  WriteSector(dk, b, data) \in Disk
  BY DEF WriteSector, Disk

(* A write changes no other sector.                                        *)
LEMMA WriteSectorElsewhere ==
    ASSUME NEW dk \in Disk, NEW b, NEW data, NEW c \in Sectors, c # b
    PROVE  WriteSector(dk, b, data)[c] = dk[c]
  BY DEF WriteSector, Disk

LEMMA ToSectorType ==
    ASSUME NEW s \in Seq(Nat)
    PROVE  ToSector(s) \in Sector
<1>. SUFFICES ASSUME NEW c \in Cells, c < Len(s)
              PROVE  s[c + 1] \in Nat
  BY DEF ToSector, Sector
<1>1. c + 1 \in 1 .. Len(s)
  BY DEF Cells
<1>. QED  BY <1>1

LEMMA CellsFinite == IsFiniteSet(Cells) /\ Cells \subseteq Nat
<1>1. Cells \subseteq Nat
  BY DEF Cells
<1>2. WordsPerSector - 1 \in Int
  BY DiskAssumption
<1>. QED  BY <1>1, <1>2, FS_Interval DEF Cells

LEMMA PrefixType ==
    ASSUME NEW sector \in Sector
    PROVE  Prefix(sector) \in Seq(Nat) /\ Len(Prefix(sector)) \in Nat
<1>. DEFINE nuls == {c \in Cells : sector[c] = 0} \union {WordsPerSector}
            stop == Min(nuls)
<1>1. nuls \in SUBSET Nat /\ nuls # {} /\ WordsPerSector \in nuls
  BY DiskAssumption DEF Cells
<1>2. stop \in Nat /\ stop <= WordsPerSector
  BY <1>1, MinProperties
<1>. HIDE DEF stop
<1>3. [i \in 1 .. stop |-> sector[i - 1]] \in Seq(Nat)
  <2>1. \A i \in 1 .. stop : sector[i - 1] \in Nat
    <3>. TAKE i \in 1 .. stop
    <3>1. i - 1 \in Cells
      BY <1>2, DiskAssumption DEF Cells
    <3>. QED  BY <3>1 DEF Sector
  <2>. QED  BY <1>2, <2>1, SMT
<1>4. Prefix(sector) = [i \in 1 .. stop |-> sector[i - 1]]
  BY DEF Prefix, stop
<1>5. Prefix(sector) \in Seq(Nat)
  BY <1>3, <1>4, Zenon
<1>. QED  BY <1>5, LenProperties

LEMMA SuperblockSectorType ==
    ASSUME NEW s \in Superblock
    PROVE  SuperblockSector(s) \in Sector
<1>1. <<s.magic, s.blocks, s.inode_blocks, s.inodes,
        s.disk_size, s.last_allocated_block>> \in Seq(Nat)
  BY DEF Superblock
<1>. QED  BY <1>1, ToSectorType DEF SuperblockSector

LEMMA SuperblockOfType ==
    ASSUME NEW dk \in Disk
    PROVE  SuperblockOf(dk) \in Superblock
<1>1. SuperblockBlock \in Sectors
  BY DiskAssumption DEF Sectors
<1>2. dk[SuperblockBlock] \in Sector
  BY <1>1 DEF Disk
<1>3. {0, 1, 2, 3, 4, 5} \subseteq Cells
  BY DiskAssumption DEF Cells
<1>. QED  BY <1>2, <1>3 DEF SuperblockOf, Superblock, Sector

-----------------------------------------------------------------------------
(* The inode table.                                                        *)

(* Division, as the prover needs it spelt out.                             *)
LEMMA DivMod ==
    ASSUME NEW p \in Nat, NEW n \in Nat \ {0}
    PROVE  /\ p \div n \in Nat /\ p % n \in 0 .. n - 1
           /\ p % n \in Nat
           /\ p = n * (p \div n) + (p % n)
  BY SMT

LEMMA ProductMonotone ==
    ASSUME NEW a \in Nat, NEW b \in Nat, NEW n \in Nat, a <= b
    PROVE  a * n <= b * n
  BY SMT

LEMMA DivBound ==
    ASSUME NEW p \in Nat, NEW n \in Nat \ {0}, NEW m \in Int, p <= m * n - 1
    PROVE  p \div n <= m - 1
<1>. SUFFICES ASSUME p \div n >= m
              PROVE  FALSE
  BY DivMod
<1>. DEFINE q == p \div n
<1>1. q \in Nat /\ p = n * q + (p % n) /\ p % n >= 0
  BY DivMod
<1>2. m \in Nat
  <2>1. CASE m < 0
    <3>1. m * n <= 0
      BY <2>1
    <3>. QED  BY <3>1
  <2>. QED  BY <2>1
<1>. HIDE DEF q
<1>3. m * n <= q * n
  BY <1>1, <1>2, ProductMonotone DEF q
<1>. QED  BY <1>1, <1>3

LEMMA InodeWordsType ==
    /\ InodeWords \in Nat /\ InodeWords >= 3
    /\ InodesPerSector \in Nat /\ EntriesPerSector \in Nat \ {0}
    /\ InodesPerSector * InodeWords <= WordsPerSector
<1>1. InodeWords \in Nat /\ InodeWords >= 3
  BY DiskAssumption DEF InodeWords
<1>. HIDE DEF InodeWords
<1>2. /\ InodesPerSector \in Nat
      /\ WordsPerSector = InodeWords * InodesPerSector + (WordsPerSector % InodeWords)
      /\ WordsPerSector % InodeWords >= 0
  BY <1>1, DivMod, DiskAssumption DEF InodesPerSector
<1>3. InodesPerSector * InodeWords = InodeWords * InodesPerSector
  BY <1>1, <1>2
<1>. QED  BY <1>1, <1>2, <1>3, DiskAssumption DEF EntriesPerSector

(* Every position of the scan lies in a sector of the drive that is after  *)
(* the superblock, and every inode within its sector.                      *)
LEMMA PositionPlace ==
    ASSUME NEW p \in Positions
    PROVE  /\ p \in Nat
           /\ InodeSector(p) \in Sectors /\ InodeSector(p) > SuperblockBlock
           /\ IsInode(p) => \A x \in 0 .. InodeWords - 1 : InodeCell(p) + x \in Cells
<1>. DEFINE n == EntriesPerSector
            m == DiskSectors - SuperblockBlock - 1
<1>1. n \in Nat \ {0} /\ m \in Int /\ InodeWords \in Nat
      /\ InodeWords >= 3 /\ InodesPerSector \in Nat
  BY InodeWordsType, DiskAssumption
<1>2. p \in Nat /\ p <= m * n - 1
  BY <1>1 DEF Positions
<1>3. p \div n \in Nat /\ p \div n <= m - 1 /\ p % n \in Nat
  <2>. HIDE DEF n, m
  <2>1. p \div n \in Nat /\ p % n \in Nat
    BY <1>1, <1>2, DivMod, Zenon
  <2>2. p \div n <= m - 1
    BY <1>1, <1>2, DivBound
  <2>. QED  BY <2>1, <2>2
<1>4. InodeSector(p) \in Sectors /\ InodeSector(p) > SuperblockBlock
  BY <1>3, DiskAssumption DEF InodeSector, Sectors
<1>5. ASSUME IsInode(p), NEW x \in 0 .. InodeWords - 1
      PROVE  InodeCell(p) + x \in Cells
  <2>. DEFINE r == p % n
  <2>1. r \in Nat /\ r + 1 <= InodesPerSector
    BY <1>1, <1>3, <1>5 DEF IsInode
  <2>. HIDE DEF r
  <2>2. (r + 1) * InodeWords <= InodesPerSector * InodeWords
    BY <1>1, <2>1, ProductMonotone
  <2>3. (r + 1) * InodeWords = r * InodeWords + InodeWords /\ r * InodeWords \in Nat
    BY <1>1, <2>1
  <2>4. r * InodeWords + x <= WordsPerSector - 1
    BY <1>1, <2>2, <2>3, InodeWordsType, DiskAssumption
  <2>5. InodeCell(p) = r * InodeWords
    BY DEF InodeCell, r
  <2>. QED  BY <2>3, <2>4, <2>5 DEF Cells
<1>. QED  BY <1>2, <1>4, <1>5
LEMMA InodeCellType ==
    ASSUME NEW p \in Positions
    PROVE  InodeCell(p) \in Nat
<1>1. p \in Nat /\ EntriesPerSector \in Nat \ {0} /\ InodeWords \in Nat
  BY PositionPlace, InodeWordsType
<1>. DEFINE r == p % EntriesPerSector
<1>2. r \in Nat
  BY <1>1, DivMod, Zenon
<1>. HIDE DEF r
<1>3. r * InodeWords \in Nat
  BY <1>1, <1>2
<1>. QED  BY <1>3 DEF InodeCell, r

LEMMA InodeAtType ==
    ASSUME NEW dk \in Disk, NEW p \in Positions, IsInode(p)
    PROVE  InodeAt(dk, p) \in Inode
<1>. DEFINE s == dk[InodeSector(p)]
            c == InodeCell(p)
<1>1. s \in Sector
  BY PositionPlace DEF Disk
<1>2. \A x \in 0 .. InodeWords - 1 : c + x \in Cells
  BY PositionPlace
<1>3. c \in Nat
  BY InodeCellType
<1>. HIDE DEF s, c
<1>4. \A x \in 0 .. InodeWords - 1 : s[c + x] \in Nat
  BY <1>1, <1>2 DEF Sector
<1>5. s[c] \in Nat /\ s[c + 1] \in Nat
  <2>1. 0 \in 0 .. InodeWords - 1 /\ 1 \in 0 .. InodeWords - 1
    BY InodeWordsType
  <2>2. c + 0 = c
    BY <1>3
  <2>3. s[c + 0] \in Nat /\ s[c + 1] \in Nat
    BY <1>4, <2>1, Zenon
  <2>. QED  BY <2>2, <2>3
<1>6. \A i \in 0 .. PtrsPerInode - 1 : s[c + 2 + i] \in Nat
  <2>. TAKE i \in 0 .. PtrsPerInode - 1
  <2>1. 2 + i \in 0 .. InodeWords - 1
    BY DiskAssumption DEF InodeWords
  <2>2. c + 2 + i = c + (2 + i)
    BY <1>3
  <2>. QED  BY <1>4, <2>1, <2>2
<1>7. InodeAt(dk, p) = [valid |-> s[c], size |-> s[c + 1],
                        ptrs |-> [i \in 0 .. PtrsPerInode - 1 |-> s[c + 2 + i]]]
  BY DEF InodeAt, s, c
<1>. QED  BY <1>5, <1>6, <1>7 DEF Inode

LEMMA WithInodeType ==
    ASSUME NEW sector \in Sector, NEW p \in Positions, NEW ino \in Inode
    PROVE  WithInode(sector, p, ino) \in Sector
<1>. DEFINE c == InodeCell(p)
            word(x) == CASE x = c     -> ino.valid
                         [] x = c + 1 -> ino.size
                         [] x \in c + 2 .. c + 1 + PtrsPerInode -> ino.ptrs[x - c - 2]
                         [] OTHER     -> sector[x]
<1>1. c \in Nat
  BY InodeCellType
<1>2. WithInode(sector, p, ino) = [x \in Cells |-> word(x)]
  BY DEF WithInode, c, word
<1>. HIDE DEF c
<1>3. \A x \in Cells : word(x) \in Nat
  <2>. TAKE x \in Cells
  <2>1. x \in Nat /\ sector[x] \in Nat /\ ino.valid \in Nat /\ ino.size \in Nat
    BY CellsFinite DEF Sector, Inode
  <2>2. ASSUME x \in c + 2 .. c + 1 + PtrsPerInode
        PROVE  ino.ptrs[x - c - 2] \in Nat
    <3>1. x - c - 2 \in 0 .. PtrsPerInode - 1
      BY <1>1, <2>1, <2>2, DiskAssumption
    <3>. QED  BY <3>1 DEF Inode
  <2>. QED  BY <2>1, <2>2
<1>. HIDE DEF word
<1>. QED  BY <1>2, <1>3 DEF Sector

(* A lookup only ever finds valid inodes of the drive.                     *)
LEMMA MatchesPlace ==
    ASSUME NEW dk, NEW name
    PROVE  Matches(dk, name) \subseteq {p \in Positions : IsInode(p)}
  BY DEF Matches, Reached, LiveEntries

LEMMA PositionsNat == Positions \subseteq Nat
  BY PositionPlace

LEMMA FirstMatch ==
    ASSUME NEW dk \in Disk, NEW name, Matches(dk, name) # {}
    PROVE  InodeAt(dk, Min(Matches(dk, name))) \in Inode
<1>1. Matches(dk, name) \in SUBSET Nat
  BY MatchesPlace, PositionsNat
<1>2. Min(Matches(dk, name)) \in Matches(dk, name)
  BY <1>1, MinProperties
<1>. QED  BY <1>2, MatchesPlace, InodeAtType

LEMMA NoInodeType == NoInode \in Inode
  BY DEF NoInode, Inode

LEMMA GetFileInfoType ==
    ASSUME NEW dk \in Disk, NEW name, NEW leftover \in SUBSET Inode
    PROVE  GetFileInfo(dk, name, leftover) \subseteq Inode
  BY FirstMatch DEF GetFileInfo

LEMMA SetFileInfoType ==
    ASSUME NEW dk \in Disk, NEW name, NEW ino \in Inode
    PROVE  SetFileInfo(dk, name, ino) \in Disk
<1>. DEFINE found == Matches(dk, name)
            At(b, x) == {p \in found : InodeSector(p) = b
                            /\ x \in InodeCell(p) .. InodeCell(p) + InodeWords - 1}
            Updated(b) == [x \in Cells |->
                              IF At(b, x) = {} THEN dk[b][x]
                              ELSE WithInode(dk[b], Min(At(b, x)), ino)[x]]
            touched == {InodeSector(p) : p \in found}
<1>1. ASSUME NEW b \in Sectors
      PROVE  Updated(b) \in Sector
  <2>1. dk[b] \in Sector
    BY DEF Disk
  <2>2. ASSUME NEW x \in Cells, At(b, x) # {}
        PROVE  WithInode(dk[b], Min(At(b, x)), ino)[x] \in Nat
    <3>1. At(b, x) \in SUBSET Positions /\ At(b, x) \in SUBSET Nat
      BY MatchesPlace, PositionsNat
    <3>. HIDE DEF At
    <3>2. Min(At(b, x)) \in Positions
      BY <2>2, <3>1, MinProperties
    <3>3. WithInode(dk[b], Min(At(b, x)), ino) \in Sector
      BY <2>1, <3>2, WithInodeType
    <3>. QED  BY <3>3 DEF Sector
  <2>. HIDE DEF At
  <2>. QED  BY <2>1, <2>2 DEF Sector
<1>. HIDE DEF Updated
<1>2. [b \in Sectors |-> IF b \in touched THEN Updated(b) ELSE dk[b]] \in Disk
  BY <1>1 DEF Disk
<1>. QED  BY <1>2 DEF SetFileInfo, Updated

LEMMA FreeEntryType ==
    ASSUME NEW dk, NEW s
    PROVE  FreeEntry(dk, s) \subseteq Positions
<1>1. FreeEntries(dk, s) \in SUBSET Positions /\ FreeEntries(dk, s) \in SUBSET Nat
  BY PositionsNat DEF FreeEntries
<1>. QED  BY <1>1, MinProperties DEF FreeEntry

-----------------------------------------------------------------------------
(* The search for a free block.                                            *)

(* allocate_data_block returns a block number, found or not, and never 0:  *)
(* 0 can be stored in the place of a pointer and mean "none".              *)
LEMMA AllocateNotZero ==
    ASSUME NEW dk, NEW s \in Superblock, NEW l \in Nat
    PROVE  Allocate(dk, s, l) \in Nat \ {0}
<1>1. s.blocks \in Nat
  BY DEF Superblock
<1>2. FreeBlocks(dk, s, l) \in SUBSET Nat /\ 0 \notin FreeBlocks(dk, s, l)
  BY <1>1 DEF FreeBlocks
<1>3. CASE FreeBlocks(dk, s, l) # {}
  BY <1>2, <1>3, MinProperties DEF Allocate
<1>4. CASE FreeBlocks(dk, s, l) = {}
  BY <1>1, <1>4 DEF Allocate
<1>. QED  BY <1>3, <1>4

LEMMA CursorType ==
    ASSUME NEW dk, NEW s \in Superblock, NEW l \in Nat
    PROVE  Cursor(dk, s, l) \in Nat
  BY AllocateNotZero DEF Cursor

LEMMA GeometryType ==
    ASSUME NEW size \in Nat, NEW l \in Nat
    PROVE  Geometry(size, l) \in Superblock
<1>1. WordsPerSector \in Nat \ {0} /\ InodeShare \in Nat \ {0}
  BY DiskAssumption
<1>. DEFINE blocks == size \div WordsPerSector
<1>2. blocks \in Nat
  BY <1>1, DivMod
<1>. HIDE DEF blocks
<1>3. blocks \div InodeShare \in Nat
  BY <1>1, <1>2, DivMod
<1>4. (blocks \div InodeShare) * InodesPerSector \in Nat
  BY <1>3, InodeWordsType
<1>5. Magic \in Nat
  BY DiskAssumption
<1>. QED  BY <1>2, <1>3, <1>4, <1>5 DEF Geometry, Superblock, blocks

LEMMA ModType ==
    ASSUME NEW a \in Int, NEW n \in Nat \ {0}
    PROVE  a % n \in Nat
  BY SMT

LEMMA ProbedSizeType ==
    ASSUME NEW skipped
    PROVE  ProbedSize(skipped) \in Nat
<1>1. DiskSectors + ProbeStep - 1 \in Nat /\ ProbeStep \in Nat \ {0}
  BY DiskAssumption
<1>2. (DiskSectors + ProbeStep - 1) \div ProbeStep \in Nat
  BY <1>1, DivMod
<1>. DEFINE reads == (DiskSectors + ProbeStep - 1) \div ProbeStep + 1
            bytes == IF skipped THEN 0 ELSE reads * ProbeStep * WordsPerSector
<1>3. reads \in Nat
  BY <1>2
<1>. HIDE DEF reads
<1>4. bytes - SuperblockBlock * WordsPerSector \in Int
  BY <1>1, <1>3, DiskAssumption
<1>. HIDE DEF bytes
<1>5. (bytes - SuperblockBlock * WordsPerSector) % WordRange \in Nat
  BY <1>4, ModType, DiskAssumption
<1>. QED  BY <1>5 DEF ProbedSize, reads, bytes
-----------------------------------------------------------------------------
(* Text and the filling of a data block.                                   *)

LEMMA HolesFinite ==
    ASSUME NEW sector, NEW first
    PROVE  /\ Holes(sector, first) \subseteq Cells
           /\ IsFiniteSet(Holes(sector, first))
<1>1. Holes(sector, first) \subseteq Cells
  BY DEF Holes
<1>. QED  BY <1>1, CellsFinite, FS_Subset

(* No more bytes are put into a block than are left to write.              *)
LEMMA FillCountType ==
    ASSUME NEW sector, NEW first, NEW left \in Int
    PROVE  /\ FillCount(sector, first, left) \in Nat
           /\ left <= 0 => FillCount(sector, first, left) = 0
           /\ left > 0 => FillCount(sector, first, left) <= left
<1>1. Cardinality(Holes(sector, first)) \in Nat
  BY HolesFinite, FS_CardinalityType
<1>2. Max({left, 0}) = IF left >= 0 THEN left ELSE 0
  BY MaxOfTwo
<1>. DEFINE room == Max({left, 0})
<1>3. room \in Nat /\ (left <= 0 => room = 0) /\ (left > 0 => room = left)
  BY <1>2
<1>. HIDE DEF room
<1>4. Min({Cardinality(Holes(sector, first)), room}) =
         IF Cardinality(Holes(sector, first)) <= room
         THEN Cardinality(Holes(sector, first)) ELSE room
  BY <1>1, <1>3, MinOfTwo
<1>. QED  BY <1>1, <1>3, <1>4 DEF FillCount, room

(* Every byte that is put into a block comes from within the buffer.       *)
LEMMA FillType ==
    ASSUME NEW sector \in Sector, NEW first, NEW data \in Seq(Nat),
           NEW from \in Nat, NEW left \in Nat, from + left <= Len(data)
    PROVE  Fill(sector, first, data, from, left) \in Sector
<1>. DEFINE holes == Holes(sector, first)
            rank(c) == Cardinality({h \in holes : h < c}) + 1
<1>1. ASSUME NEW c \in Cells, c \in holes, rank(c) <= left
      PROVE  data[from + rank(c)] \in Nat
  <2>1. IsFiniteSet({h \in holes : h < c})
    BY HolesFinite, FS_Subset
  <2>2. rank(c) \in Nat /\ rank(c) >= 1
    BY <2>1, FS_CardinalityType
  <2>. HIDE DEF rank
  <2>3. from + rank(c) \in 1 .. Len(data)
    BY <1>1, <2>2
  <2>. QED  BY <2>3
<1>2. \A c \in Cells : sector[c] \in Nat
  BY DEF Sector
<1>. HIDE DEF rank
<1>3. [c \in Cells |-> IF c \in holes /\ rank(c) <= left THEN data[from + rank(c)]
                       ELSE sector[c]] \in Sector
  BY <1>1, <1>2 DEF Sector
<1>. QED  BY <1>3 DEF Fill, rank

Keeping == INSTANCE SequenceFacts WITH Op <- UnlessNul

(* The results of the prefixes of a sequence of which NULs are left out.   *)
AreKept(g, base, s, n) ==
    /\ g[0] = base /\ \A k \in 1 .. n : g[k] = UnlessNul(g[k - 1], s[k])
    /\ Keeping!Folded(base, s) = g[n]

LEMMA KeepingRun ==
    ASSUME NEW base, NEW n \in Nat, NEW s, DOMAIN s = 1 .. n
    PROVE  \E g : AreKept(g, base, s, n)
  BY Keeping!FoldLeftRun DEF AreKept

LEMMA KeptRun ==
    ASSUME NEW n \in Nat, NEW s, DOMAIN s = 1 .. n
    PROVE  \E g : /\ g[0] = <<>> /\ WithoutNuls(s) = g[n]
                  /\ \A k \in 1 .. n : g[k] = IF s[k] = 0 THEN g[k - 1] ELSE Append(g[k - 1], s[k])
<1>1. PICK g : AreKept(g, <<>>, s, n)
  BY KeepingRun, Zenon
<1>2. Keeping!Folded(<<>>, s) = WithoutNuls(s)
  BY DEF Keeping!Folded, Keeping!FoldLeft, Keeping!MapThenFoldSet, Keeping!Max,
         WithoutNuls, FoldLeft, MapThenFoldSet, Max
<1>. QED  BY <1>1, <1>2 DEF AreKept, UnlessNul

(* What is left is of the sequence, and no NUL.                            *)
LEMMA WithoutNulsType ==
    ASSUME NEW S, NEW n \in Nat, NEW s, DOMAIN s = 1 .. n, \A k \in 1 .. n : s[k] \in S
    PROVE  WithoutNuls(s) \in Seq(S \ {0})
<1>1. PICK g : /\ g[0] = <<>> /\ WithoutNuls(s) = g[n]
               /\ \A k \in 1 .. n : g[k] = IF s[k] = 0 THEN g[k - 1] ELSE Append(g[k - 1], s[k])
  BY KeptRun
<1>. DEFINE Good == {k \in Nat : g[k] \in Seq(S \ {0})}
<1>2. 0 \in Good
  <2>1. g[0] = <<>> /\ <<>> \in Seq(S \ {0})
    BY <1>1
  <2>. QED  BY <2>1
<1>3. ASSUME NEW k \in 0 .. n - 1, k \in Good
      PROVE  k + 1 \in Good
  <2>1. k + 1 \in 1 .. n /\ (k + 1) - 1 = k /\ k + 1 \in Nat
    OBVIOUS
  <2>2. g[k + 1] = IF s[k + 1] = 0 THEN g[k] ELSE Append(g[k], s[k + 1])
    BY <1>1, <2>1
  <2>3. g[k] \in Seq(S \ {0}) /\ s[k + 1] \in S
    BY <1>3, <2>1
  <2>4. s[k + 1] # 0 => Append(g[k], s[k + 1]) \in Seq(S \ {0})
    BY <2>3, AppendProperties
  <2>. QED  BY <2>1, <2>2, <2>3, <2>4
<1>. HIDE DEF Good
<1>4. \A k \in 0 .. n : k \in Good
  BY <1>2, <1>3, Keeping!UpTo
<1>5. n \in 0 .. n
  OBVIOUS
<1>. QED  BY <1>1, <1>4, <1>5 DEF Good

(* The data blocks of a file are words of its pointer blocks.              *)
LEMMA DataWordsType ==
    ASSUME NEW dk, NEW ino
    PROVE  DataWords(dk, ino) \in
              Seq({PointerWord(dk, ino, k - 1) : k \in 1 .. PtrsPerInode * WordsPerSector} \ {0})
<1>. DEFINE n == PtrsPerInode * WordsPerSector
            s == [k \in 1 .. n |-> PointerWord(dk, ino, k - 1)]
            S == {PointerWord(dk, ino, k - 1) : k \in 1 .. n}
<1>1. n \in Nat
  BY DiskAssumption
<1>. HIDE DEF n
<1>2. DOMAIN s = 1 .. n /\ \A k \in 1 .. n : s[k] \in S
  OBVIOUS
<1>. HIDE DEF s, S
<1>3. WithoutNuls(s) \in Seq(S \ {0})
  BY <1>1, <1>2, WithoutNulsType
<1>4. DataWords(dk, ino) = WithoutNuls(s)
  BY DEF DataWords, s, n
<1>. QED  BY <1>3, <1>4 DEF S, n

LEMMA StreamType ==
    ASSUME NEW dk \in Disk, NEW ino
    PROVE  Stream(dk, ino) \in Seq(Nat)
<1>. DEFINE blocks  == DataWords(dk, ino)
            byte(x) == ReadSector(dk, blocks[(x - 1) \div WordsPerSector + 1])
                           [(x - 1) % WordsPerSector]
            n == Len(blocks) * WordsPerSector
<1>2. n \in Nat
  <2>1. Len(blocks) \in Nat
    BY DataWordsType, LenProperties
  <2>. HIDE DEF blocks
  <2>. QED  BY <2>1, DiskAssumption
<1>. HIDE DEF blocks, n
<1>3. \A x \in 1 .. n : byte(x) \in Nat
  <2>. TAKE x \in 1 .. n
  <2>1. x - 1 \in Nat /\ WordsPerSector \in Nat \ {0}
    BY <1>2, DiskAssumption
  <2>. DEFINE r == (x - 1) % WordsPerSector
  <2>2. r \in 0 .. WordsPerSector - 1
    BY <2>1, DivMod, Zenon
  <2>. HIDE DEF r
  <2>3. r \in Cells
    BY <2>2 DEF Cells
  <2>4. ReadSector(dk, blocks[(x - 1) \div WordsPerSector + 1]) \in Sector
    BY ReadSectorType
  <2>. QED  BY <2>3, <2>4 DEF Sector, r
<1>. HIDE DEF byte
<1>4. [x \in 1 .. n |-> byte(x)] \in Seq(Nat)
  BY <1>2, <1>3, SMT
<1>5. Stream(dk, ino) = [x \in 1 .. n |-> byte(x)]
  BY DEF Stream, byte, blocks, n
<1>. QED  BY <1>4, <1>5, Zenon

LEMMA BodyType ==
    ASSUME NEW dk \in Disk, NEW ino
    PROVE  Body(dk, ino) \in Seq(Nat)
<1>. DEFINE s    == Stream(dk, ino)
            nuls == {k \in 1 .. Len(s) : s[k] = 0}
<1>1. s \in Seq(Nat) /\ Len(s) \in Nat
  BY StreamType, LenProperties
<1>. HIDE DEF s
<1>2. CASE nuls = {}
  BY <1>2 DEF Body, s
<1>3. CASE nuls # {}
  <2>1. nuls \in SUBSET Nat
    BY <1>1
  <2>2. Min(nuls) \in nuls
    BY <1>3, <2>1, MinProperties
  <2>. DEFINE m == Min(nuls)
  <2>3. m + 1 \in 1 .. Len(s) + 1 /\ Len(s) \in (m + 1) - 1 .. Len(s)
    BY <1>1, <2>2
  <2>. HIDE DEF m
  <2>4. SubSeq(s, m + 1, Len(s)) \in Seq(Nat)
    BY <1>1, <2>3, SubSeqProperties
  <2>. QED  BY <1>3, <2>4 DEF Body, s, m
<1>. QED  BY <1>2, <1>3

(* The front of a sequence.                                                *)
LEMMA FrontType ==
    ASSUME NEW s \in Seq(Nat), NEW n \in Nat, n <= Len(s)
    PROVE  SubSeq(s, 1, n) \in Seq(Nat) /\ Len(SubSeq(s, 1, n)) = n
<1>1. Len(s) \in Nat
  BY LenProperties
<1>2. 1 \in 1 .. Len(s) + 1 /\ n \in 1 - 1 .. Len(s)
  BY <1>1
<1>. QED  BY <1>1, <1>2, SubSeqProperties

LEMMA UpToNulType ==
    ASSUME NEW s \in Seq(Nat)
    PROVE  UpToNul(s) \in Seq(Nat)
<1>. DEFINE nuls == {k \in 1 .. Len(s) : s[k] = 0} \union {Len(s) + 1}
<1>1. Len(s) \in Nat
  BY LenProperties
<1>2. nuls \in SUBSET Nat /\ nuls # {} /\ \A k \in nuls : k >= 1 /\ k <= Len(s) + 1
  BY <1>1
<1>3. Min(nuls) \in nuls
  BY <1>2, MinProperties
<1>. DEFINE m == Min(nuls)
<1>4. m \in Nat /\ m >= 1 /\ m <= Len(s) + 1
  BY <1>2, <1>3
<1>. HIDE DEF m
<1>5. SubSeq(s, 1, m - 1) \in Seq(Nat)
  BY <1>1, <1>4, FrontType
<1>. QED  BY <1>5 DEF UpToNul, m

(* The int conversion, and the sectors a program reads of a file.          *)
LEMMA SignedType ==
    ASSUME NEW x \in Nat
    PROVE  Signed(x) \in Int
<1>. DEFINE w == x % WordRange
<1>1. w \in Nat
  BY ModType, DiskAssumption
<1>. HIDE DEF w
<1>2. (IF 2 * w >= WordRange THEN w - WordRange ELSE w) \in Int
  BY <1>1, DiskAssumption
<1>. QED  BY <1>2 DEF Signed, w

LEMMA SectorsToReadType ==
    ASSUME NEW size \in Int
    PROVE  SectorsToRead(size) \in Int
<1>1. WordsPerSector \in Nat \ {0}
  BY DiskAssumption
<1>2. ASSUME NEW a \in Nat
      PROVE  a \div WordsPerSector \in Nat
  BY <1>1, DivMod
<1>3. CASE size >= 0
  <2>1. size \div WordsPerSector \in Nat
    BY <1>2, <1>3
  <2>. QED  BY <1>3, <2>1 DEF SectorsToRead
<1>4. CASE size < 0
  <2>1. -size \in Nat
    BY <1>4
  <2>2. (-size) \div WordsPerSector \in Nat
    BY <1>2, <2>1
  <2>. QED  BY <1>4, <2>2 DEF SectorsToRead
<1>. QED  BY <1>3, <1>4

-----------------------------------------------------------------------------
(* The inductive invariant.                                                *)

(* Inside a call the program still has it on its list.                     *)
CallPending == pc \notin {"off", "shell", "run"} => todo # <<>>

AtWrite == {"pointers", "blocks", "data", "chain", "size", "written"}

(* The bytes file_write has still to write are in the program's buffer.    *)
BufferLongEnough ==
    /\ wsize <= Len(payload)
    /\ pc \in AtWrite => /\ fr.total <= Len(payload)
                         /\ fr.left > 0 => fr.total + fr.left <= Len(payload)

(* Wherever a sector write takes its place from a local of the running     *)
(* call, that place is not sector 0.                                       *)
PlacesSet ==
    /\ pc \in {"image", "zero", "pointer"} => fr.block # 0
    /\ pc \in {"zero", "pointer", "name"} => fr.block2 # 0
    /\ pc = "wipe" => \A c \in fr.rest : fr.buf[c] # 0
    /\ pc = "pointers" => fr.i <= PtrsPerInode
    /\ pc \in {"blocks", "data", "chain"} =>
          fr.i < PtrsPerInode /\ fr.info.ptrs[fr.i] # 0
    /\ pc = "data" => fr.buf[fr.j] # 0

IInv == TypeOK /\ CallPending /\ BufferLongEnough /\ PlacesSet

-----------------------------------------------------------------------------
(* Values.                                                                 *)

LEMMA NoFrameType == NoFrame \in Frame
<1>1. 0 \in Positions
  <2>. DEFINE m == DiskSectors - SuperblockBlock - 1
  <2>1. m \in Nat \ {0} /\ EntriesPerSector \in Nat \ {0}
    BY DiskAssumption, InodeWordsType
  <2>. HIDE DEF m
  <2>2. m * EntriesPerSector - 1 \in Nat
    BY <2>1
  <2>. QED  BY <2>2 DEF Positions, m
<1>. QED  BY <1>1, NoInodeType, ZeroSectorType DEF NoFrame, Frame

LEMMA NoSuperblockType == NoSuperblock \in Superblock
  BY DiskAssumption DEF NoSuperblock, Superblock

LEMMA NoJobType == NoJob \in Jobs
  BY ESFSAssumption DEF NoJob, Jobs, Programs

LEMMA ScriptType ==
    ASSUME NEW prog
    PROVE  Script(prog) \in Seq(Calls) /\ Script(prog) # <<>>
<1>1. /\ <<"create">> \in Seq(Calls) /\ <<"delete">> \in Seq(Calls)
      /\ <<"delete", "create", "write">> \in Seq(Calls)
      /\ <<"delete", "create", "write", "retry">> \in Seq(Calls)
      /\ <<"create", "fetch", "write">> \in Seq(Calls)
      /\ <<"drive">> \in Seq(Calls) /\ <<"format">> \in Seq(Calls)
  BY DEF Calls
<1>. QED  BY <1>1 DEF Script

LEMMA InitFsType ==
    ASSUME NEW dk \in Disk, NEW skipped, NEW unset \in Nat
    PROVE  InitFs(dk, skipped, unset) \in Superblock
<1>. DEFINE old   == SuperblockOf(dk)
            known == old.magic = Magic /\ old.disk_size # 0
            size  == IF known THEN old.disk_size
                     ELSE IF old.disk_size = 0 THEN ProbedSize(skipped) ELSE 0
            start == FirstCursor(old, known, unset)
            geo   == Geometry(size, start)
<1>1. old \in Superblock
  BY SuperblockOfType
<1>2. size \in Nat /\ start \in Nat
  BY <1>1, ProbedSizeType DEF Superblock, FirstCursor
<1>. HIDE DEF size, start
<1>3. geo \in Superblock
  BY <1>2, GeometryType
<1>. HIDE DEF geo
<1>4. Cursor(dk, geo, 0) \in Nat
  BY <1>3, CursorType
<1>5. [geo EXCEPT !.last_allocated_block =
          IF start = 0 THEN Cursor(dk, geo, 0) ELSE start] \in Superblock
  BY <1>2, <1>3, <1>4 DEF Superblock
<1>. QED  BY <1>5 DEF InitFs, old, known, size, start, geo

LEMMA ProgramLookupType ==
    ASSUME TypeOK, NEW d \in Drives, NEW name
    PROVE  ProgramLookup(d, name) \in Inode
<1>1. disk[d] \in Disk
  BY DEF TypeOK
<1>. QED  BY <1>1, FirstMatch, NoInodeType DEF ProgramLookup

LEMMA ReadBodyType ==
    ASSUME NEW dk \in Disk, NEW ino, NEW sectors \in Int
    PROVE  ReadBody(dk, ino, sectors) \in Seq(Nat)
<1>. DEFINE body == Body(dk, ino)
            name == NameOf(dk, ino)
            room == sectors * WordsPerSector - Len(name)
<1>1. body \in Seq(Nat) /\ Len(body) \in Nat
  BY BodyType, LenProperties
<1>2. Len(name) \in Nat
  BY ReadSectorType, PrefixType DEF NameOf
<1>. HIDE DEF body, name
<1>3. room \in Int
  BY <1>2, DiskAssumption
<1>. HIDE DEF room
<1>4. Max({room, 0}) = IF room >= 0 THEN room ELSE 0
  BY <1>3, MaxOfTwo
<1>. DEFINE size == Max({room, 0})
<1>5. size \in Nat
  BY <1>3, <1>4
<1>. HIDE DEF size
<1>. DEFINE n == Min({Len(body), size})
<1>6. n = IF Len(body) <= size THEN Len(body) ELSE size
  BY <1>1, <1>5, MinOfTwo
<1>7. n \in Nat /\ n <= Len(body)
  BY <1>1, <1>5, <1>6
<1>. HIDE DEF n
<1>8. SubSeq(body, 1, n) \in Seq(Nat)
  BY <1>1, <1>7, FrontType
<1>. QED  BY <1>8 DEF ReadBody, body, name, room, size, n

(* A buffer is as long as the size asked for, or empty.                    *)
LEMMA BufferType ==
    ASSUME NEW s \in Seq(Nat), NEW n \in Int
    PROVE  Buffer(s, n) \in Seq(Nat) /\ n <= Len(Buffer(s, n))
<1>1. Max({n, 0}) = IF n >= 0 THEN n ELSE 0
  BY MaxOfTwo
<1>. DEFINE m == Max({n, 0})
            byte(k) == IF k <= Len(s) THEN s[k] ELSE 0
<1>2. m \in Nat /\ n <= m
  BY <1>1
<1>. HIDE DEF m
<1>3. \A k \in 1 .. m : byte(k) \in Nat
  BY <1>2
<1>. HIDE DEF byte
<1>. DEFINE b == [k \in 1 .. m |-> byte(k)]
<1>4. b \in Seq(Nat)
  BY <1>2, <1>3, SMT
<1>5. Len(b) = m
  BY <1>2, <1>3, SMT
<1>6. Buffer(s, n) = b
  BY DEF Buffer, m, byte
<1>. HIDE DEF b
<1>. QED  BY <1>2, <1>4, <1>5, <1>6

LEMMA EditorType ==
    ASSUME TypeOK, NEW j \in Jobs
    PROVE  Editor(j).text \in Seq(Nat) /\ Editor(j).size \in Int
<1>. DEFINE info  == ProgramLookup(selected, j.name)
            bytes == Signed(info.size)
            text  == UpToNul(ReadBody(disk[selected], info, SectorsToRead(bytes)))
            cut   == Min({j.cut, Len(text)})
<1>1. info \in Inode /\ disk[selected] \in Disk
  BY ProgramLookupType DEF TypeOK
<1>2. bytes \in Int
  BY <1>1, SignedType DEF Inode
<1>3. text \in Seq(Nat)
  BY <1>1, <1>2, SectorsToReadType, ReadBodyType, UpToNulType
<1>4. Len(text) \in Nat
  BY <1>3, LenProperties
<1>5. j.cut \in Nat /\ j.add \in Seq(Nat) /\ j.name \in Seq(Nat)
  BY DEF Jobs
<1>. HIDE DEF info, text, bytes
<1>6. cut = IF j.cut <= Len(text) THEN j.cut ELSE Len(text)
  BY <1>4, <1>5, MinOfTwo
<1>7. cut \in Nat /\ cut <= Len(text)
  BY <1>4, <1>5, <1>6
<1>. HIDE DEF cut
<1>8. SubSeq(text, cut + 1, Len(text)) \in Seq(Nat)
  <2>1. cut + 1 \in 1 .. Len(text) + 1 /\ Len(text) \in (cut + 1) - 1 .. Len(text)
    BY <1>4, <1>7
  <2>. QED  BY <1>3, <2>1, SubSeqProperties
<1>9. SubSeq(text, cut + 1, Len(text)) \o j.add \in Seq(Nat)
  BY <1>5, <1>8, ConcatProperties
<1>10. bytes - cut + Len(j.add) - Len(j.name) \in Int
  <2>1. Len(j.add) \in Nat /\ Len(j.name) \in Nat
    BY <1>5, LenProperties
  <2>. QED  BY <1>2, <1>7, <2>1
<1>. QED  BY <1>9, <1>10 DEF Editor, info, bytes, text, cut
-----------------------------------------------------------------------------
(* Pieces of steps.                                                        *)

LEMMA DiskOfDrive ==
    ASSUME TypeOK
    PROVE  /\ disk \in [Drives -> Disk] /\ drive \in Drives /\ selected \in Drives
           /\ disk[drive] \in Disk /\ disk[selected] \in Disk
  BY DEF TypeOK

LEMMA JobType ==
    ASSUME TypeOK
    PROVE  job \in Jobs /\ job.srcdrv \in Drives
<1>1. NoJob.srcdrv \in Drives
  BY ESFSAssumption DEF NoJob
<1>. QED  BY <1>1, NoJobType, ESFSAssumption DEF TypeOK

LEMMA WriteType ==
    ASSUME TypeOK, NEW b, NEW data \in Sector, Write(b, data)
    PROVE  disk' \in [Drives -> Disk]
<1>1. WriteSector(disk[drive], b, data) \in Disk
  BY DiskOfDrive, WriteSectorType
<1>. QED  BY <1>1, DiskOfDrive DEF Write

(* set_file_info as an action.                                             *)
LEMMA UpdateType ==
    ASSUME TypeOK, NEW name, NEW ino \in Inode,
           disk' = [disk EXCEPT ![drive] = SetFileInfo(@, name, ino)]
    PROVE  disk' \in [Drives -> Disk]
<1>1. SetFileInfo(disk[drive], name, ino) \in Disk
  BY DiskOfDrive, SetFileInfoType
<1>. QED  BY <1>1, DiskOfDrive

LEMMA ReturnType ==
    ASSUME TypeOK, NEW value \in Nat, todo # <<>>, Return(value)
    PROVE  todo' \in Seq(Calls) /\ pc' = "run" /\ fr' \in Frame /\ ret' \in Nat
<1>1. todo \in Seq(Calls)
  BY DEF TypeOK
<1>2. Tail(todo) \in Seq(Calls)
  BY <1>1, HeadTailProperties DEF Return
<1>. QED  BY <1>2, NoFrameType DEF Return

(* Once a call has returned only the type is left to show.                 *)
LEMMA Returned ==
    ASSUME TypeOK', pc' \in {"off", "shell", "run"},
           wsize' <= Len(payload')
    PROVE  IInv'
  BY DEF IInv, CallPending, BufferLongEnough, PlacesSet, AtWrite

LEMMA LookupType ==
    ASSUME TypeOK, NEW call, NEW name
    PROVE  Lookup(call, name) \subseteq Inode
<1>1. stale \in Inode
  BY DEF TypeOK
<1>. DEFINE leftover == IF call \in StaleCalls THEN {NoInode, stale} ELSE {NoInode}
<1>2. leftover \in SUBSET Inode
  BY <1>1, NoInodeType
<1>. HIDE DEF leftover
<1>3. GetFileInfo(disk[drive], name, leftover) \subseteq Inode
  BY <1>2, DiskOfDrive, GetFileInfoType
<1>. QED  BY <1>3 DEF Lookup, leftover

LEMMA StartLabType ==
    ASSUME TypeOK
    PROVE  StartLab \in Nat
  BY DiskAssumption DEF TypeOK, StartLab, Superblock

LEMMA SaveType ==
    ASSUME TypeOK, lab' \in Nat, SaveSuperblock
    PROVE  sb' \in Superblock /\ disk' \in [Drives -> Disk]
<1>. DEFINE saved == [sb EXCEPT !.last_allocated_block = lab']
<1>1. saved \in Superblock
  BY DEF TypeOK, Superblock
<1>2. SuperblockSector(saved) \in Sector
  BY <1>1, SuperblockSectorType
<1>3. sb' = saved /\ Write(SuperblockBlock, SuperblockSector(saved))
  BY DEF SaveSuperblock
<1>. HIDE DEF saved
<1>. QED  BY <1>1, <1>2, <1>3, WriteType

-----------------------------------------------------------------------------
(* Every action keeps the invariant.                                       *)

LEMMA InitIInv == Init => IInv
<1>. SUFFICES ASSUME Init
              PROVE  IInv
  OBVIOUS
<1>1. TypeOK
  <2>1. disk \in [Drives -> Disk]
    BY ESFSAssumption DEF Init
  <2>2. payload \in Seq(Nat) /\ todo \in Seq(Calls)
    BY DEF Init
  <2>3. 0 \in 0 .. MaxCommands /\ 0 \in 0 .. MaxCrashes
    BY ESFSAssumption
  <2>. QED  BY <2>1, <2>2, <2>3, ESFSAssumption, NoSuperblockType, NoInodeType,
               NoFrameType DEF Init, TypeOK
<1>2. wsize <= Len(payload)
  BY DEF Init
<1>. QED  BY <1>1, <1>2
          DEF Init, IInv, CallPending, BufferLongEnough, PlacesSet, AtWrite

LEMMA BootStep == IInv /\ Boot => IInv'
<1>. SUFFICES ASSUME IInv, Boot
              PROVE  IInv'
  OBVIOUS
<1>. USE DEF IInv, Boot
<1>1. PICK skipped \in ProbeErrors, unset \in StackLabs :
          LET new == InitFs(disk[BootDrive], skipped, unset)
          IN  /\ sb' = new /\ lab' = new.last_allocated_block
              /\ disk' = [disk EXCEPT ![BootDrive] =
                             WriteSector(@, SuperblockBlock, SuperblockSector(new))]
  OBVIOUS
<1>. DEFINE new == InitFs(disk[BootDrive], skipped, unset)
<1>2. disk[BootDrive] \in Disk /\ BootDrive \in Drives /\ disk \in [Drives -> Disk]
      /\ unset \in Nat
  BY ESFSAssumption DEF TypeOK
<1>3. new \in Superblock
  BY <1>2, InitFsType
<1>4. /\ sb' = new /\ lab' = new.last_allocated_block
      /\ disk' = [disk EXCEPT ![BootDrive] =
                     WriteSector(@, SuperblockBlock, SuperblockSector(new))]
  BY <1>1
<1>. HIDE DEF new
<1>5. WriteSector(disk[BootDrive], SuperblockBlock, SuperblockSector(new)) \in Disk
  BY <1>2, <1>3, SuperblockSectorType, WriteSectorType
<1>6. disk' \in [Drives -> Disk]
  BY <1>2, <1>4, <1>5
<1>7. lab' \in Nat /\ sb' \in Superblock
  BY <1>3, <1>4 DEF Superblock
<1>8. <<"format">> \in Seq(Calls) /\ <<"format">> # <<>>
  BY DEF Calls
<1>9. pc' \in {"shell", "super"} /\ todo' \in Seq(Calls)
      /\ (pc' = "super" => todo' # <<>>)
  BY <1>8 DEF TypeOK
<1>10. TypeOK'
  BY <1>2, <1>6, <1>7, <1>9 DEF TypeOK, program, bounds
<1>11. wsize' <= Len(payload')
  BY DEF BufferLongEnough, program
<1>. QED  BY <1>9, <1>10, <1>11 DEF CallPending, BufferLongEnough, PlacesSet, AtWrite

LEMMA ExecuteStep ==
    ASSUME NEW j \in Commands, IInv, Execute(j)
    PROVE  IInv'
<1>. USE DEF IInv, Execute
<1>1. j \in Jobs /\ WorkDrive(j) \in Drives
  BY ESFSAssumption DEF TypeOK, WorkDrive
<1>2. sb' \in Superblock
  BY DiskOfDrive, SuperblockOfType
<1>3. todo' \in Seq(Calls) /\ todo' # <<>>
  BY ScriptType
<1>4. payload' \in Seq(Nat) /\ wsize' \in Int /\ wsize' <= Len(payload')
  <2>1. CASE j.prog \in {"edit", "hexedit"}
    <3>1. wsize' = Editor(j).size /\ payload' = Buffer(Editor(j).text, Editor(j).size)
      BY <2>1
    <3>2. Editor(j).text \in Seq(Nat) /\ Editor(j).size \in Int
      BY <1>1, EditorType
    <3>. QED  BY <3>1, <3>2, BufferType
  <2>2. CASE j.prog \notin {"edit", "hexedit"}
    <3>1. wsize' = 0 /\ payload' = <<>>
      BY <2>2
    <3>. QED  BY <3>1
  <2>. QED  BY <2>1, <2>2
<1>5. commands' \in 0 .. MaxCommands
  BY ESFSAssumption DEF TypeOK
<1>6. TypeOK'
  BY <1>1, <1>2, <1>3, <1>4, <1>5, NoInodeType DEF TypeOK, env
<1>. QED  BY <1>4, <1>6, Returned

LEMMA ExitStep == IInv /\ Exit => IInv'
<1>. SUFFICES ASSUME IInv, Exit
              PROVE  IInv'
  OBVIOUS
<1>. USE DEF IInv, Exit
<1>1. payload' \in Seq(Nat) /\ wsize' <= Len(payload') /\ ret' \in Nat
  BY DEF TypeOK
<1>2. TypeOK'
  BY <1>1, NoInodeType, NoSuperblockType DEF TypeOK, env, bounds
<1>. QED  BY <1>1, <1>2, Returned

LEMMA SelectDriveStep == IInv /\ SelectDrive => IInv'
<1>. SUFFICES ASSUME IInv, SelectDrive
              PROVE  IInv'
  OBVIOUS
<1>. USE DEF IInv, SelectDrive, Calling
<1>1. selected' \in Drives
  BY DEF TypeOK
<1>2. todo' \in Seq(Calls) /\ pc' = "run" /\ fr' \in Frame /\ ret' \in Nat
  <2>1. (IF job.drv \in Drives THEN 0 ELSE 1) \in Nat
    OBVIOUS
  <2>. QED  BY <2>1, ReturnType
<1>3. TypeOK'
  BY <1>1, <1>2 DEF TypeOK, program, bounds
<1>4. wsize' <= Len(payload')
  BY DEF BufferLongEnough, program
<1>. QED  BY <1>2, <1>3, <1>4, Returned

LEMMA FetchStep == IInv /\ Fetch => IInv'
<1>. SUFFICES ASSUME IInv, Fetch
              PROVE  IInv'
  OBVIOUS
<1>. USE DEF IInv, Fetch, Calling
<1>. DEFINE info  == ProgramLookup(job.srcdrv, job.src)
            bytes == Signed(info.size)
            size  == bytes - (Len(job.src) + 1)
            body  == ReadBody(disk[job.srcdrv], info, SectorsToRead(bytes))
<1>1. wsize' = size /\ payload' = Buffer(body, size)
  BY Zenon
<1>2. disk[job.srcdrv] \in Disk /\ info \in Inode /\ job.src \in Seq(Nat)
  BY JobType, ProgramLookupType DEF TypeOK, Jobs
<1>. HIDE DEF info
<1>3. bytes \in Int /\ Len(job.src) \in Nat
  BY <1>2, SignedType, LenProperties DEF Inode
<1>. HIDE DEF bytes
<1>4. size \in Int /\ body \in Seq(Nat)
  <2>1. size \in Int
    BY <1>3
  <2>2. SectorsToRead(bytes) \in Int
    BY <1>3, SectorsToReadType
  <2>3. body \in Seq(Nat)
    BY <1>2, <2>2, ReadBodyType, Zenon
  <2>. QED  BY <2>1, <2>3
<1>. HIDE DEF size, body
<1>5. payload' \in Seq(Nat) /\ wsize' \in Int /\ wsize' <= Len(payload')
  BY <1>1, <1>4, BufferType
<1>6. todo' \in Seq(Calls) /\ pc' = "run" /\ fr' \in Frame /\ ret' \in Nat
  BY ReturnType DEF TypeOK
<1>7. TypeOK'
  BY <1>5, <1>6 DEF TypeOK, env, bounds
<1>. QED  BY <1>5, <1>6, <1>7, Returned

LEMMA RetryStep == IInv /\ Retry => IInv'
<1>. SUFFICES ASSUME IInv, Retry
              PROVE  IInv'
  OBVIOUS
<1>. USE DEF IInv, Retry, Calling
<1>1. todo' \in Seq(Calls)
  <2>1. todo \in Seq(Calls)
    BY DEF TypeOK
  <2>2. Tail(todo) \in Seq(Calls)
    BY <2>1, HeadTailProperties
  <2>. QED  BY <2>2, ScriptType
<1>2. TypeOK'
  BY <1>1 DEF TypeOK, env, program, bounds
<1>3. wsize' <= Len(payload') /\ pc' = "run"
  BY DEF BufferLongEnough, program
<1>. QED  BY <1>2, <1>3, Returned
-----------------------------------------------------------------------------
(* file_create.                                                            *)

LEMMA CreateStep == IInv /\ Create => IInv'
<1>. SUFFICES ASSUME IInv, Create
              PROVE  IInv'
  OBVIOUS
<1>. USE DEF IInv
<1>1. /\ TypeOK /\ todo # <<>>
      /\ wsize' <= Len(payload')
      /\ UNCHANGED <<selected, drive, sb, program, bounds>>
  BY DEF Create, Calling, BufferLongEnough, program
<1>2. PICK info \in Lookup("create", job.name) :
          /\ stale' = info
          /\ \/ /\ info.valid = 1
                /\ Return(1)
                /\ UNCHANGED <<disk, lab>>
             \/ /\ info.valid # 1
                /\ FreeEntry(disk[drive], sb) = {}
                /\ lab' = StartLab
                /\ \E value \in {0, 1} : Return(value)
                /\ UNCHANGED disk
             \/ /\ info.valid # 1
                /\ \E e \in FreeEntry(disk[drive], sb) :
                      LET block == Allocate(disk[drive], sb, StartLab)
                          ino   == [valid |-> 1, size |-> InitialSize(job.name),
                                    ptrs |-> [NoInode.ptrs EXCEPT ![0] = block]]
                          image == WithInode(disk[drive][InodeSector(e)], e, ino)
                      IN  /\ Write(InodeSector(e), image)
                          /\ lab' = Cursor(disk[drive], sb, StartLab)
                          /\ fr' = [NoFrame EXCEPT !.entry = e, !.block = block,
                                                   !.image = image]
                /\ pc' = "image" /\ UNCHANGED <<ret, todo>>
  BY DEF Create
<1>3. stale' \in Inode
  BY <1>1, <1>2, LookupType
<1>4. StartLab \in Nat /\ sb \in Superblock /\ job \in Jobs
  BY <1>1, StartLabType, JobType DEF TypeOK
<1>5. CASE \E value \in {0, 1} : Return(value) /\ UNCHANGED disk /\ lab' \in {lab, StartLab}
  <2>1. PICK value \in {0, 1} : Return(value)
    BY <1>5
  <2>2. todo' \in Seq(Calls) /\ pc' = "run" /\ fr' \in Frame /\ ret' \in Nat
    BY <1>1, <2>1, ReturnType
  <2>3. TypeOK'
    BY <1>1, <1>3, <1>4, <1>5, <2>2 DEF TypeOK, program, bounds
  <2>. QED  BY <1>1, <2>2, <2>3, Returned
<1>6. CASE \E e \in FreeEntry(disk[drive], sb) :
              LET block == Allocate(disk[drive], sb, StartLab)
                  ino   == [valid |-> 1, size |-> InitialSize(job.name),
                            ptrs |-> [NoInode.ptrs EXCEPT ![0] = block]]
                  image == WithInode(disk[drive][InodeSector(e)], e, ino)
              IN  /\ Write(InodeSector(e), image)
                  /\ lab' = Cursor(disk[drive], sb, StartLab)
                  /\ fr' = [NoFrame EXCEPT !.entry = e, !.block = block,
                                           !.image = image]
                  /\ pc' = "image" /\ UNCHANGED <<ret, todo>>
  <2>. DEFINE block == Allocate(disk[drive], sb, StartLab)
              ino == [valid |-> 1, size |-> InitialSize(job.name),
                      ptrs |-> [NoInode.ptrs EXCEPT ![0] = block]]
              image(e) == WithInode(disk[drive][InodeSector(e)], e, ino)
  <2>1. PICK e \in FreeEntry(disk[drive], sb) :
          /\ Write(InodeSector(e), image(e))
          /\ lab' = Cursor(disk[drive], sb, StartLab)
          /\ fr' = [NoFrame EXCEPT !.entry = e, !.block = block, !.image = image(e)]
          /\ pc' = "image" /\ UNCHANGED <<ret, todo>>
    BY <1>6
  <2>2. block \in Nat \ {0}
    BY <1>4, AllocateNotZero
  <2>3. InitialSize(job.name) \in Nat
    <3>1. Len(job.name) \in Nat
      BY <1>4, LenProperties DEF Jobs
    <3>. QED  BY <3>1 DEF InitialSize
  <2>. HIDE DEF block
  <2>4. [NoInode.ptrs EXCEPT ![0] = block] \in [0 .. PtrsPerInode - 1 -> Nat]
    BY <2>2, NoInodeType DEF Inode
  <2>5. ino \in Inode
    BY <2>3, <2>4 DEF Inode
  <2>. HIDE DEF ino
  <2>6. e \in Positions
    BY FreeEntryType
  <2>7. image(e) \in Sector
    <3>1. disk[drive][InodeSector(e)] \in Sector
      BY <1>1, <2>6, DiskOfDrive, PositionPlace DEF Disk
    <3>. QED  BY <2>5, <2>6, <3>1, WithInodeType
  <2>. HIDE DEF image
  <2>8. disk' \in [Drives -> Disk]
    BY <1>1, <2>1, <2>7, WriteType
  <2>9. fr' \in Frame /\ fr'.block # 0
    BY <2>1, <2>2, <2>6, <2>7, NoFrameType DEF Frame
  <2>10. lab' \in Nat
    BY <1>4, <2>1, CursorType
  <2>11. TypeOK'
    BY <1>1, <1>3, <2>1, <2>8, <2>9, <2>10 DEF TypeOK, program, bounds
  <2>. QED  BY <1>1, <2>1, <2>9, <2>11
            DEF CallPending, BufferLongEnough, PlacesSet, AtWrite
<1>. QED
  <2>1. 0 \in {0, 1} /\ 1 \in {0, 1}
    OBVIOUS
  <2>. QED  BY <1>2, <1>5, <1>6, <2>1

LEMMA CreateImageStep == IInv /\ CreateImage => IInv'
<1>. SUFFICES ASSUME IInv, CreateImage
              PROVE  IInv'
  OBVIOUS
<1>. USE DEF IInv, CreateImage
<1>1. fr \in Frame /\ sb \in Superblock /\ lab \in Nat /\ fr.image \in Sector
  BY DEF TypeOK, Frame
<1>2. disk' \in [Drives -> Disk]
  BY <1>1, WriteType
<1>. DEFINE dk == disk'[drive]
            block2 == Allocate(dk, sb, lab)
<1>3. block2 \in Nat \ {0} /\ Cursor(dk, sb, lab) \in Nat
  BY <1>1, AllocateNotZero, CursorType
<1>4. fr' = [fr EXCEPT !.block2 = block2] /\ lab' = Cursor(dk, sb, lab)
  OBVIOUS
<1>. HIDE DEF block2, dk
<1>5. fr' \in Frame /\ fr'.block2 # 0 /\ fr'.block = fr.block /\ lab' \in Nat
  BY <1>1, <1>3, <1>4 DEF Frame
<1>6. TypeOK'
  BY <1>2, <1>5 DEF TypeOK, program, bounds
<1>. QED  BY <1>5, <1>6 DEF CallPending, BufferLongEnough, PlacesSet, AtWrite, program

LEMMA CreateZeroStep == IInv /\ CreateZero => IInv'
<1>. SUFFICES ASSUME IInv, CreateZero
              PROVE  IInv'
  OBVIOUS
<1>. USE DEF IInv, CreateZero
<1>1. disk' \in [Drives -> Disk]
  BY ZeroSectorType, WriteType
<1>2. TypeOK'
  BY <1>1 DEF TypeOK, env, program, bounds
<1>. QED  BY <1>2 DEF CallPending, BufferLongEnough, PlacesSet, AtWrite, program

LEMMA CreatePointerStep == IInv /\ CreatePointer => IInv'
<1>. SUFFICES ASSUME IInv, CreatePointer
              PROVE  IInv'
  OBVIOUS
<1>. USE DEF IInv, CreatePointer
<1>1. ToSector(<<fr.block2>>) \in Sector
  <2>1. fr.block2 \in Nat
    BY DEF TypeOK, Frame
  <2>2. <<fr.block2>> \in Seq(Nat)
    BY <2>1
  <2>. QED  BY <2>2, ToSectorType
<1>2. disk' \in [Drives -> Disk]
  BY <1>1, WriteType
<1>3. TypeOK'
  BY <1>2 DEF TypeOK, env, program, bounds
<1>. QED  BY <1>3 DEF CallPending, BufferLongEnough, PlacesSet, AtWrite, program

LEMMA CreateNameStep == IInv /\ CreateName => IInv'
<1>. SUFFICES ASSUME IInv, CreateName
              PROVE  IInv'
  OBVIOUS
<1>. USE DEF IInv, CreateName
<1>1. ToSector(job.name) \in Sector
  BY JobType, ToSectorType DEF Jobs
<1>2. disk' \in [Drives -> Disk]
  BY <1>1, WriteType
<1>3. TypeOK'
  BY <1>2 DEF TypeOK, env, program, bounds
<1>. QED  BY <1>3 DEF CallPending, BufferLongEnough, PlacesSet, AtWrite, program

LEMMA CreateSaveStep == IInv /\ CreateSave => IInv'
<1>. SUFFICES ASSUME IInv, CreateSave
              PROVE  IInv'
  OBVIOUS
<1>. USE DEF IInv, CreateSave
<1>1. lab' \in Nat /\ todo # <<>>
  BY DEF TypeOK, CallPending
<1>2. sb' \in Superblock /\ disk' \in [Drives -> Disk]
  BY <1>1, SaveType
<1>3. todo' \in Seq(Calls) /\ pc' = "run" /\ fr' \in Frame /\ ret' \in Nat
  BY <1>1, ReturnType
<1>4. TypeOK'
  BY <1>1, <1>2, <1>3 DEF TypeOK, program, bounds
<1>5. wsize' <= Len(payload')
  BY DEF BufferLongEnough, program
<1>. QED  BY <1>3, <1>4, <1>5, Returned
-----------------------------------------------------------------------------
(* file_delete.                                                            *)

LEMMA DeleteStep == IInv /\ Delete => IInv'
<1>. SUFFICES ASSUME IInv, Delete
              PROVE  IInv'
  OBVIOUS
<1>. USE DEF IInv
<1>1. /\ TypeOK /\ todo # <<>>
      /\ wsize' <= Len(payload')
      /\ UNCHANGED <<env, drive, sb, program, bounds>>
  BY DEF Delete, Calling, BufferLongEnough, program
<1>2. PICK info \in Lookup("delete", job.name) :
          /\ stale' = info
          /\ \/ /\ info.valid # 1
                /\ Return(1)
                /\ UNCHANGED disk
             \/ /\ info.valid = 1
                /\ disk' = [disk EXCEPT ![drive] = SetFileInfo(@, job.name, NoInode)]
                /\ fr' = [NoFrame EXCEPT !.info = info]
                /\ pc' = "load" /\ UNCHANGED <<ret, todo>>
  BY DEF Delete
<1>3. info \in Inode /\ stale' \in Inode
  BY <1>1, <1>2, LookupType
<1>4. CASE Return(1) /\ UNCHANGED disk
  <2>1. todo' \in Seq(Calls) /\ pc' = "run" /\ fr' \in Frame /\ ret' \in Nat
    BY <1>1, <1>4, ReturnType
  <2>2. TypeOK'
    BY <1>1, <1>3, <1>4, <2>1 DEF TypeOK, env, program, bounds
  <2>. QED  BY <1>1, <2>1, <2>2, Returned
<1>5. CASE /\ disk' = [disk EXCEPT ![drive] = SetFileInfo(@, job.name, NoInode)]
           /\ fr' = [NoFrame EXCEPT !.info = info]
           /\ pc' = "load" /\ UNCHANGED <<ret, todo>>
  <2>1. disk' \in [Drives -> Disk]
    BY <1>1, <1>5, NoInodeType, UpdateType
  <2>2. fr' \in Frame
    BY <1>3, <1>5, NoFrameType DEF Frame
  <2>3. TypeOK'
    BY <1>1, <1>3, <1>5, <2>1, <2>2 DEF TypeOK, env, program, bounds
  <2>. QED  BY <1>1, <1>5, <2>3
            DEF CallPending, BufferLongEnough, PlacesSet, AtWrite
<1>. QED  BY <1>2, <1>4, <1>5

LEMMA DeleteLoadStep == IInv /\ DeleteLoad => IInv'
<1>. SUFFICES ASSUME IInv, DeleteLoad
              PROVE  IInv'
  OBVIOUS
<1>. USE DEF IInv, DeleteLoad
<1>. DEFINE ptr == fr.info.ptrs[fr.i]
            buf == ReadSector(disk[drive], ptr)
            rest == IF ptr = 0 THEN {} ELSE PointersIn(buf)
<1>1. buf \in Sector /\ rest \subseteq Cells /\ \A c \in rest : buf[c] # 0
  BY DiskOfDrive, ReadSectorType DEF PointersIn
<1>2. fr' = [fr EXCEPT !.i = @ + 1, !.buf = buf, !.rest = rest]
  OBVIOUS
<1>. HIDE DEF buf, rest
<1>3. fr \in Frame
  BY DEF TypeOK
<1>4. fr' \in Frame /\ fr'.rest = rest /\ fr'.buf = buf
  <2>. HIDE DEF DeleteLoad, IInv
  <2>1. fr.i + 1 \in Nat /\ rest \in SUBSET Cells
    BY <1>1, <1>3 DEF Frame
  <2>. QED  BY <1>1, <1>2, <1>3, <2>1 DEF Frame
<1>5. TypeOK'
  BY <1>4 DEF TypeOK, env, program, bounds
<1>. QED  BY <1>1, <1>4, <1>5
          DEF CallPending, BufferLongEnough, PlacesSet, AtWrite, program

LEMMA DeleteWipeStep == IInv /\ DeleteWipe => IInv'
<1>. SUFFICES ASSUME IInv, DeleteWipe
              PROVE  IInv'
  OBVIOUS
<1>. USE DEF IInv
<1>1. UNCHANGED <<env, drive, sb, stale, todo, ret, program, bounds>> /\ pc = "wipe"
  BY DEF DeleteWipe
<1>2. CASE pc' = "load" /\ UNCHANGED <<disk, fr>>
  <2>1. TypeOK'
    BY <1>1, <1>2 DEF TypeOK, env, program, bounds
  <2>. QED  BY <1>1, <1>2, <2>1
            DEF CallPending, BufferLongEnough, PlacesSet, AtWrite, program
<1>3. CASE /\ \E c \in fr.rest :
                  /\ Write(fr.buf[c], ZeroSector)
                  /\ fr' = [fr EXCEPT !.rest = @ \ {c},
                                      !.least = Least(@, fr.buf[c])]
           /\ UNCHANGED pc
  <2>1. PICK c \in fr.rest :
                  /\ Write(fr.buf[c], ZeroSector)
                  /\ fr' = [fr EXCEPT !.rest = @ \ {c},
                                      !.least = Least(@, fr.buf[c])]
    BY <1>3
  <2>2. disk' \in [Drives -> Disk]
    BY <2>1, ZeroSectorType, WriteType
  <2>3. fr \in Frame /\ fr.buf[c] \in Nat
    BY DEF TypeOK, Frame, Sector
  <2>4. Least(fr.least, fr.buf[c]) \in Nat
    BY <2>3 DEF Least, Frame
  <2>5. fr' \in Frame /\ fr'.buf = fr.buf /\ fr'.rest \subseteq fr.rest
    BY <2>1, <2>3, <2>4 DEF Frame
  <2>6. TypeOK'
    BY <1>1, <1>3, <2>2, <2>5 DEF TypeOK, env, program, bounds
  <2>. QED  BY <1>1, <1>3, <2>5, <2>6
            DEF CallPending, BufferLongEnough, PlacesSet, AtWrite, program
<1>. QED  BY <1>2, <1>3 DEF DeleteWipe

LEMMA DeleteSaveStep == IInv /\ DeleteSave => IInv'
<1>. SUFFICES ASSUME IInv, DeleteSave
              PROVE  IInv'
  OBVIOUS
<1>. USE DEF IInv, DeleteSave
<1>1. lab' \in Nat /\ todo # <<>>
  BY DEF TypeOK, CallPending, Frame
<1>2. sb' \in Superblock /\ disk' \in [Drives -> Disk]
  BY <1>1, SaveType
<1>3. todo' \in Seq(Calls) /\ pc' = "run" /\ fr' \in Frame /\ ret' \in Nat
  BY <1>1, ReturnType
<1>4. TypeOK'
  BY <1>1, <1>2, <1>3 DEF TypeOK, program, bounds
<1>5. wsize' <= Len(payload')
  BY DEF BufferLongEnough, program
<1>. QED  BY <1>3, <1>4, <1>5, Returned

-----------------------------------------------------------------------------
(* file_write.                                                             *)

LEMMA WriteCallStep == IInv /\ WriteCall => IInv'
<1>. SUFFICES ASSUME IInv, WriteCall
              PROVE  IInv'
  OBVIOUS
<1>. USE DEF IInv
<1>1. /\ TypeOK /\ todo # <<>>
      /\ wsize' <= Len(payload')
      /\ UNCHANGED <<disk, selected, drive, sb, stale, program, bounds>>
  BY DEF WriteCall, Calling, BufferLongEnough, program
<1>2. PICK info \in Lookup("write", job.name) :
          \/ /\ info.valid # 1
             /\ Return(0)
             /\ UNCHANGED lab
          \/ /\ info.valid = 1
             /\ lab' = StartLab
             /\ fr' = [NoFrame EXCEPT !.info = info, !.left = wsize]
             /\ pc' = "pointers" /\ UNCHANGED <<ret, todo>>
  BY DEF WriteCall
<1>3. info \in Inode
  BY <1>1, LookupType
<1>4. CASE Return(0) /\ UNCHANGED lab
  <2>1. todo' \in Seq(Calls) /\ pc' = "run" /\ fr' \in Frame /\ ret' \in Nat
    BY <1>1, <1>4, ReturnType
  <2>2. TypeOK'
    BY <1>1, <1>4, <2>1 DEF TypeOK, program, bounds
  <2>. QED  BY <1>1, <2>1, <2>2, Returned
<1>5. CASE /\ lab' = StartLab
           /\ fr' = [NoFrame EXCEPT !.info = info, !.left = wsize]
           /\ pc' = "pointers" /\ UNCHANGED <<ret, todo>>
  <2>1. lab' \in Nat /\ wsize \in Int
    BY <1>1, <1>5, StartLabType DEF TypeOK
  <2>2. fr' \in Frame /\ fr'.i = 0 /\ fr'.total = 0 /\ fr'.left = wsize
    BY <1>3, <1>5, <2>1, NoFrameType DEF Frame, NoFrame
  <2>3. TypeOK'
    BY <1>1, <1>5, <2>1, <2>2 DEF TypeOK, program, bounds
  <2>4. Len(payload') \in Nat /\ payload' = payload /\ wsize' = wsize
    BY <1>1, LenProperties DEF TypeOK, program
  <2>5. BufferLongEnough'
    BY <1>1, <2>1, <2>2, <2>4 DEF BufferLongEnough
  <2>6. PlacesSet'
    BY <1>5, <2>2, DiskAssumption DEF PlacesSet
  <2>. QED  BY <1>1, <1>5, <2>3, <2>5, <2>6 DEF CallPending
<1>. QED  BY <1>2, <1>4, <1>5

LEMMA WritePointerStep == IInv /\ WritePointer => IInv'
<1>. SUFFICES ASSUME IInv, WritePointer
              PROVE  IInv'
  OBVIOUS
<1>. USE DEF IInv, WritePointer
<1>1. fr \in Frame /\ pc' \in {"pointers", "blocks", "size"}
  BY DEF TypeOK
<1>. DEFINE buf == ReadSector(disk[drive], fr.info.ptrs[fr.i])
<1>2. buf \in Sector
  BY DiskOfDrive, ReadSectorType
<1>. HIDE DEF buf
<1>3. /\ fr' \in Frame /\ fr'.total = fr.total /\ fr'.left = fr.left
      /\ fr'.info = fr.info
      /\ pc' = "pointers" => fr'.i = fr.i + 1 /\ fr.i # PtrsPerInode
      /\ pc' = "blocks" => fr'.i = fr.i /\ fr.i # PtrsPerInode /\ fr.info.ptrs[fr.i] # 0
  <2>1. pc = "pointers"
    OBVIOUS
  <2>2. CASE pc' = "size" /\ UNCHANGED fr
    BY <1>1, <2>2
  <2>3. CASE /\ fr.i # PtrsPerInode /\ fr.info.ptrs[fr.i] # 0 /\ pc' = "blocks"
             /\ fr' = [fr EXCEPT !.j = 0, !.buf = buf]
    <3>. HIDE DEF WritePointer, IInv
    <3>. QED  BY <1>1, <1>2, <2>3 DEF Frame
  <2>4. CASE /\ fr.i # PtrsPerInode /\ UNCHANGED pc
             /\ fr' = [fr EXCEPT !.i = @ + 1]
    <3>. HIDE DEF WritePointer, IInv
    <3>. QED  BY <1>1, <2>1, <2>4 DEF Frame
  <2>. QED  BY <2>2, <2>3, <2>4 DEF buf
<1>4. TypeOK'
  BY <1>1, <1>3 DEF TypeOK, env, program, bounds
<1>5. BufferLongEnough'
  BY <1>1, <1>3 DEF BufferLongEnough, program, AtWrite
<1>6. PlacesSet'
  <2>1. fr.i \in Nat /\ fr.i <= PtrsPerInode
    BY <1>1 DEF PlacesSet, Frame
  <2>. QED  BY <1>1, <1>3, <2>1, DiskAssumption DEF PlacesSet
<1>. QED  BY <1>4, <1>5, <1>6 DEF CallPending

LEMMA WriteNextPointerStep == IInv /\ WriteNextPointer => IInv'
<1>. SUFFICES ASSUME IInv, WriteNextPointer
              PROVE  IInv'
  OBVIOUS
<1>. USE DEF IInv, WriteNextPointer
<1>1. fr \in Frame /\ pc' \in {"pointers", "size"}
  BY DEF TypeOK
<1>2. /\ fr' \in Frame /\ fr'.total = fr.total /\ fr'.left = fr.left
      /\ pc' = "pointers" => fr'.i = fr.i + 1
  BY <1>1 DEF Frame
<1>3. TypeOK'
  BY <1>1, <1>2 DEF TypeOK, env, program, bounds
<1>4. BufferLongEnough'
  BY <1>1, <1>2 DEF BufferLongEnough, program, AtWrite
<1>5. PlacesSet'
  <2>1. fr.i \in Nat /\ fr.i < PtrsPerInode
    BY <1>1 DEF PlacesSet, Frame
  <2>. QED  BY <1>1, <1>2, <2>1, DiskAssumption DEF PlacesSet
<1>. QED  BY <1>3, <1>4, <1>5 DEF CallPending
(* A step within the loops that changes only the word and the buffer.      *)
LEMMA WithinBlock ==
    ASSUME IInv, pc = "blocks", pc' = "blocks",
           NEW buf \in Sector, NEW j \in Nat,
           fr' = [fr EXCEPT !.j = j, !.buf = buf],
           disk' \in [Drives -> Disk], lab' \in Nat,
           UNCHANGED <<selected, drive, sb, stale, todo, ret, program, bounds>>
    PROVE  IInv'
<1>. USE DEF IInv
<1>1. fr \in Frame
  BY DEF TypeOK
<1>2. /\ fr' \in Frame /\ fr'.total = fr.total /\ fr'.left = fr.left
      /\ fr'.i = fr.i /\ fr'.info = fr.info
  BY <1>1 DEF Frame
<1>3. TypeOK'
  BY <1>2 DEF TypeOK, program, bounds
<1>4. BufferLongEnough'
  BY <1>2 DEF BufferLongEnough, program, AtWrite
<1>5. PlacesSet'
  BY <1>2 DEF PlacesSet
<1>. QED  BY <1>3, <1>4, <1>5 DEF CallPending

LEMMA WriteAllocateStep == IInv /\ WriteAllocate => IInv'
<1>. SUFFICES ASSUME IInv, WriteAllocate
              PROVE  IInv'
  OBVIOUS
<1>. DEFINE buf == [fr.buf EXCEPT ![fr.j] = Allocate(disk[drive], sb, lab)]
<1>1. /\ TypeOK /\ fr \in Frame /\ sb \in Superblock /\ lab \in Nat
      /\ fr.j \in Nat /\ fr.buf \in Sector
  BY DEF IInv, TypeOK, Frame
<1>2. /\ Allocate(disk[drive], sb, lab) \in Nat
      /\ Cursor(disk[drive], sb, lab) \in Nat
  BY <1>1, AllocateNotZero, CursorType
<1>3. buf \in Sector
  BY <1>1, <1>2 DEF Sector
<1>4. /\ Write(fr.info.ptrs[fr.i], buf) /\ fr' = [fr EXCEPT !.buf = buf]
      /\ lab' = Cursor(disk[drive], sb, lab)
      /\ pc = "blocks" /\ pc' = "blocks"
      /\ UNCHANGED <<selected, drive, sb, stale, todo, ret, program, bounds>>
  BY DEF WriteAllocate, AtBlock
<1>. HIDE DEF buf
<1>5. disk' \in [Drives -> Disk]
  BY <1>1, <1>3, <1>4, WriteType
<1>6. fr' = [fr EXCEPT !.j = fr.j, !.buf = buf]
  BY <1>1, <1>4 DEF Frame
<1>. QED  BY <1>1, <1>2, <1>3, <1>4, <1>5, <1>6, WithinBlock

LEMMA WriteFullStep == IInv /\ WriteFull => IInv'
<1>. SUFFICES ASSUME IInv, WriteFull
              PROVE  IInv'
  OBVIOUS
<1>. DEFINE buf == IF fr.j = LastCell THEN fr.buf
                   ELSE [fr.buf EXCEPT ![fr.j + 1] = Allocate(disk[drive], sb, lab)]
<1>1. /\ TypeOK /\ fr \in Frame /\ sb \in Superblock /\ lab \in Nat
      /\ fr.j \in Nat /\ fr.buf \in Sector /\ disk \in [Drives -> Disk]
  BY DEF IInv, TypeOK, Frame
<1>2. /\ Allocate(disk[drive], sb, lab) \in Nat
      /\ Cursor(disk[drive], sb, lab) \in Nat
  BY <1>1, AllocateNotZero, CursorType
<1>3. buf \in Sector
  BY <1>1, <1>2 DEF Sector
<1>4. /\ \/ fr' = [fr EXCEPT !.j = @ + 1] /\ UNCHANGED <<disk, lab>>
         \/ /\ Write(fr.info.ptrs[fr.i], buf)
            /\ lab' = Cursor(disk[drive], sb, lab)
            /\ fr' = [fr EXCEPT !.j = @ + 1, !.buf = buf]
      /\ pc = "blocks" /\ pc' = "blocks"
      /\ UNCHANGED <<selected, drive, sb, stale, todo, ret, program, bounds>>
  BY DEF WriteFull, AtBlock
<1>. HIDE DEF buf
<1>5. fr.j + 1 \in Nat
  BY <1>1
<1>6. CASE fr' = [fr EXCEPT !.j = @ + 1] /\ UNCHANGED <<disk, lab>>
  <2>1. fr' = [fr EXCEPT !.j = fr.j + 1, !.buf = fr.buf]
    BY <1>1, <1>6 DEF Frame
  <2>2. disk' \in [Drives -> Disk] /\ lab' \in Nat
    BY <1>1, <1>6
  <2>. QED  BY <1>1, <1>4, <1>5, <2>1, <2>2, WithinBlock
<1>7. CASE /\ Write(fr.info.ptrs[fr.i], buf)
           /\ lab' = Cursor(disk[drive], sb, lab)
           /\ fr' = [fr EXCEPT !.j = @ + 1, !.buf = buf]
  <2>1. disk' \in [Drives -> Disk] /\ lab' \in Nat
    BY <1>1, <1>2, <1>3, <1>7, WriteType
  <2>. QED  BY <1>3, <1>4, <1>5, <1>7, <2>1, WithinBlock
<1>. QED  BY <1>4, <1>6, <1>7

LEMMA WriteFillStep == IInv /\ WriteFill => IInv'
<1>. SUFFICES ASSUME IInv, WriteFill
              PROVE  IInv'
  OBVIOUS
<1>. DEFINE first == fr.i = 0 /\ fr.j = 0
            n     == FillCount(Block, first, fr.left)
            info  == [fr.info EXCEPT !.size = (@ + n) % WordRange]
            data  == Fill(Block, first, payload, fr.total, n)
<1>1. /\ fr' = [fr EXCEPT !.info = info, !.left = @ - n, !.total = @ + n,
                          !.data = data]
      /\ disk' = [disk EXCEPT ![drive] = SetFileInfo(@, job.name, info)]
      /\ pc = "blocks" /\ pc' = "data" /\ fr.buf[fr.j] # 0
      /\ UNCHANGED <<env, drive, sb, stale, todo, ret, program, bounds>>
  BY DEF WriteFill, AtBlock
<1>2. /\ TypeOK /\ fr \in Frame /\ fr.left \in Int /\ fr.total \in Nat
      /\ fr.info \in Inode /\ payload \in Seq(Nat)
  BY DEF IInv, TypeOK, Frame
<1>3. Block \in Sector
  BY <1>2, DiskOfDrive, ReadSectorType DEF Block
<1>4. n \in Nat /\ (fr.left <= 0 => n = 0) /\ (fr.left > 0 => n <= fr.left)
  BY <1>2, FillCountType
<1>. HIDE DEF n
<1>5. Len(payload) \in Nat
  BY <1>2, LenProperties
<1>6. /\ fr.total + n <= Len(payload)
      /\ fr.left - n > 0 => (fr.total + n) + (fr.left - n) <= Len(payload)
  <2>1. /\ fr.total <= Len(payload)
        /\ fr.left > 0 => fr.total + fr.left <= Len(payload)
    BY <1>1 DEF IInv, BufferLongEnough, AtWrite
  <2>. QED  BY <1>2, <1>4, <1>5, <2>1
<1>7. data \in Sector
  BY <1>2, <1>3, <1>4, <1>6, FillType
<1>. HIDE DEF data, first
<1>8. info \in Inode /\ info.ptrs = fr.info.ptrs
  <2>1. fr.info.size + n \in Int
    BY <1>2, <1>4 DEF Inode
  <2>2. (fr.info.size + n) % WordRange \in Nat
    BY <2>1, ModType, DiskAssumption
  <2>. QED  BY <1>2, <2>2 DEF Inode
<1>. HIDE DEF info
<1>9. disk' \in [Drives -> Disk]
  BY <1>1, <1>2, <1>8, UpdateType
<1>10. fr.left - n \in Int /\ fr.total + n \in Nat
  BY <1>2, <1>4
<1>11. /\ fr' \in Frame /\ fr'.left = fr.left - n /\ fr'.total = fr.total + n
       /\ fr'.info = info /\ fr'.i = fr.i /\ fr'.j = fr.j /\ fr'.buf = fr.buf
  BY <1>1, <1>2, <1>7, <1>8, <1>10 DEF Frame
<1>12. TypeOK'
  BY <1>1, <1>2, <1>9, <1>11 DEF TypeOK, env, program, bounds
<1>13. BufferLongEnough'
  BY <1>1, <1>6, <1>11 DEF IInv, BufferLongEnough, program
<1>14. PlacesSet'
  BY <1>1, <1>8, <1>11 DEF IInv, PlacesSet
<1>. QED  BY <1>1, <1>12, <1>13, <1>14 DEF IInv, CallPending

LEMMA WriteDataStep == IInv /\ WriteData => IInv'
<1>. SUFFICES ASSUME IInv, WriteData
              PROVE  IInv'
  OBVIOUS
<1>. DEFINE dk == disk'[drive]
            block == Allocate(dk, sb, lab)
<1>1. /\ Write(fr.buf[fr.j], fr.data)
      /\ \/ /\ fr' = [fr EXCEPT !.info.ptrs[fr.i] = block]
            /\ lab' = Cursor(dk, sb, lab)
            /\ pc' = "chain"
         \/ pc' = "size" /\ UNCHANGED <<fr, lab>>
         \/ pc' = "blocks" /\ fr' = [fr EXCEPT !.j = @ + 1] /\ UNCHANGED lab
      /\ pc = "data"
      /\ UNCHANGED <<selected, drive, sb, stale, todo, ret, program, bounds>>
  BY DEF WriteData
<1>2. /\ TypeOK /\ fr \in Frame /\ fr.data \in Sector /\ sb \in Superblock
      /\ lab \in Nat /\ fr.info \in Inode /\ fr.i \in Nat /\ fr.i < PtrsPerInode
      /\ fr.info.ptrs[fr.i] # 0
  BY <1>1 DEF IInv, TypeOK, Frame, PlacesSet
<1>3. disk' \in [Drives -> Disk]
  BY <1>1, <1>2, WriteType
<1>4. block \in Nat \ {0} /\ Cursor(dk, sb, lab) \in Nat
  BY <1>2, AllocateNotZero, CursorType
<1>. HIDE DEF block, dk
<1>5. /\ fr' \in Frame /\ fr'.total = fr.total /\ fr'.left = fr.left
      /\ fr'.i = fr.i /\ fr'.info.ptrs[fr.i] # 0 /\ lab' \in Nat
  <2>1. CASE /\ fr' = [fr EXCEPT !.info.ptrs[fr.i] = block]
             /\ lab' = Cursor(dk, sb, lab)
    <3>. DEFINE ptrs == [fr.info.ptrs EXCEPT ![fr.i] = block]
                info == [fr.info EXCEPT !.ptrs = ptrs]
    <3>1. fr.i \in 0 .. PtrsPerInode - 1
      BY <1>2, DiskAssumption
    <3>2. ptrs \in [0 .. PtrsPerInode - 1 -> Nat] /\ ptrs[fr.i] = block
      BY <1>2, <1>4, <3>1 DEF Inode
    <3>3. fr' = [fr EXCEPT !.info = info]
      BY <1>2, <2>1 DEF Frame, Inode
    <3>. HIDE DEF ptrs
    <3>4. info \in Inode /\ info.ptrs = ptrs
      BY <1>2, <3>2 DEF Inode
    <3>. HIDE DEF info
    <3>5. /\ fr' \in Frame /\ fr'.total = fr.total /\ fr'.left = fr.left
          /\ fr'.i = fr.i /\ fr'.info = info
      BY <1>2, <3>3, <3>4 DEF Frame
    <3>. QED  BY <1>4, <2>1, <3>2, <3>4, <3>5
  <2>2. CASE UNCHANGED <<fr, lab>>
    BY <1>2, <2>2
  <2>3. CASE fr' = [fr EXCEPT !.j = @ + 1] /\ UNCHANGED lab
    BY <1>2, <2>3 DEF Frame
  <2>. QED  BY <1>1, <2>1, <2>2, <2>3
<1>6. pc' \in {"chain", "size", "blocks"}
  BY <1>1
<1>7. TypeOK'
  BY <1>1, <1>2, <1>3, <1>5, <1>6 DEF TypeOK, program, bounds
<1>8. BufferLongEnough'
  BY <1>1, <1>5, <1>6 DEF IInv, BufferLongEnough, program, AtWrite
<1>9. PlacesSet'
  BY <1>2, <1>5, <1>6 DEF PlacesSet
<1>. QED  BY <1>1, <1>7, <1>8, <1>9 DEF IInv, CallPending

LEMMA WriteChainStep == IInv /\ WriteChain => IInv'
<1>. SUFFICES ASSUME IInv, WriteChain
              PROVE  IInv'
  OBVIOUS
<1>. USE DEF IInv, WriteChain
<1>1. fr \in Frame /\ fr.info \in Inode /\ pc' \in {"size", "blocks"}
  BY DEF TypeOK, Frame
<1>2. disk' \in [Drives -> Disk]
  BY <1>1, UpdateType
<1>3. /\ fr' \in Frame /\ fr'.total = fr.total /\ fr'.left = fr.left
      /\ fr'.i = fr.i /\ fr'.info = fr.info
  BY <1>1 DEF Frame
<1>4. TypeOK'
  BY <1>1, <1>2, <1>3 DEF TypeOK, env, program, bounds
<1>5. BufferLongEnough'
  BY <1>1, <1>3 DEF BufferLongEnough, program, AtWrite
<1>6. PlacesSet'
  BY <1>1, <1>3 DEF PlacesSet
<1>. QED  BY <1>1, <1>4, <1>5, <1>6 DEF CallPending

LEMMA WriteSizeStep == IInv /\ WriteSize => IInv'
<1>. SUFFICES ASSUME IInv, WriteSize
              PROVE  IInv'
  OBVIOUS
<1>. USE DEF IInv, WriteSize
<1>. DEFINE info == [fr.info EXCEPT !.size = (@ + fr.left) % WordRange]
<1>1. disk' = [disk EXCEPT ![drive] = SetFileInfo(@, job.name, info)]
  OBVIOUS
<1>2. info \in Inode
  <2>1. fr \in Frame
    BY DEF TypeOK
  <2>2. fr.info \in Inode /\ fr.left \in Int
    BY <2>1 DEF Frame
  <2>3. fr.info.size + fr.left \in Int
    BY <2>2 DEF Inode
  <2>4. (fr.info.size + fr.left) % WordRange \in Nat
    BY <2>3, ModType, DiskAssumption
  <2>. QED  BY <2>2, <2>4 DEF Inode
<1>. HIDE DEF info
<1>3. disk' \in [Drives -> Disk]
  BY <1>1, <1>2, UpdateType
<1>4. TypeOK'
  BY <1>3 DEF TypeOK, env, program, bounds
<1>. QED  BY <1>4 DEF CallPending, BufferLongEnough, PlacesSet, AtWrite, program

LEMMA WriteSaveStep == IInv /\ WriteSave => IInv'
<1>. SUFFICES ASSUME IInv, WriteSave
              PROVE  IInv'
  OBVIOUS
<1>. USE DEF IInv, WriteSave
<1>1. lab' \in Nat /\ todo # <<>> /\ fr.total \in Nat
  BY DEF TypeOK, CallPending, Frame
<1>2. sb' \in Superblock /\ disk' \in [Drives -> Disk]
  BY <1>1, SaveType
<1>3. todo' \in Seq(Calls) /\ pc' = "run" /\ fr' \in Frame /\ ret' \in Nat
  BY <1>1, ReturnType
<1>4. TypeOK'
  BY <1>1, <1>2, <1>3 DEF TypeOK, program, bounds
<1>5. wsize' <= Len(payload')
  BY DEF BufferLongEnough, program
<1>. QED  BY <1>3, <1>4, <1>5, Returned
-----------------------------------------------------------------------------
(* format and power losses.                                                *)

LEMMA FormatStep == IInv /\ Format => IInv'
<1>. SUFFICES ASSUME IInv, Format
              PROVE  IInv'
  OBVIOUS
<1>. USE DEF IInv, Format, Calling
<1>1. PICK skipped \in ProbeErrors, unset \in StackLabs :
          LET new == InitFs(disk[drive], skipped, unset)
          IN  sb' = new /\ Write(SuperblockBlock, SuperblockSector(new))
  OBVIOUS
<1>. DEFINE new == InitFs(disk[drive], skipped, unset)
<1>2. sb' = new /\ Write(SuperblockBlock, SuperblockSector(new))
  BY <1>1
<1>3. new \in Superblock
  <2>1. unset \in Nat
    BY ESFSAssumption
  <2>. QED  BY <2>1, DiskOfDrive, InitFsType
<1>. HIDE DEF new
<1>4. disk' \in [Drives -> Disk]
  BY <1>2, <1>3, SuperblockSectorType, WriteType
<1>5. TypeOK'
  BY <1>2, <1>3, <1>4, NoFrameType DEF TypeOK, env, program, bounds
<1>6. todo' # <<>> /\ wsize' <= Len(payload') /\ pc' = "super"
  BY DEF BufferLongEnough, program
<1>. QED  BY <1>5, <1>6 DEF CallPending, BufferLongEnough, PlacesSet, AtWrite

LEMMA FormatSuperblockStep == IInv /\ FormatSuperblock => IInv'
<1>. SUFFICES ASSUME IInv, FormatSuperblock
              PROVE  IInv'
  OBVIOUS
<1>. USE DEF IInv, FormatSuperblock
<1>1. SuperblockSector(sb) \in Sector
  BY SuperblockSectorType DEF TypeOK
<1>2. disk' \in [Drives -> Disk]
  BY <1>1, WriteType
<1>3. fr' \in Frame
  <2>1. fr \in Frame /\ fr' = [fr EXCEPT !.i = 1]
    BY DEF TypeOK
  <2>. HIDE DEF IInv, FormatSuperblock
  <2>. QED  BY <2>1 DEF Frame
<1>4. TypeOK'
  BY <1>2, <1>3 DEF TypeOK, env, program, bounds
<1>. QED  BY <1>4 DEF CallPending, BufferLongEnough, PlacesSet, AtWrite, program

LEMMA FormatInodesStep == IInv /\ FormatInodes => IInv'
<1>. SUFFICES ASSUME IInv, FormatInodes
              PROVE  IInv'
  OBVIOUS
<1>. USE DEF IInv
<1>1. /\ TypeOK /\ todo # <<>> /\ pc = "inodes"
      /\ wsize' <= Len(payload')
      /\ UNCHANGED <<env, drive, sb, stale, program, bounds>>
  BY DEF FormatInodes, CallPending, BufferLongEnough, program
<1>2. CASE /\ Write(InodeTableSector(fr.i), ZeroSector)
           /\ fr' = [fr EXCEPT !.i = @ + 1]
           /\ UNCHANGED <<pc, todo, ret>>
  <2>1. disk' \in [Drives -> Disk]
    BY <1>1, <1>2, ZeroSectorType, WriteType
  <2>2. fr' \in Frame
    <3>1. fr \in Frame /\ fr.i + 1 \in Nat
      BY <1>1 DEF TypeOK, Frame
    <3>. HIDE DEF IInv
    <3>. QED  BY <1>2, <3>1 DEF Frame
  <2>3. TypeOK'
    BY <1>1, <1>2, <2>1, <2>2 DEF TypeOK, env, program, bounds
  <2>. QED  BY <1>1, <1>2, <2>3
            DEF CallPending, BufferLongEnough, PlacesSet, AtWrite
<1>3. CASE Return(0) /\ UNCHANGED disk
  <2>1. todo' \in Seq(Calls) /\ pc' = "run" /\ fr' \in Frame /\ ret' \in Nat
    BY <1>1, <1>3, ReturnType
  <2>2. TypeOK'
    BY <1>1, <1>3, <2>1 DEF TypeOK, env, program, bounds
  <2>. QED  BY <1>1, <2>1, <2>2, Returned
<1>. QED  BY <1>2, <1>3 DEF FormatInodes

LEMMA CrashStep == IInv /\ Crash => IInv'
<1>. SUFFICES ASSUME IInv, Crash
              PROVE  IInv'
  OBVIOUS
<1>. USE DEF IInv, Crash
<1>1. payload' \in Seq(Nat) /\ todo' \in Seq(Calls) /\ wsize' <= Len(payload')
  OBVIOUS
<1>2. crashes' \in 0 .. MaxCrashes
  BY ESFSAssumption DEF TypeOK
<1>3. TypeOK'
  BY <1>1, <1>2, ESFSAssumption, NoInodeType, NoSuperblockType, NoFrameType
  DEF TypeOK
<1>. QED  BY <1>1, <1>3, Returned

LEMMA NextIInv == IInv /\ [Next]_vars => IInv'
<1>. SUFFICES ASSUME IInv, [Next]_vars
              PROVE  IInv'
  OBVIOUS
<1>1. CASE FileCreate
  BY <1>1, CreateStep, CreateImageStep, CreateZeroStep, CreatePointerStep,
     CreateNameStep, CreateSaveStep DEF FileCreate
<1>2. CASE FileDelete
  BY <1>2, DeleteStep, DeleteLoadStep, DeleteWipeStep, DeleteSaveStep DEF FileDelete
<1>3. CASE FileWrite
  BY <1>3, WriteCallStep, WritePointerStep, WriteNextPointerStep,
     WriteAllocateStep, WriteFullStep, WriteFillStep, WriteDataStep,
     WriteChainStep, WriteSizeStep, WriteSaveStep DEF FileWrite
<1>4. CASE FormatDisk
  BY <1>4, FormatStep, FormatSuperblockStep, FormatInodesStep DEF FormatDisk
<1>5. CASE Boot \/ Exit \/ SelectDrive \/ Fetch \/ Retry
  BY <1>5, BootStep, ExitStep, SelectDriveStep, FetchStep, RetryStep
<1>6. CASE Look \/ UNCHANGED vars
  BY <1>6 DEF Look, vars, IInv, TypeOK, CallPending, BufferLongEnough, PlacesSet
<1>7. CASE Crash
  BY <1>7, CrashStep
<1>8. CASE \E j \in Commands : Execute(j)
  BY <1>8, ExecuteStep
<1>. QED  BY <1>1, <1>2, <1>3, <1>4, <1>5, <1>6, <1>7, <1>8 DEF Next, Step

THEOREM Invariance == Spec => []IInv
  BY InitIInv, NextIInv, PTL DEF Spec

(* The variables keep their types: a block number never leaves the         *)
(* naturals, the buffer of a call stays a sector, the cursor of the kernel *)
(* and of every superblock is a block number.                              *)
THEOREM TypeCorrect == Spec => []TypeOK
<1>1. IInv => TypeOK
  BY DEF IInv
<1>. QED  BY <1>1, Invariance, PTL

-----------------------------------------------------------------------------
(* The boot sector.                                                        *)

Kept == \A d \in Drives : disk'[d][0] = disk[d][0]

LEMMA SectorZero == 0 \in Sectors /\ SuperblockBlock # 0 /\ SuperblockBlock \in Nat
  BY DiskAssumption DEF Sectors

LEMMA WriteKept ==
    ASSUME TypeOK, NEW b, b # 0, NEW data, Write(b, data)
    PROVE  Kept
<1>1. WriteSector(disk[drive], b, data)[0] = disk[drive][0]
  BY DiskOfDrive, SectorZero, WriteSectorElsewhere
<1>. QED  BY <1>1, DiskOfDrive DEF Write, Kept

LEMMA UpdateKept ==
    ASSUME TypeOK, NEW name, NEW ino,
           disk' = [disk EXCEPT ![drive] = SetFileInfo(@, name, ino)]
    PROVE  Kept
<1>1. 0 \notin {InodeSector(p) : p \in Matches(disk[drive], name)}
  BY MatchesPlace, PositionPlace, SectorZero
<1>2. SetFileInfo(disk[drive], name, ino)[0] = disk[drive][0]
  BY <1>1, SectorZero DEF SetFileInfo
<1>. QED  BY <1>2, DiskOfDrive DEF Kept

LEMMA SaveKept ==
    ASSUME TypeOK, SaveSuperblock
    PROVE  Kept
  BY SectorZero, WriteKept DEF SaveSuperblock

(* Every write of every call goes somewhere else.                          *)
LEMMA NextKept == IInv /\ [Next]_vars => Kept
<1>. SUFFICES ASSUME IInv, [Next]_vars
              PROVE  Kept
  OBVIOUS
<1>0. TypeOK /\ PlacesSet /\ fr \in Frame
  BY DEF IInv, TypeOK
<1>1. CASE UNCHANGED disk
  BY <1>1 DEF Kept
<1>2. CASE Create
  <2>1. CASE \E e \in FreeEntry(disk[drive], sb) : \E image : Write(InodeSector(e), image)
    <3>1. PICK e \in FreeEntry(disk[drive], sb) : \E image : Write(InodeSector(e), image)
      BY <2>1
    <3>2. InodeSector(e) # 0
      BY FreeEntryType, PositionPlace, SectorZero
    <3>. QED  BY <1>0, <3>1, <3>2, WriteKept
  <2>. QED  BY <1>1, <1>2, <2>1 DEF Create
<1>3. CASE CreateImage \/ CreateZero \/ CreatePointer \/ CreateName
  BY <1>0, <1>3, WriteKept
  DEF CreateImage, CreateZero, CreatePointer, CreateName, PlacesSet
<1>4. CASE CreateSave \/ DeleteSave \/ WriteSave
  BY <1>0, <1>4, SaveKept DEF CreateSave, DeleteSave, WriteSave
<1>5. CASE Delete
  BY <1>0, <1>1, <1>5, UpdateKept DEF Delete
<1>6. CASE DeleteWipe
  BY <1>0, <1>1, <1>6, WriteKept DEF DeleteWipe, PlacesSet
<1>7. CASE WriteAllocate \/ WriteFull
  BY <1>0, <1>1, <1>7, WriteKept DEF WriteAllocate, WriteFull, AtBlock, PlacesSet
<1>8. CASE WriteFill
  BY <1>0, <1>8, UpdateKept DEF WriteFill
<1>9. CASE WriteData
  BY <1>0, <1>9, WriteKept DEF WriteData, PlacesSet
<1>10. CASE WriteChain \/ WriteSize
  BY <1>0, <1>10, UpdateKept DEF WriteChain, WriteSize
<1>11. CASE Boot
  <2>1. PICK new : disk' = [disk EXCEPT ![BootDrive] =
                               WriteSector(@, SuperblockBlock, SuperblockSector(new))]
    BY <1>11 DEF Boot
  <2>2. disk[BootDrive] \in Disk /\ disk \in [Drives -> Disk] /\ BootDrive \in Drives
    BY <1>0, ESFSAssumption DEF TypeOK
  <2>3. WriteSector(disk[BootDrive], SuperblockBlock, SuperblockSector(new))[0]
            = disk[BootDrive][0]
    BY <2>2, SectorZero, WriteSectorElsewhere
  <2>. QED  BY <2>1, <2>2, <2>3 DEF Kept
<1>12. CASE Format \/ FormatSuperblock
  BY <1>0, <1>12, SectorZero, WriteKept DEF Format, FormatSuperblock
<1>13. CASE FormatInodes
  <2>1. InodeTableSector(fr.i) # 0
    BY <1>0, SectorZero DEF InodeTableSector, Frame
  <2>. QED  BY <1>0, <1>1, <1>13, <2>1, WriteKept DEF FormatInodes
<1>14. CASE \/ Exit \/ SelectDrive \/ Fetch \/ Retry \/ DeleteLoad \/ WriteCall
            \/ WritePointer \/ WriteNextPointer \/ Look \/ Crash \/ UNCHANGED vars
            \/ \E j \in Commands : Execute(j)
  BY <1>1, <1>14 DEF Exit, SelectDrive, Fetch, Retry, DeleteLoad, WriteCall,
     WritePointer, WriteNextPointer, Look, Crash, Execute, vars
<1>. QED  BY <1>2, <1>3, <1>4, <1>5, <1>6, <1>7, <1>8, <1>9, <1>10, <1>11, <1>12,
             <1>13, <1>14
          DEF Next, Step, FileCreate, FileDelete, FileWrite, FormatDisk

(* No step of any program ever writes the boot sector: whatever the disk   *)
(* held, wherever the cursor is and whenever the power failed, 0 is only   *)
(* ever "no block".                                                        *)
THEOREM BootSectorSafe == Spec => BootSectorKept
<1>1. IInv /\ [Next]_vars => [\A d \in Drives : disk'[d][0] = disk[d][0]]_vars
  BY NextKept DEF Kept
<1>. QED  BY <1>1, Invariance, PTL DEF Spec, BootSectorKept

-----------------------------------------------------------------------------
(* The data area and the places of claims.                                 *)

LEMMA AreaFacts ==
    /\ TableEnd \in Nat /\ TableEnd >= SuperblockBlock
    /\ DataArea \subseteq Sectors
    /\ \A b \in DataArea : b \in Nat /\ b > TableEnd /\ b # 0
<1> DEFINE g == Geometry(Capacity, 0)
<1>1. g \in Superblock
    BY OwnershipAssumption, GeometryType
<1>2. g.inode_blocks \in Nat /\ g.blocks \in Nat /\ g.blocks < DiskSectors
    BY <1>1, OwnershipAssumption DEF Superblock
<1>3. TableEnd = SuperblockBlock + g.inode_blocks /\ DataArea = TableEnd + 1 .. g.blocks
    BY DEF TableEnd, DataArea
<1> HIDE DEF g
<1> QED
    BY <1>2, <1>3, DiskAssumption DEF Sectors

LEMMA PlaceFacts ==
    /\ Places = {-1} \union Cells /\ -1 \notin Cells /\ 0 \in Cells /\ 0 \in Places
    /\ -1 \in Places /\ Cells \subseteq Places /\ 0 \in Pointers
  BY DiskAssumption DEF Places, Cells, Pointers

(* What an inode claims depends on its pointers and pointer blocks.        *)
LEMMA ClaimOfPointers ==
    ASSUME NEW dk, NEW ino, NEW ino2, ino2.ptrs = ino.ptrs, NEW i, NEW c
    PROVE  Claim(dk, ino2, i, c) = Claim(dk, ino, i, c)
  BY DEF Claim

LEMMA ClaimType ==
    ASSUME NEW dk \in Disk, NEW ino \in Inode, NEW i \in Pointers, NEW c \in Places
    PROVE  Claim(dk, ino, i, c) \in Nat
<1>1. ino.ptrs[i] \in Nat
    BY DEF Inode, Pointers
<1>2. c # -1 => c \in Cells
    BY PlaceFacts
<1>3. ReadSector(dk, ino.ptrs[i]) \in Sector
    BY ReadSectorType
<1> QED
    BY <1>1, <1>2, <1>3 DEF Claim, Sector

-----------------------------------------------------------------------------
(* Two disks on which the files of a set claim the same and are named the  *)
(* same.                                                                   *)

Alike(dk, dk2, ino) ==
    \A i \in Pointers, c \in Places : Claim(dk2, ino, i, c) = Claim(dk, ino, i, c)

Same(dk, dk2, set) ==
    \A p \in set : /\ InodeAt(dk2, p).ptrs = InodeAt(dk, p).ptrs
                   /\ Alike(dk, dk2, InodeAt(dk, p))
                   /\ NameAt(dk2, p) = NameAt(dk, p)

LEMMA SameClaim ==
    ASSUME NEW dk, NEW dk2, NEW set, Same(dk, dk2, set), NEW p \in set,
           NEW i \in Pointers, NEW c \in Places
    PROVE  Claim(dk2, InodeAt(dk2, p), i, c) = Claim(dk, InodeAt(dk, p), i, c)
<1>1. Claim(dk2, InodeAt(dk2, p), i, c) = Claim(dk2, InodeAt(dk, p), i, c)
    BY ClaimOfPointers DEF Same
<1>2. Claim(dk2, InodeAt(dk, p), i, c) = Claim(dk, InodeAt(dk, p), i, c)
    BY DEF Same, Alike
<1> QED
    BY <1>1, <1>2

LEMMA AlikeWellFormed ==
    ASSUME NEW dk, NEW dk2, NEW ino, NEW ino2, ino2.ptrs = ino.ptrs,
           Alike(dk, dk2, ino), WellFormed(dk, ino)
    PROVE  WellFormed(dk2, ino2)
<1>1. \A i \in Pointers, c \in Places : Claim(dk2, ino2, i, c) = Claim(dk, ino, i, c)
  <2> TAKE i \in Pointers, c \in Places
  <2>1. Claim(dk2, ino2, i, c) = Claim(dk2, ino, i, c)
      BY ClaimOfPointers
  <2> QED
      BY <2>1 DEF Alike
<1>2. \A i \in Pointers : Claim(dk2, ino2, i, 0) = Claim(dk, ino, i, 0)
    BY <1>1, PlaceFacts
<1> QED
    BY <1>1, <1>2 DEF WellFormed

LEMMA SameSeparate ==
    ASSUME NEW dk, NEW dk2, NEW set, Same(dk, dk2, set), Separate(dk, set)
    PROVE  Separate(dk2, set)
<1>1. ASSUME NEW p \in set PROVE WellFormed(dk2, InodeAt(dk2, p))
  <2>1. InodeAt(dk2, p).ptrs = InodeAt(dk, p).ptrs /\ Alike(dk, dk2, InodeAt(dk, p))
      BY DEF Same
  <2>2. WellFormed(dk, InodeAt(dk, p))
      BY DEF Separate
  <2> QED
      BY <2>1, <2>2, AlikeWellFormed
<1>2. ClaimedOnce(dk2, set)
  <2> SUFFICES ASSUME NEW p \in set, NEW i \in Pointers, NEW c \in Places,
                      Claim(dk2, InodeAt(dk2, p), i, c) # 0,
                      NEW q \in set, NEW j \in Pointers, NEW e \in Places,
                      Claim(dk2, InodeAt(dk2, q), j, e) = Claim(dk2, InodeAt(dk2, p), i, c)
               PROVE  q = p /\ j = i /\ e = c
      BY DEF ClaimedOnce, OnlyClaim
  <2>1. Claim(dk2, InodeAt(dk2, p), i, c) = Claim(dk, InodeAt(dk, p), i, c)
      BY SameClaim
  <2>2. Claim(dk2, InodeAt(dk2, q), j, e) = Claim(dk, InodeAt(dk, q), j, e)
      BY SameClaim
  <2>3. OnlyClaim(dk, set, p, i, c)
      BY <2>1 DEF Separate, ClaimedOnce
  <2> QED
      BY <2>1, <2>2, <2>3 DEF OnlyClaim
<1>3. NamedOnce(dk2, set)
    BY DEF NamedOnce, Same, Separate
<1> QED
    BY <1>1, <1>2, <1>3 DEF Separate

LEMMA SameClaimed ==
    ASSUME NEW dk, NEW dk2, NEW set, Same(dk, dk2, set), NEW b
    PROVE  Claimed(dk2, set, b) <=> Claimed(dk, set, b)
  BY SameClaim DEF Claimed

LEMMA SameNoneNamed ==
    ASSUME NEW dk, NEW dk2, NEW set, Same(dk, dk2, set), NEW name
    PROVE  NoneNamed(dk2, set, name) <=> NoneNamed(dk, set, name)
  BY DEF NoneNamed, Same

LEMMA SameFound ==
    ASSUME NEW dk, NEW dk2, NEW set, Same(dk, dk2, set), NEW name, NEW ino
    PROVE  Found(dk2, set, name, ino) <=> Found(dk, set, name, ino)
  BY DEF Found, Same

LEMMA SameGhost ==
    ASSUME NEW dk, NEW dk2, NEW set, Same(dk, dk2, set), NEW name,
           NEW ino, NEW ino2, ino2.ptrs = ino.ptrs, Alike(dk, dk2, ino), Ghost(dk, set, name, ino)
    PROVE  Ghost(dk2, set, name, ino2)
<1>1. \A i \in Pointers, c \in Places : Claim(dk2, ino2, i, c) = Claim(dk, ino, i, c)
  <2> TAKE i \in Pointers, c \in Places
  <2>1. Claim(dk2, ino2, i, c) = Claim(dk2, ino, i, c)
      BY ClaimOfPointers
  <2> QED
      BY <2>1 DEF Alike
<1>2. WellFormed(dk2, ino2)
    BY AlikeWellFormed DEF Ghost
<1>3. ASSUME NEW i \in Pointers, NEW j \in Pointers, NEW c \in Cells, ino2.ptrs[i] # 0,
             ino2.ptrs[j] # 0
      PROVE  Claim(dk2, ino2, j, c) # ino2.ptrs[i]
  <2>1. Claim(dk2, ino2, j, c) = Claim(dk, ino, j, c)
      BY <1>1, PlaceFacts
  <2> QED
      BY <1>3, <2>1 DEF Ghost
<1>4. ASSUME NEW i \in Pointers, NEW c \in Places, Claim(dk2, ino2, i, c) # 0
      PROVE  ~Claimed(dk2, set, Claim(dk2, ino2, i, c))
  <2>1. Claim(dk2, ino2, i, c) = Claim(dk, ino, i, c)
      BY <1>1
  <2>2. ~Claimed(dk, set, Claim(dk, ino, i, c))
      BY <1>4, <2>1 DEF Ghost
  <2> QED
      BY <2>1, <2>2, SameClaimed
<1>5. NoneNamed(dk2, set, name)
    BY SameNoneNamed DEF Ghost
<1> QED
    BY <1>2, <1>3, <1>4, <1>5 DEF Ghost

(* Fewer files are separate, and claim less.                               *)
LEMMA FewerSeparate ==
    ASSUME NEW dk, NEW set, Separate(dk, set), NEW less \in SUBSET set
    PROVE  Separate(dk, less)
  BY DEF Separate, ClaimedOnce, OnlyClaim, NamedOnce

LEMMA FewerClaimed ==
    ASSUME NEW dk, NEW set, NEW less \in SUBSET set, NEW b, Claimed(dk, less, b)
    PROVE  Claimed(dk, set, b)
  BY DEF Claimed

-----------------------------------------------------------------------------
(* What a write leaves as it was.                                          *)

LEMMA ReadOther ==
    ASSUME NEW dk \in Disk, NEW b, NEW data, NEW x, x # b
    PROVE  ReadSector(WriteSector(dk, b, data), x) = ReadSector(dk, x)
  BY WriteSectorElsewhere DEF ReadSector

LEMMA ReadWritten ==
    ASSUME NEW dk \in Disk, NEW b \in Sectors, NEW data
    PROVE  /\ WriteSector(dk, b, data)[b] = data
           /\ ReadSector(WriteSector(dk, b, data), b) = data
  BY DEF ReadSector, WriteSector, Disk

(* An inode of the table lies between the superblock and the data.         *)
LEMMA EntryPlace ==
    ASSUME NEW p \in Positions, InodeSector(p) <= TableEnd
    PROVE  /\ InodeSector(p) \in Sectors /\ InodeSector(p) > SuperblockBlock
           /\ InodeSector(p) \notin DataArea
<1>1. InodeSector(p) \in Sectors /\ InodeSector(p) > SuperblockBlock
    BY PositionPlace
<1>2. ASSUME InodeSector(p) \in DataArea PROVE FALSE
  <2>1. InodeSector(p) > TableEnd /\ InodeSector(p) \in Int /\ TableEnd \in Int
      BY <1>2, AreaFacts
  <2> QED
      BY <2>1
<1> QED
    BY <1>1, <1>2

LEMMA EntryFacts ==
    ASSUME NEW dk, NEW p \in Entries(dk)
    PROVE  p \in Positions /\ IsInode(p) /\ InodeSector(p) <= TableEnd /\ ValidAt(dk, p) = 1
  BY DEF Entries, LiveEntries

LEMMA EntryInode ==
    ASSUME NEW dk \in Disk, NEW p \in Entries(dk)
    PROVE  InodeAt(dk, p) \in Inode /\ InodeAt(dk, p).valid = 1
<1>1. InodeAt(dk, p) \in Inode
    BY EntryFacts, InodeAtType
<1>2. InodeAt(dk, p).valid = ValidAt(dk, p)
    BY DEF InodeAt, ValidAt
<1> QED
    BY <1>1, <1>2, EntryFacts

InTable(s) == s \in Sectors /\ s > SuperblockBlock /\ s <= TableEnd

LEMMA TableSame ==
    ASSUME NEW dk, NEW dk2, \A s : InTable(s) => dk2[s] = dk[s]
    PROVE  /\ Entries(dk2) = Entries(dk)
           /\ \A p \in Positions : InodeSector(p) <= TableEnd => InodeAt(dk2, p) = InodeAt(dk, p)
<1>1. ASSUME NEW p \in Positions, InodeSector(p) <= TableEnd
      PROVE  dk2[InodeSector(p)] = dk[InodeSector(p)]
    BY <1>1, EntryPlace DEF InTable
<1>2. ASSUME NEW p \in Positions, InodeSector(p) <= TableEnd
      PROVE  InodeAt(dk2, p) = InodeAt(dk, p)
    BY <1>1, <1>2 DEF InodeAt
<1>3. ASSUME NEW p \in Positions, InodeSector(p) <= TableEnd
      PROVE  ValidAt(dk2, p) = ValidAt(dk, p)
    BY <1>1, <1>3 DEF ValidAt
<1>4. Entries(dk2) = Entries(dk)
    BY <1>3 DEF Entries, LiveEntries
<1> QED
    BY <1>2, <1>4

LEMMA OutsideTable ==
    ASSUME NEW dk \in Disk, NEW b, ~InTable(b), NEW data
    PROVE  \A s : InTable(s) => WriteSector(dk, b, data)[s] = dk[s]
  BY WriteSectorElsewhere DEF InTable

LEMMA DataOutside ==
    ASSUME NEW b \in DataArea
    PROVE  ~InTable(b) /\ b \in Sectors /\ b # SuperblockBlock /\ b # 0
<1>1. b \in Nat /\ b > TableEnd /\ b # 0 /\ b \in Sectors /\ TableEnd \in Nat
      /\ TableEnd >= SuperblockBlock /\ SuperblockBlock \in Nat
    BY AreaFacts, DiskAssumption
<1> QED
    BY <1>1 DEF InTable

-----------------------------------------------------------------------------
(* Writes in the data area.                                                *)

(* The name of a file that has blocks is in its first data block.          *)
LEMMA NameIs ==
    ASSUME NEW dk, NEW ino, ino.ptrs[0] # 0
    PROVE  NameOf(dk, ino) = Prefix(ReadSector(dk, Claim(dk, ino, 0, 0)))
  BY DEF NameOf, Claim

LEMMA AlikeWrite ==
    ASSUME NEW dk \in Disk, NEW b, NEW data, NEW ino, \A i \in Pointers : ino.ptrs[i] # b
    PROVE  Alike(dk, WriteSector(dk, b, data), ino)
<1> DEFINE dk2 == WriteSector(dk, b, data)
<1>1. ASSUME NEW i \in Pointers
      PROVE  ReadSector(dk2, ino.ptrs[i]) = ReadSector(dk, ino.ptrs[i])
    BY ReadOther
<1> HIDE DEF dk2
<1>2. Alike(dk, dk2, ino)
    BY <1>1 DEF Alike, Claim
<1> QED
    BY <1>2 DEF dk2

(* A write to a block that is no pointer block of a file, and that leaves  *)
(* the name in a first block.                                              *)
LEMMA DataWrite ==
    ASSUME NEW dk \in Disk, NEW set \in SUBSET Entries(dk),
           \A p \in set : InodeAt(dk, p).ptrs[0] # 0,
           NEW b \in DataArea, NEW data,
           \A p \in set, i \in Pointers : InodeAt(dk, p).ptrs[i] # b,
           \A p \in set : Claim(dk, InodeAt(dk, p), 0, 0) = b => Prefix(data) = Prefix(dk[b])
    PROVE  /\ Entries(WriteSector(dk, b, data)) = Entries(dk)
           /\ \A p \in Entries(dk) : InodeAt(WriteSector(dk, b, data), p) = InodeAt(dk, p)
           /\ Same(dk, WriteSector(dk, b, data), set)
<1> DEFINE dk2 == WriteSector(dk, b, data)
<1>1. \A s : InTable(s) => dk2[s] = dk[s]
    BY DataOutside, OutsideTable
<1>2. ASSUME NEW ino, \A i \in Pointers : ino.ptrs[i] # b PROVE Alike(dk, dk2, ino)
    BY <1>2, AlikeWrite
<1>3. ReadSector(dk2, b) = data /\ ReadSector(dk, b) = dk[b]
    BY DataOutside, ReadWritten DEF ReadSector
<1>4. \A x : x # b => ReadSector(dk2, x) = ReadSector(dk, x)
    BY ReadOther
<1> HIDE DEF dk2
<1>5. Entries(dk2) = Entries(dk)
      /\ \A p \in Positions : InodeSector(p) <= TableEnd => InodeAt(dk2, p) = InodeAt(dk, p)
    BY <1>1, TableSame
<1>6. \A p \in Entries(dk) : InodeAt(dk2, p) = InodeAt(dk, p)
    BY <1>5, EntryFacts
<1>7. ASSUME NEW p \in set PROVE NameAt(dk2, p) = NameAt(dk, p) /\ Alike(dk, dk2, InodeAt(dk, p))
  <2> DEFINE ino == InodeAt(dk, p)
             x   == Claim(dk, ino, 0, 0)
  <2>1. InodeAt(dk2, p) = ino /\ ino.ptrs[0] # 0
      BY <1>6
  <2>2. Alike(dk, dk2, ino)
      BY <1>2
  <2>3. Claim(dk2, ino, 0, 0) = x
      BY <2>2, PlaceFacts DEF Alike
  <2>4. x = b => Prefix(data) = Prefix(dk[b])
      OBVIOUS
  <2> HIDE DEF ino, x
  <2>5. Prefix(ReadSector(dk2, x)) = Prefix(ReadSector(dk, x))
      BY <1>3, <1>4, <2>4
  <2>6. NameOf(dk2, ino) = NameOf(dk, ino)
      BY <2>1, <2>3, <2>5, NameIs DEF x
  <2> QED
      BY <2>1, <2>2, <2>6 DEF NameAt, ino
<1>8. Same(dk, dk2, set)
    BY <1>6, <1>7 DEF Same
<1> QED
    BY <1>5, <1>6, <1>8 DEF dk2

(* A pointer is a claim.                                                   *)
LEMMA PointerClaimed ==
    ASSUME NEW dk, NEW ino, NEW i
    PROVE  Claim(dk, ino, i, -1) = ino.ptrs[i]
  BY DEF Claim

LEMMA UnclaimedWrite ==
    ASSUME NEW dk \in Disk, NEW set \in SUBSET Entries(dk), Separate(dk, set),
           NEW b \in DataArea, NEW data, ~Claimed(dk, set, b)
    PROVE  /\ Entries(WriteSector(dk, b, data)) = Entries(dk)
           /\ \A p \in Entries(dk) : InodeAt(WriteSector(dk, b, data), p) = InodeAt(dk, p)
           /\ Same(dk, WriteSector(dk, b, data), set)
<1>1. \A p \in set : InodeAt(dk, p).ptrs[0] # 0
    BY DEF Separate, WellFormed
<1>2. ASSUME NEW p \in set, NEW i \in Pointers PROVE InodeAt(dk, p).ptrs[i] # b
    BY PointerClaimed, PlaceFacts DEF Claimed
<1>3. ASSUME NEW p \in set PROVE Claim(dk, InodeAt(dk, p), 0, 0) # b
    BY PlaceFacts DEF Claimed
<1> QED
    BY <1>1, <1>2, <1>3, DataWrite

LEMMA OwnWrite ==
    ASSUME NEW dk \in Disk, NEW set \in SUBSET Entries(dk), Separate(dk, set),
           NEW b \in DataArea, NEW data, NEW p \in set, NEW i \in Pointers, NEW c \in Cells,
           b = Claim(dk, InodeAt(dk, p), i, c),
           i = 0 /\ c = 0 => Prefix(data) = Prefix(dk[b])
    PROVE  /\ Entries(WriteSector(dk, b, data)) = Entries(dk)
           /\ \A q \in Entries(dk) : InodeAt(WriteSector(dk, b, data), q) = InodeAt(dk, q)
           /\ Same(dk, WriteSector(dk, b, data), set)
           /\ \A q \in set, j \in Pointers : InodeAt(dk, q).ptrs[j] # b
<1>1. \A q \in set : InodeAt(dk, q).ptrs[0] # 0
    BY DEF Separate, WellFormed
<1>2. OnlyClaim(dk, set, p, i, c)
    BY PlaceFacts, DataOutside DEF Separate, ClaimedOnce
<1>3. ASSUME NEW q \in set, NEW j \in Pointers PROVE InodeAt(dk, q).ptrs[j] # b
  <2>1. -1 \in Places /\ c # -1
      BY PlaceFacts
  <2> QED
      BY <1>2, <2>1, PointerClaimed DEF OnlyClaim
<1>4. ASSUME NEW q \in set, Claim(dk, InodeAt(dk, q), 0, 0) = b
      PROVE  Prefix(data) = Prefix(dk[b])
  <2>1. 0 = i /\ 0 = c
      BY <1>2, <1>4, PlaceFacts DEF OnlyClaim
  <2> QED
      BY <2>1
<1> QED
    BY <1>1, <1>3, <1>4, DataWrite

-----------------------------------------------------------------------------
(* What the search for a free block finds.                                 *)

(* A bounded set of integers has a greatest element.                       *)
LEMMA MaxProperties ==
    ASSUME NEW S \in SUBSET Int, S # {}, NEW m \in Int, \A x \in S : x <= m
    PROVE  Max(S) \in S /\ \A x \in S : Max(S) >= x
<1> DEFINE D == {n \in Nat : \E x \in S : n = m - x}
<1>1. D # {} /\ D \in SUBSET Nat
  <2>1. PICK x \in S : TRUE
      OBVIOUS
  <2>2. m - x \in D
      BY <2>1
  <2> QED
      BY <2>2
<1>2. Min(D) \in D /\ \A n \in D : Min(D) <= n
    BY <1>1, MinProperties
<1>3. PICK x \in S : Min(D) = m - x
    BY <1>2
<1>4. ASSUME NEW y \in S PROVE x >= y
  <2>1. m - y \in D
      OBVIOUS
  <2>2. Min(D) <= m - y
      BY <1>2, <2>1
  <2> QED
      BY <1>3, <2>2
<1> HIDE DEF D
<1>5. \E z \in S : \A y \in S : z >= y
    BY <1>4
<1> QED
    BY <1>5, Zenon DEF Max

LEMMA NullsType ==
    ASSUME NEW live \in SUBSET Nat, NEW p \in Nat
    PROVE  NullsBefore(live, p) \in Int
<1> DEFINE start == (p \div EntriesPerSector) * EntriesPerSector
           S     == {q \in live : q < start} \union {-1}
<1>1. start \in Nat
  <2>1. EntriesPerSector \in Nat \ {0}
      BY InodeWordsType
  <2>2. p \div EntriesPerSector \in Nat
      BY <2>1, DivMod
  <2> QED
      BY <2>1, <2>2
<1> HIDE DEF start
<1>2. S \in SUBSET Int /\ S # {} /\ \A x \in S : x <= start
  <2>1. \A q \in live : q \in Int
      OBVIOUS
  <2>2. ASSUME NEW x \in S PROVE x \in Int /\ x <= start
    <3>1. x = -1 \/ (x \in live /\ x < start)
        OBVIOUS
    <3> QED
        BY <1>1, <2>1, <3>1
  <2> QED
      BY <2>2
<1>3. Max(S) \in Int
    BY <1>1, <1>2, MaxProperties
<1>4. NullsBefore(live, p) = start - 1 - Max(S)
    BY DEF NullsBefore, start
<1> HIDE DEF S
<1> QED
    BY <1>1, <1>3, <1>4

LEMMA ReachedMore == \A dk : Reached(dk, NullFiles) \subseteq Reached(dk, NullFiles + 1)
<1> TAKE dk
<1> DEFINE live == LiveEntries(dk)
<1>1. live \in SUBSET Nat /\ NullFiles \in Nat
    BY PositionsNat, DiskAssumption DEF LiveEntries
<1>2. \A q \in live : NullsBefore(live, q) \in Int
    BY <1>1, NullsType
<1> HIDE DEF live
<1>3. \A q \in live : NullsBefore(live, q) < NullFiles => NullsBefore(live, q) < NullFiles + 1
    BY <1>1, <1>2
<1>4. /\ Reached(dk, NullFiles) = {p \in live : \A q \in live :
            q \div EntriesPerSector <= p \div EntriesPerSector => NullsBefore(live, q) < NullFiles}
      /\ Reached(dk, NullFiles + 1) = {p \in live : \A q \in live :
            q \div EntriesPerSector <= p \div EntriesPerSector => NullsBefore(live, q) < NullFiles + 1}
    BY DEF Reached, live
<1> QED
    BY <1>3, <1>4

LEMMA SuperblockFacts ==
    ASSUME NEW s, IsSuperblock(s)
    PROVE  /\ s.blocks = Geometry(Capacity, 0).blocks
           /\ s.inode_blocks = Geometry(Capacity, 0).inode_blocks
           /\ s.magic = Magic /\ s.disk_size = Capacity
           /\ s.last_allocated_block \in DataArea /\ s.last_allocated_block # 0
           /\ TableEnd = SuperblockBlock + s.inode_blocks /\ DataArea = TableEnd + 1 .. s.blocks
           /\ s \in Superblock
<1>1. s = Geometry(Capacity, s.last_allocated_block) /\ s.last_allocated_block \in DataArea
    BY DEF IsSuperblock
<1>2. s.last_allocated_block \in Nat /\ s.last_allocated_block # 0
    BY <1>1, AreaFacts
<1>3. s \in Superblock
    BY <1>1, <1>2, OwnershipAssumption, GeometryType
<1>4. /\ s.blocks = Geometry(Capacity, 0).blocks
      /\ s.inode_blocks = Geometry(Capacity, 0).inode_blocks
      /\ s.magic = Magic /\ s.disk_size = Capacity
    BY <1>1 DEF Geometry
<1> QED
    BY <1>1, <1>2, <1>3, <1>4 DEF TableEnd, DataArea

LEMMA Allocated ==
    ASSUME NEW dk, NEW s, IsSuperblock(s), NEW l \in DataArea, FreeBlocks(dk, s, l) # {}
    PROVE  /\ Allocate(dk, s, l) \in DataArea
           /\ LooksEmpty(ReadSector(dk, Allocate(dk, s, l)))
           /\ Allocate(dk, s, l) \notin PointedTo(dk)
           /\ Cursor(dk, s, l) = Allocate(dk, s, l)
<1> DEFINE free == FreeBlocks(dk, s, l)
<1>1. s.blocks \in Nat /\ DataArea = TableEnd + 1 .. s.blocks /\ TableEnd \in Nat /\ l \in Nat
    BY SuperblockFacts, AreaFacts DEF Superblock
<1>2. free \in SUBSET Nat /\ free # {}
    BY <1>1 DEF FreeBlocks
<1>3. \A b \in free : /\ b \in l .. s.blocks /\ LooksEmpty(ReadSector(dk, b))
                      /\ b \notin PointedTo(dk)
    BY DEF FreeBlocks
<1>4. Allocate(dk, s, l) = Min(free) /\ Cursor(dk, s, l) = Allocate(dk, s, l)
    BY DEF Allocate, Cursor
<1> HIDE DEF free
<1>5. Min(free) \in free
    BY <1>2, MinProperties
<1>6. \A b \in l .. s.blocks : b \in DataArea
    BY <1>1
<1> QED
    BY <1>3, <1>4, <1>5, <1>6

(* A pointer block does not look empty.                                    *)
LEMMA EmptyNoPointer ==
    ASSUME NEW dk, NEW ino, WellFormed(dk, ino), NEW b, b # 0, LooksEmpty(ReadSector(dk, b)),
           NEW i \in Pointers
    PROVE  ino.ptrs[i] # b
<1> SUFFICES ASSUME ino.ptrs[i] = b PROVE FALSE
    OBVIOUS
<1>1. Claim(dk, ino, i, 0) = ReadSector(dk, b)[0]
    BY DEF Claim
<1>2. Claim(dk, ino, i, 0) # 0
    BY DEF WellFormed
<1>3. 0 \in Cells /\ 0 < WordsPerSector - 1
    BY DiskAssumption DEF Cells
<1> QED
    BY <1>1, <1>2, <1>3 DEF LooksEmpty

(* A block that the search finds is nobody's.                              *)
LEMMA FreeUnclaimed ==
    ASSUME NEW dk, NEW set \in SUBSET Reached(dk, NullFiles),
           \A p \in set : WellFormed(dk, InodeAt(dk, p)),
           NEW b, b # 0, LooksEmpty(ReadSector(dk, b)), b \notin PointedTo(dk)
    PROVE  ~Claimed(dk, set, b)
<1> SUFFICES ASSUME NEW p \in set, NEW i \in Pointers, NEW c \in Places,
                    b = Claim(dk, InodeAt(dk, p), i, c)
             PROVE  FALSE
    BY DEF Claimed
<1>1. InodeAt(dk, p).ptrs[i] # b
    BY EmptyNoPointer
<1>2. c \in Cells /\ b = ReadSector(dk, InodeAt(dk, p).ptrs[i])[c]
    BY <1>1, PlaceFacts DEF Claim
<1>3. p \in Reached(dk, NullFiles + 1) /\ i \in 0 .. PtrsPerInode - 1
    BY ReachedMore DEF Pointers
<1> DEFINE Words(q, j) == {ReadSector(dk, InodeAt(dk, q).ptrs[j])[x] : x \in Cells}
<1>4. b \in Words(p, i)
    BY <1>2
<1>5. PointedTo(dk) = UNION {Words(q, j) : q \in Reached(dk, NullFiles + 1), j \in 0 .. PtrsPerInode - 1}
    BY DEF PointedTo
<1> HIDE DEF Words
<1>6. b \in PointedTo(dk)
    BY <1>3, <1>4, <1>5
<1> QED
    BY <1>6

-----------------------------------------------------------------------------
(* A word more in a pointer block.                                         *)

Longer(dk, ptr, j, b) == WriteSector(dk, ptr, [dk[ptr] EXCEPT ![j] = b])

LEMMA LongerRead ==
    ASSUME NEW dk \in Disk, NEW ptr \in DataArea, NEW j \in Cells, NEW b
    PROVE  /\ \A c \in Cells : ReadSector(Longer(dk, ptr, j, b), ptr)[c]
                                  = IF c = j THEN b ELSE ReadSector(dk, ptr)[c]
           /\ \A x : x # ptr => ReadSector(Longer(dk, ptr, j, b), x) = ReadSector(dk, x)
<1>1. ptr \in Sectors
    BY DataOutside
<1>2. ReadSector(Longer(dk, ptr, j, b), ptr) = [dk[ptr] EXCEPT ![j] = b]
    BY <1>1, ReadWritten DEF Longer
<1>3. ReadSector(dk, ptr) = dk[ptr] /\ dk[ptr] \in Sector
    BY <1>1 DEF ReadSector, Disk
<1>4. \A x : x # ptr => ReadSector(Longer(dk, ptr, j, b), x) = ReadSector(dk, x)
    BY ReadOther DEF Longer
<1>5. \A c \in Cells : [dk[ptr] EXCEPT ![j] = b][c] = IF c = j THEN b ELSE dk[ptr][c]
    BY <1>3 DEF Sector
<1> QED
    BY <1>2, <1>3, <1>4, <1>5

LEMMA LongerTable ==
    ASSUME NEW dk \in Disk, NEW ptr \in DataArea, NEW j, NEW b
    PROVE  /\ Entries(Longer(dk, ptr, j, b)) = Entries(dk)
           /\ \A p \in Entries(dk) : InodeAt(Longer(dk, ptr, j, b), p) = InodeAt(dk, p)
<1> DEFINE dk2 == Longer(dk, ptr, j, b)
<1>1. \A s : InTable(s) => dk2[s] = dk[s]
    BY DataOutside, OutsideTable DEF Longer
<1> HIDE DEF dk2
<1> QED
    BY <1>1, TableSame, EntryFacts DEF dk2

(* A file gets a block that nobody has.                                    *)
LEMMA FileLonger ==
    ASSUME NEW dk \in Disk, NEW set \in SUBSET Entries(dk), Separate(dk, set),
           NEW p \in set, NEW i \in Pointers, NEW ptr, ptr = InodeAt(dk, p).ptrs[i], ptr # 0,
           NEW j \in Cells, dk[ptr][j] = 0, NEW b \in DataArea, ~Claimed(dk, set, b)
    PROVE  /\ Separate(Longer(dk, ptr, j, b), set)
           /\ \A q \in set : NameAt(Longer(dk, ptr, j, b), q) = NameAt(dk, q)
<1> DEFINE dk2 == Longer(dk, ptr, j, b)
<1>1. /\ ptr = Claim(dk, InodeAt(dk, p), i, -1) /\ -1 \in Places
      /\ j \in Places /\ j # -1
    BY PointerClaimed, PlaceFacts
<1>2. ptr \in DataArea
    BY <1>1 DEF Separate, WellFormed
<1>3. OnlyClaim(dk, set, p, i, -1)
    BY <1>1 DEF Separate, ClaimedOnce
<1>4. \A q \in set : InodeAt(dk2, q) = InodeAt(dk, q)
    BY <1>2, LongerTable
<1>5. /\ \A c \in Cells : ReadSector(dk2, ptr)[c] = IF c = j THEN b ELSE ReadSector(dk, ptr)[c]
      /\ \A x : x # ptr => ReadSector(dk2, x) = ReadSector(dk, x)
    BY <1>2, LongerRead
<1>6. ReadSector(dk, ptr)[j] = 0
    BY <1>2, DataOutside DEF ReadSector
<1> HIDE DEF dk2
<1>7. ASSUME NEW q \in set, NEW k \in Pointers, InodeAt(dk, q).ptrs[k] = ptr
      PROVE  q = p /\ k = i
  <2>1. Claim(dk, InodeAt(dk, q), k, -1) = Claim(dk, InodeAt(dk, p), i, -1)
      BY <1>1, <1>7, PointerClaimed
  <2> QED
      BY <1>1, <1>3, <2>1 DEF OnlyClaim
<1>8. ASSUME NEW q \in set, NEW k \in Pointers, NEW c \in Places
      PROVE  Claim(dk2, InodeAt(dk2, q), k, c)
                = IF q = p /\ k = i /\ c = j THEN b ELSE Claim(dk, InodeAt(dk, q), k, c)
  <2> DEFINE y == InodeAt(dk, q)
  <2>1. InodeAt(dk2, q) = y
      BY <1>4
  <2>2. CASE c = -1 \/ y.ptrs[k] = 0
      BY <1>1, <2>1, <2>2 DEF Claim
  <2>3. CASE ~(c = -1 \/ y.ptrs[k] = 0) /\ y.ptrs[k] = ptr
    <3>1. q = p /\ k = i
        BY <1>7, <2>3
    <3>2. c \in Cells
        BY <2>3, PlaceFacts
    <3>3. Claim(dk2, y, k, c) = ReadSector(dk2, ptr)[c] /\ Claim(dk, y, k, c) = ReadSector(dk, ptr)[c]
        BY <2>3 DEF Claim
    <3> QED
        BY <1>5, <2>1, <3>1, <3>2, <3>3
  <2>4. CASE ~(c = -1 \/ y.ptrs[k] = 0) /\ y.ptrs[k] # ptr
    <3>1. ~(q = p /\ k = i)
        BY <2>4
    <3>2. Claim(dk2, y, k, c) = Claim(dk, y, k, c)
        BY <1>5, <2>4 DEF Claim
    <3> QED
        BY <2>1, <3>1, <3>2
  <2> QED
      BY <2>2, <2>3, <2>4
<1>9. Claim(dk, InodeAt(dk, p), i, j) = 0
    BY <1>1, <1>6 DEF Claim
<1>10. b # 0
    BY DataOutside
<1>11. ASSUME NEW q \in set, NEW k \in Pointers, NEW c \in Places
       PROVE  Claim(dk, InodeAt(dk, q), k, c) # b
    BY DEF Claimed
<1>12. ASSUME NEW q \in set PROVE WellFormed(dk2, InodeAt(dk2, q))
  <2> DEFINE y == InodeAt(dk, q)
  <2>1. WellFormed(dk, y) /\ InodeAt(dk2, q) = y
      BY <1>4 DEF Separate
  <2>2. ASSUME NEW k \in Pointers, y.ptrs[k] # 0 PROVE Claim(dk2, y, k, 0) # 0
    <3>1. Claim(dk2, y, k, 0) = b \/ Claim(dk2, y, k, 0) = Claim(dk, y, k, 0)
        BY <1>8, <2>1, PlaceFacts
    <3>2. Claim(dk, y, k, 0) # 0
        BY <2>1, <2>2 DEF WellFormed
    <3> QED
        BY <1>10, <3>1, <3>2
  <2>3. ASSUME NEW k \in Pointers, NEW c \in Places PROVE Claim(dk2, y, k, c) \in DataArea \union {0}
    <3>1. Claim(dk2, y, k, c) = b \/ Claim(dk2, y, k, c) = Claim(dk, y, k, c)
        BY <1>8, <2>1
    <3>2. Claim(dk, y, k, c) \in DataArea \union {0}
        BY <2>1 DEF WellFormed
    <3> QED
        BY <3>1, <3>2
  <2> QED
      BY <2>1, <2>2, <2>3 DEF WellFormed
<1>13. ClaimedOnce(dk2, set)
  <2> SUFFICES ASSUME NEW q \in set, NEW k \in Pointers, NEW c \in Places,
                      Claim(dk2, InodeAt(dk2, q), k, c) # 0,
                      NEW r \in set, NEW m \in Pointers, NEW e \in Places,
                      Claim(dk2, InodeAt(dk2, r), m, e) = Claim(dk2, InodeAt(dk2, q), k, c)
               PROVE  r = q /\ m = k /\ e = c
      BY DEF ClaimedOnce, OnlyClaim
  <2> DEFINE one == q = p /\ k = i /\ c = j
             two == r = p /\ m = i /\ e = j
  <2>1. CASE one /\ two
      BY <2>1
  <2>2. CASE one /\ ~two
    <3>1. Claim(dk2, InodeAt(dk2, q), k, c) = b
        BY <1>8, <2>2
    <3>2. Claim(dk2, InodeAt(dk2, r), m, e) = Claim(dk, InodeAt(dk, r), m, e)
        BY <1>8, <2>2
    <3> QED
        BY <1>11, <3>1, <3>2
  <2>3. CASE ~one /\ two
    <3>1. Claim(dk2, InodeAt(dk2, r), m, e) = b
        BY <1>8, <2>3
    <3>2. Claim(dk2, InodeAt(dk2, q), k, c) = Claim(dk, InodeAt(dk, q), k, c)
        BY <1>8, <2>3
    <3> QED
        BY <1>11, <3>1, <3>2
  <2>4. CASE ~one /\ ~two
    <3>1. Claim(dk2, InodeAt(dk2, r), m, e) = Claim(dk, InodeAt(dk, r), m, e)
        BY <1>8, <2>4
    <3>2. Claim(dk2, InodeAt(dk2, q), k, c) = Claim(dk, InodeAt(dk, q), k, c)
        BY <1>8, <2>4
    <3>3. OnlyClaim(dk, set, q, k, c)
        BY <3>2 DEF Separate, ClaimedOnce
    <3> QED
        BY <3>1, <3>2, <3>3 DEF OnlyClaim
  <2> QED
      BY <2>1, <2>2, <2>3, <2>4
<1>14. ASSUME NEW q \in set PROVE NameAt(dk2, q) = NameAt(dk, q)
  <2> DEFINE y == InodeAt(dk, q)
             x == Claim(dk, y, 0, 0)
  <2>1. WellFormed(dk, y) /\ InodeAt(dk2, q) = y
      BY <1>4 DEF Separate
  <2>2. y.ptrs[0] # 0 /\ x # 0
      BY <2>1, PlaceFacts DEF WellFormed
  <2>3. Claim(dk2, y, 0, 0) = x
    <3>1. ~(q = p /\ 0 = i /\ 0 = j)
        BY <1>9, <2>2
    <3> QED
        BY <1>8, <2>1, <3>1, PlaceFacts
  <2>4. x # ptr
    <3> SUFFICES ASSUME x = ptr PROVE FALSE
        OBVIOUS
    <3>1. 0 = -1
        BY <1>1, <1>3, PlaceFacts DEF OnlyClaim
    <3> QED
        BY <3>1
  <2>5. ReadSector(dk2, x) = ReadSector(dk, x)
      BY <1>5, <2>4
  <2> HIDE DEF x
  <2>6. NameOf(dk2, y) = NameOf(dk, y)
      BY <2>2, <2>3, <2>5, NameIs DEF x
  <2> QED
      BY <2>1, <2>6 DEF NameAt
<1>15. NamedOnce(dk2, set)
    BY <1>14 DEF Separate, NamedOnce
<1>16. Separate(dk2, set)
    BY <1>12, <1>13, <1>15 DEF Separate
<1> QED
    BY <1>14, <1>16 DEF dk2

(* A ghost gets a block that no file has.                                  *)
LEMMA GhostLonger ==
    ASSUME NEW dk \in Disk, NEW set \in SUBSET Entries(dk), Separate(dk, set),
           NEW name, NEW ino, Ghost(dk, set, name, ino),
           NEW i \in Pointers, NEW ptr, ptr = ino.ptrs[i], ptr # 0, NEW j \in Cells,
           NEW b \in DataArea, ~Claimed(dk, set, b), \A k \in Pointers : ino.ptrs[k] # b
    PROVE  /\ Same(dk, Longer(dk, ptr, j, b), set)
           /\ Ghost(Longer(dk, ptr, j, b), set, name, ino)
<1> DEFINE dk2 == Longer(dk, ptr, j, b)
<1>1. WellFormed(dk, ino) /\ Claim(dk, ino, i, -1) = ptr /\ -1 \in Places
    BY PointerClaimed, PlaceFacts DEF Ghost
<1>2. ptr \in DataArea /\ ~Claimed(dk, set, ptr)
    BY <1>1 DEF Ghost, WellFormed
<1>3. Same(dk, dk2, set)
    BY <1>2, UnclaimedWrite DEF Longer
<1>4. /\ \A c \in Cells : ReadSector(dk2, ptr)[c] = IF c = j THEN b ELSE ReadSector(dk, ptr)[c]
      /\ \A x : x # ptr => ReadSector(dk2, x) = ReadSector(dk, x)
    BY <1>2, LongerRead
<1>5. b # 0
    BY DataOutside
<1> HIDE DEF dk2
<1>6. ASSUME NEW k \in Pointers, NEW c \in Places
      PROVE  \/ Claim(dk2, ino, k, c) = Claim(dk, ino, k, c)
             \/ c \in Cells /\ Claim(dk2, ino, k, c) = b
  <2>1. CASE c = -1 \/ ino.ptrs[k] = 0
      BY <2>1 DEF Claim
  <2>2. CASE ~(c = -1 \/ ino.ptrs[k] = 0) /\ ino.ptrs[k] = ptr
    <3>1. c \in Cells
        BY <2>2, PlaceFacts
    <3>2. Claim(dk2, ino, k, c) = ReadSector(dk2, ptr)[c] /\ Claim(dk, ino, k, c) = ReadSector(dk, ptr)[c]
        BY <2>2 DEF Claim
    <3> QED
        BY <1>4, <3>1, <3>2
  <2>3. CASE ~(c = -1 \/ ino.ptrs[k] = 0) /\ ino.ptrs[k] # ptr
      BY <1>4, <2>3 DEF Claim
  <2> QED
      BY <2>1, <2>2, <2>3
<1>7. WellFormed(dk2, ino)
  <2>1. ASSUME NEW k \in Pointers, ino.ptrs[k] # 0 PROVE Claim(dk2, ino, k, 0) # 0
      BY <1>1, <1>5, <1>6, <2>1, PlaceFacts DEF WellFormed
  <2>2. ASSUME NEW k \in Pointers, NEW c \in Places PROVE Claim(dk2, ino, k, c) \in DataArea \union {0}
    <3>1. Claim(dk, ino, k, c) \in DataArea \union {0}
        BY <1>1 DEF WellFormed
    <3> QED
        BY <1>6, <3>1
  <2> QED
      BY <1>1, <2>1, <2>2 DEF WellFormed
<1>8. ASSUME NEW k \in Pointers, NEW m \in Pointers, NEW c \in Cells, ino.ptrs[k] # 0, ino.ptrs[m] # 0
      PROVE  Claim(dk2, ino, m, c) # ino.ptrs[k]
  <2>1. Claim(dk, ino, m, c) # ino.ptrs[k]
      BY <1>8 DEF Ghost
  <2> QED
      BY <1>6, <2>1, PlaceFacts
<1>9. ASSUME NEW k \in Pointers, NEW c \in Places, Claim(dk2, ino, k, c) # 0
      PROVE  ~Claimed(dk2, set, Claim(dk2, ino, k, c))
  <2>1. ~Claimed(dk, set, Claim(dk2, ino, k, c))
      BY <1>6, <1>9 DEF Ghost
  <2> QED
      BY <1>3, <2>1, SameClaimed
<1>10. NoneNamed(dk2, set, name)
    BY <1>3, SameNoneNamed DEF Ghost
<1>11. Ghost(dk2, set, name, ino)
    BY <1>7, <1>8, <1>9, <1>10 DEF Ghost
<1> QED
    BY <1>3, <1>11 DEF dk2

-----------------------------------------------------------------------------
(* Writes in the inode table.                                              *)

(* Two inodes of one sector have no cell in common.                        *)
LEMMA CellsApart ==
    ASSUME NEW p \in Positions, NEW e \in Positions, p # e, InodeSector(p) = InodeSector(e),
           NEW x \in 0 .. InodeWords - 1, NEW y \in 0 .. InodeWords - 1
    PROVE  InodeCell(p) + x # InodeCell(e) + y
<1> DEFINE n == EntriesPerSector
<1>1. p \in Nat /\ e \in Nat /\ n \in Nat \ {0} /\ InodeWords \in Nat
    BY PositionsNat, InodeWordsType
<1> DEFINE s == p % n
           t == e % n
<1>2. s \in Nat /\ t \in Nat /\ p = n * (p \div n) + s /\ e = n * (e \div n) + t
      /\ p \div n \in Nat /\ e \div n \in Nat
  <2> HIDE DEF n
  <2> QED
      BY <1>1, DivMod
<1>3. p \div n = e \div n
    BY <1>2, DiskAssumption DEF InodeSector
<1>4. InodeCell(p) = s * InodeWords /\ InodeCell(e) = t * InodeWords
    BY DEF InodeCell
<1> HIDE DEF s, t, n
<1>5. s # t
    BY <1>2, <1>3
<1>6. ASSUME NEW a \in Nat, NEW b \in Nat, a < b, NEW u \in 0 .. InodeWords - 1,
             NEW v \in 0 .. InodeWords - 1
      PROVE  a * InodeWords + u # b * InodeWords + v
  <2>1. (a + 1) * InodeWords <= b * InodeWords
      BY <1>1, <1>6, ProductMonotone
  <2>2. (a + 1) * InodeWords = a * InodeWords + InodeWords
      BY <1>1
  <2>3. a * InodeWords \in Nat /\ b * InodeWords \in Nat
      BY <1>1
  <2> QED
      BY <1>1, <2>1, <2>2, <2>3
<1>7. CASE s < t
    BY <1>2, <1>4, <1>6, <1>7
<1>8. CASE t < s
    BY <1>2, <1>4, <1>6, <1>8
<1> QED
    BY <1>2, <1>5, <1>7, <1>8

LEMMA InodeWordsSum == InodeWords = PtrsPerInode + 2 /\ PtrsPerInode \in Nat \ {0}
  BY DiskAssumption DEF InodeWords

(* A sector as it was but for the inode at e, which is ino.                *)
Stored(new, old, e, ino) ==
    /\ new[InodeCell(e)] = ino.valid /\ new[InodeCell(e) + 1] = ino.size
    /\ \A i \in 0 .. PtrsPerInode - 1 : new[InodeCell(e) + 2 + i] = ino.ptrs[i]
    /\ \A x \in Cells :
          x \notin InodeCell(e) .. InodeCell(e) + InodeWords - 1 => new[x] = old[x]

LEMMA WithInodeCells ==
    ASSUME NEW sector, NEW e \in Positions, IsInode(e), NEW ino
    PROVE  Stored(WithInode(sector, e, ino), sector, e, ino)
<1> DEFINE c == InodeCell(e)
           word(x) == CASE x = c     -> ino.valid
                        [] x = c + 1 -> ino.size
                        [] x \in c + 2 .. c + 1 + PtrsPerInode -> ino.ptrs[x - c - 2]
                        [] OTHER     -> sector[x]
<1>1. c \in Nat /\ InodeWords = PtrsPerInode + 2 /\ PtrsPerInode \in Nat \ {0}
    BY InodeCellType, InodeWordsSum
<1>2. \A x \in 0 .. InodeWords - 1 : c + x \in Cells
    BY PositionPlace
<1>3. WithInode(sector, e, ino) = [x \in Cells |-> word(x)]
    BY DEF WithInode, c, word
<1>4. Cells \subseteq Int
    BY CellsFinite
<1> HIDE DEF c
<1>5. word(c) = ino.valid
    BY <1>1
<1>6. word(c + 1) = ino.size
    BY <1>1
<1>7. ASSUME NEW i \in 0 .. PtrsPerInode - 1 PROVE word(c + 2 + i) = ino.ptrs[i]
  <2>1. c + 2 + i # c /\ c + 2 + i # c + 1 /\ c + 2 + i \in c + 2 .. c + 1 + PtrsPerInode
      BY <1>1
  <2>2. (c + 2 + i) - c - 2 = i
      BY <1>1
  <2> QED
      BY <2>1, <2>2
<1>8. ASSUME NEW x \in Cells, x \notin c .. c + InodeWords - 1 PROVE word(x) = sector[x]
  <2>1. x # c /\ x # c + 1 /\ x \notin c + 2 .. c + 1 + PtrsPerInode
      BY <1>1, <1>4, <1>8
  <2> QED
      BY <2>1
<1> HIDE DEF word
<1>9. c \in Cells /\ c + 1 \in Cells
  <2>1. c + 0 \in Cells /\ c + 1 \in Cells
      BY <1>1, <1>2
  <2> QED
      BY <1>1, <2>1
<1>10. ASSUME NEW i \in 0 .. PtrsPerInode - 1 PROVE c + 2 + i \in Cells
  <2>1. i + 2 \in 0 .. InodeWords - 1 /\ c + (i + 2) = c + 2 + i
      BY <1>1
  <2> QED
      BY <1>2, <2>1
<1>11. /\ WithInode(sector, e, ino)[c] = ino.valid
       /\ WithInode(sector, e, ino)[c + 1] = ino.size
    BY <1>3, <1>5, <1>6, <1>9
<1>12. \A i \in 0 .. PtrsPerInode - 1 : WithInode(sector, e, ino)[c + 2 + i] = ino.ptrs[i]
    BY <1>3, <1>7, <1>10
<1>13. \A x \in Cells : x \notin c .. c + InodeWords - 1 => WithInode(sector, e, ino)[x] = sector[x]
    BY <1>3, <1>8
<1> QED
    BY <1>11, <1>12, <1>13 DEF c, Stored

(* The disk dk2 is dk with ino at e.                                       *)
PutAt(dk, dk2, e, ino) ==
    /\ InodeAt(dk2, e) = ino
    /\ \A p \in Positions : IsInode(p) /\ p # e => InodeAt(dk2, p) = InodeAt(dk, p)
    /\ \A b \in Sectors : b # InodeSector(e) => dk2[b] = dk[b]

LEMMA InodeEqual ==
    ASSUME NEW ino \in Inode
    PROVE  ino = [valid |-> ino.valid, size |-> ino.size,
                  ptrs |-> [i \in 0 .. PtrsPerInode - 1 |-> ino.ptrs[i]]]
<1>1. ino.ptrs = [i \in 0 .. PtrsPerInode - 1 |-> ino.ptrs[i]]
    BY DEF Inode
<1> HIDE DEF Inode
<1>2. ino = [valid |-> ino.valid, size |-> ino.size, ptrs |-> ino.ptrs]
    BY DEF Inode
<1> QED
    BY <1>1, <1>2

LEMMA PutByWrite ==
    ASSUME NEW dk \in Disk, NEW e \in Positions, IsInode(e), NEW ino \in Inode
    PROVE  PutAt(dk, WriteSector(dk, InodeSector(e), WithInode(dk[InodeSector(e)], e, ino)), e, ino)
<1> DEFINE b   == InodeSector(e)
           new == WithInode(dk[b], e, ino)
           dk2 == WriteSector(dk, b, new)
           c   == InodeCell(e)
<1>1. b \in Sectors
    BY PositionPlace
<1>2. dk2[b] = new /\ \A x \in Sectors : x # b => dk2[x] = dk[x]
    BY <1>1, ReadWritten, WriteSectorElsewhere
<1>0. Stored(new, dk[b], e, ino)
    BY WithInodeCells
<1> HIDE DEF dk2, new
<1>3. /\ new[c] = ino.valid /\ new[c + 1] = ino.size
      /\ \A i \in 0 .. PtrsPerInode - 1 : new[c + 2 + i] = ino.ptrs[i]
      /\ \A x \in Cells : x \notin c .. c + InodeWords - 1 => new[x] = dk[b][x]
    BY <1>0 DEF Stored
<1>4. InodeAt(dk2, e) = ino
  <2>1. InodeAt(dk2, e) = [valid |-> new[c], size |-> new[c + 1],
                           ptrs |-> [i \in 0 .. PtrsPerInode - 1 |-> new[c + 2 + i]]]
      BY <1>2 DEF InodeAt
  <2>2. [i \in 0 .. PtrsPerInode - 1 |-> new[c + 2 + i]] = [i \in 0 .. PtrsPerInode - 1 |-> ino.ptrs[i]]
      BY <1>3
  <2> HIDE DEF c
  <2> QED
      BY <1>3, <2>1, <2>2, InodeEqual
<1>5. ASSUME NEW p \in Positions, IsInode(p), p # e PROVE InodeAt(dk2, p) = InodeAt(dk, p)
  <2>1. CASE InodeSector(p) # b
    <3>1. dk2[InodeSector(p)] = dk[InodeSector(p)]
        BY <1>2, <2>1, PositionPlace
    <3> QED
        BY <3>1 DEF InodeAt
  <2>2. CASE InodeSector(p) = b
    <3> DEFINE d == InodeCell(p)
    <3>1. d \in Nat /\ c \in Nat /\ InodeWords = PtrsPerInode + 2 /\ PtrsPerInode \in Nat \ {0}
        BY InodeCellType, InodeWordsSum
    <3>2. \A x \in 0 .. InodeWords - 1, y \in 0 .. InodeWords - 1 : d + x # c + y
        BY <1>5, <2>2, CellsApart
    <3>3. \A x \in 0 .. InodeWords - 1 : d + x \in Cells
        BY <1>5, PositionPlace
    <3> HIDE DEF c, d
    <3>4. ASSUME NEW x \in 0 .. InodeWords - 1 PROVE new[d + x] = dk[b][d + x]
      <4>1. ASSUME d + x \in c .. c + InodeWords - 1 PROVE FALSE
        <5>1. (d + x) - c \in 0 .. InodeWords - 1 /\ d + x = c + ((d + x) - c)
            BY <3>1, <4>1
        <5> QED
            BY <3>2, <5>1
      <4> QED
          BY <1>3, <3>3, <4>1
    <3>5. new[d] = dk[b][d] /\ new[d + 1] = dk[b][d + 1]
      <4>1. 0 \in 0 .. InodeWords - 1 /\ 1 \in 0 .. InodeWords - 1 /\ d + 0 = d
          BY <3>1
      <4>2. new[d + 0] = dk[b][d + 0] /\ new[d + 1] = dk[b][d + 1]
          BY <3>4, <4>1
      <4> QED
          BY <4>1, <4>2
    <3>6. ASSUME NEW i \in 0 .. PtrsPerInode - 1 PROVE new[d + 2 + i] = dk[b][d + 2 + i]
      <4>1. 2 + i \in 0 .. InodeWords - 1 /\ d + (2 + i) = d + 2 + i
          BY <3>1
      <4>2. new[d + (2 + i)] = dk[b][d + (2 + i)]
          BY <3>4, <4>1
      <4> QED
          BY <4>1, <4>2
    <3>7. [i \in 0 .. PtrsPerInode - 1 |-> new[d + 2 + i]]
            = [i \in 0 .. PtrsPerInode - 1 |-> dk[b][d + 2 + i]]
        BY <3>6
    <3>8. /\ InodeAt(dk2, p) = [valid |-> new[d], size |-> new[d + 1],
                                ptrs |-> [i \in 0 .. PtrsPerInode - 1 |-> new[d + 2 + i]]]
          /\ InodeAt(dk, p) = [valid |-> dk[b][d], size |-> dk[b][d + 1],
                               ptrs |-> [i \in 0 .. PtrsPerInode - 1 |-> dk[b][d + 2 + i]]]
        BY <1>2, <2>2 DEF InodeAt, d
    <3> QED
        BY <3>5, <3>7, <3>8
  <2> QED
      BY <2>1, <2>2
<1>6. \A x \in Sectors : x # InodeSector(e) => dk2[x] = dk[x]
    BY <1>2
<1> QED
    BY <1>4, <1>5, <1>6 DEF PutAt, dk2, new

(* set_file_info with one match, and with none.                            *)
LEMMA UpdateOne ==
    ASSUME NEW dk \in Disk, NEW name, NEW e \in Positions, IsInode(e),
           Matches(dk, name) = {e}, NEW ino \in Inode
    PROVE  SetFileInfo(dk, name, ino)
              = WriteSector(dk, InodeSector(e), WithInode(dk[InodeSector(e)], e, ino))
<1> DEFINE b  == InodeSector(e)
           c  == InodeCell(e)
           At(s, x) == {p \in Matches(dk, name) : InodeSector(p) = s
                            /\ x \in InodeCell(p) .. InodeCell(p) + InodeWords - 1}
           Updated(s) == [x \in Cells |-> IF At(s, x) = {} THEN dk[s][x]
                                          ELSE WithInode(dk[s], Min(At(s, x)), ino)[x]]
           new == WithInode(dk[b], e, ino)
<1>1. b \in Sectors /\ e \in Nat
    BY PositionPlace
<1>2. SetFileInfo(dk, name, ino)
        = [s \in Sectors |-> IF s \in {InodeSector(p) : p \in Matches(dk, name)}
                             THEN Updated(s) ELSE dk[s]]
    BY DEF SetFileInfo
<1>3. ASSUME NEW x \in Cells
      PROVE  (IF At(b, x) = {} THEN dk[b][x] ELSE WithInode(dk[b], Min(At(b, x)), ino)[x]) = new[x]
  <2>1. CASE x \in c .. c + InodeWords - 1
    <3>1. At(b, x) = {e}
        BY <2>1
    <3>2. Min({e}) = e
      <4>1. Min({e}) \in {e}
          BY <1>1, MinProperties
      <4> QED
          BY <4>1
    <3> HIDE DEF At
    <3> QED
        BY <3>1, <3>2
  <2>2. CASE x \notin c .. c + InodeWords - 1
    <3>1. At(b, x) = {}
        BY <2>2
    <3>2. Stored(new, dk[b], e, ino)
        BY WithInodeCells
    <3> HIDE DEF new
    <3>3. new[x] = dk[b][x]
        BY <2>2, <3>2 DEF Stored
    <3> HIDE DEF At
    <3> QED
        BY <3>1, <3>3
  <2> QED
      BY <2>1, <2>2
<1>4. new \in Sector
  <2>1. dk[b] \in Sector
      BY <1>1 DEF Disk
  <2> QED
      BY <2>1, WithInodeType
<1> HIDE DEF At, new
<1>5. Updated(b) = new
    BY <1>3, <1>4 DEF Sector
<1> HIDE DEF Updated
<1>6. SetFileInfo(dk, name, ino) = [s \in Sectors |-> IF s = b THEN new ELSE dk[s]]
    BY <1>1, <1>2, <1>5
<1>7. WriteSector(dk, b, new) = [s \in Sectors |-> IF s = b THEN new ELSE dk[s]]
    BY <1>1 DEF WriteSector, Disk
<1> QED
    BY <1>6, <1>7 DEF new

LEMMA UpdateNone ==
    ASSUME NEW dk \in Disk, NEW name, Matches(dk, name) = {}, NEW ino
    PROVE  SetFileInfo(dk, name, ino) = dk
<1> DEFINE Updated(b) == [x \in Cells |->
                 IF {p \in Matches(dk, name) : InodeSector(p) = b
                        /\ x \in InodeCell(p) .. InodeCell(p) + InodeWords - 1} = {}
                 THEN dk[b][x]
                 ELSE WithInode(dk[b], Min({p \in Matches(dk, name) : InodeSector(p) = b
                        /\ x \in InodeCell(p) .. InodeCell(p) + InodeWords - 1}), ino)[x]]
<1>1. SetFileInfo(dk, name, ino)
        = [s \in Sectors |-> IF s \in {InodeSector(p) : p \in Matches(dk, name)}
                             THEN Updated(s) ELSE dk[s]]
    BY DEF SetFileInfo
<1> HIDE DEF Updated
<1>2. SetFileInfo(dk, name, ino) = [s \in Sectors |-> dk[s]]
    BY <1>1
<1> QED
    BY <1>2 DEF Disk

LEMMA ValidOfInode ==
    ASSUME NEW dk, NEW p
    PROVE  ValidAt(dk, p) = InodeAt(dk, p).valid
  BY DEF InodeAt, ValidAt

InodeInTable(e) == e \in Positions /\ IsInode(e) /\ InodeSector(e) <= TableEnd

LEMMA PutEntries ==
    ASSUME NEW dk, NEW dk2, NEW e, InodeInTable(e), NEW ino, PutAt(dk, dk2, e, ino)
    PROVE  /\ ino.valid = 1 => Entries(dk2) = Entries(dk) \union {e}
           /\ ino.valid # 1 => Entries(dk2) = Entries(dk) \ {e}
           /\ \A p \in Entries(dk) : p # e => InodeAt(dk2, p) = InodeAt(dk, p)
<1> USE DEF InodeInTable
<1>1. ValidAt(dk2, e) = ino.valid
    BY ValidOfInode DEF PutAt
<1>2. ASSUME NEW p \in Positions, IsInode(p), p # e PROVE InodeAt(dk2, p) = InodeAt(dk, p)
    BY <1>2 DEF PutAt
<1>3. ASSUME NEW p \in Positions, IsInode(p), p # e PROVE ValidAt(dk2, p) = ValidAt(dk, p)
    BY <1>2, <1>3, ValidOfInode
<1>4. \A p : p \in Entries(dk2) <=> p \in Positions /\ IsInode(p) /\ ValidAt(dk2, p) = 1
                                    /\ InodeSector(p) <= TableEnd
    BY DEF Entries, LiveEntries
<1>5. \A p : p \in Entries(dk) <=> p \in Positions /\ IsInode(p) /\ ValidAt(dk, p) = 1
                                   /\ InodeSector(p) <= TableEnd
    BY DEF Entries, LiveEntries
<1>6. \A p : p # e => (p \in Entries(dk2) <=> p \in Entries(dk))
    BY <1>3, <1>4, <1>5
<1>7. e \in Entries(dk2) <=> ino.valid = 1
    BY <1>1, <1>4
<1>8. /\ ino.valid = 1 => Entries(dk2) = Entries(dk) \union {e}
      /\ ino.valid # 1 => Entries(dk2) = Entries(dk) \ {e}
    BY <1>6, <1>7
<1>9. \A p \in Entries(dk) : p # e => InodeAt(dk2, p) = InodeAt(dk, p)
    BY <1>2, <1>5
<1> QED
    BY <1>8, <1>9

(* Two disks with the same data: they differ in the table or the           *)
(* superblock only.                                                        *)
DataSame(dk, dk2) == \A b \in DataArea : ReadSector(dk2, b) = ReadSector(dk, b)

LEMMA PutData ==
    ASSUME NEW dk, NEW dk2, NEW e \in Positions, InodeSector(e) <= TableEnd,
           NEW ino, PutAt(dk, dk2, e, ino)
    PROVE  DataSame(dk, dk2) /\ dk2[SuperblockBlock] = dk[SuperblockBlock]
<1>1. InodeSector(e) \notin DataArea /\ InodeSector(e) # SuperblockBlock
      /\ SuperblockBlock \in Sectors
  <2>1. InodeSector(e) > SuperblockBlock /\ InodeSector(e) \in Sectors /\ SuperblockBlock \in Int
      BY EntryPlace, DiskAssumption
  <2> QED
      BY <2>1, EntryPlace, DiskAssumption DEF Sectors
<1>2. ASSUME NEW b \in DataArea PROVE ReadSector(dk2, b) = ReadSector(dk, b)
  <2>1. b \in Sectors /\ b # InodeSector(e)
      BY <1>1, DataOutside
  <2> QED
      BY <2>1 DEF PutAt, ReadSector
<1> QED
    BY <1>1, <1>2 DEF DataSame, PutAt

(* The same data mean the same claims and names.                           *)
LEMMA DataSameAlike ==
    ASSUME NEW dk, NEW dk2, DataSame(dk, dk2), NEW ino, WellFormed(dk, ino)
    PROVE  Alike(dk, dk2, ino) /\ NameOf(dk2, ino) = NameOf(dk, ino)
<1>1. ASSUME NEW i \in Pointers, NEW c \in Places PROVE Claim(dk2, ino, i, c) = Claim(dk, ino, i, c)
  <2>1. CASE c = -1 \/ ino.ptrs[i] = 0
      BY <2>1 DEF Claim
  <2>2. CASE ~(c = -1 \/ ino.ptrs[i] = 0)
    <3>1. ino.ptrs[i] \in DataArea \union {0}
        BY PointerClaimed, PlaceFacts DEF WellFormed
    <3>2. ReadSector(dk2, ino.ptrs[i]) = ReadSector(dk, ino.ptrs[i])
        BY <2>2, <3>1 DEF DataSame
    <3> QED
        BY <2>2, <3>2 DEF Claim
  <2> QED
      BY <2>1, <2>2
<1>2. ino.ptrs[0] # 0 /\ Claim(dk, ino, 0, 0) # 0 /\ Claim(dk, ino, 0, 0) \in DataArea \union {0}
    BY PlaceFacts DEF WellFormed
<1>3. ReadSector(dk2, Claim(dk2, ino, 0, 0)) = ReadSector(dk, Claim(dk, ino, 0, 0))
    BY <1>1, <1>2, PlaceFacts DEF DataSame
<1>4. NameOf(dk2, ino) = NameOf(dk, ino)
    BY <1>2, <1>3, NameIs
<1> QED
    BY <1>1, <1>4 DEF Alike

LEMMA DataSameSame ==
    ASSUME NEW dk, NEW dk2, DataSame(dk, dk2), NEW set,
           \A p \in set : WellFormed(dk, InodeAt(dk, p)),
           \A p \in set : InodeAt(dk2, p).ptrs = InodeAt(dk, p).ptrs
    PROVE  Same(dk, dk2, set)
<1> SUFFICES ASSUME NEW p \in set
             PROVE  Alike(dk, dk2, InodeAt(dk, p)) /\ NameAt(dk2, p) = NameAt(dk, p)
    BY DEF Same
<1>1. Alike(dk, dk2, InodeAt(dk, p)) /\ NameOf(dk2, InodeAt(dk, p)) = NameOf(dk, InodeAt(dk, p))
    BY DataSameAlike
<1>2. NameOf(dk2, InodeAt(dk2, p)) = NameOf(dk2, InodeAt(dk, p))
    BY DEF NameOf
<1> QED
    BY <1>1, <1>2 DEF NameAt

(* Writing the superblock.                                                 *)
LEMMA SuperblockWrite ==
    ASSUME NEW dk \in Disk, NEW s \in Superblock
    PROVE  /\ SuperblockOf(WriteSector(dk, SuperblockBlock, SuperblockSector(s))) = s
           /\ DataSame(dk, WriteSector(dk, SuperblockBlock, SuperblockSector(s)))
           /\ Entries(WriteSector(dk, SuperblockBlock, SuperblockSector(s))) = Entries(dk)
           /\ \A p \in Entries(dk) :
                 InodeAt(WriteSector(dk, SuperblockBlock, SuperblockSector(s)), p) = InodeAt(dk, p)
<1> DEFINE new == SuperblockSector(s)
           dk2 == WriteSector(dk, SuperblockBlock, new)
<1>1. SuperblockBlock \in Sectors /\ ~InTable(SuperblockBlock)
    BY DiskAssumption DEF Sectors, InTable
<1>2. dk2[SuperblockBlock] = new
    BY <1>1, ReadWritten
<1>3. SuperblockOf(dk2) = s
  <2>1. {0, 1, 2, 3, 4, 5} \subseteq Cells
      BY DiskAssumption DEF Cells
  <2> DEFINE words == <<s.magic, s.blocks, s.inode_blocks, s.inodes, s.disk_size,
                        s.last_allocated_block>>
  <2>2. new = [c \in Cells |-> IF c < 6 THEN words[c + 1] ELSE 0]
      BY DEF SuperblockSector, ToSector
  <2>3. new[0] = s.magic /\ new[1] = s.blocks /\ new[2] = s.inode_blocks /\ new[3] = s.inodes
        /\ new[4] = s.disk_size /\ new[5] = s.last_allocated_block
      BY <2>1, <2>2
  <2> HIDE DEF new, dk2, words
  <2> QED
      BY <1>2, <2>3 DEF SuperblockOf, Superblock
<1>4. DataSame(dk, dk2)
    BY DataOutside, ReadOther DEF DataSame
<1>5. \A x : InTable(x) => dk2[x] = dk[x]
    BY <1>1, OutsideTable
<1> HIDE DEF dk2
<1>6. Entries(dk2) = Entries(dk) /\ \A p \in Entries(dk) : InodeAt(dk2, p) = InodeAt(dk, p)
    BY <1>5, TableSame, EntryFacts
<1> QED
    BY <1>3, <1>4, <1>6 DEF dk2

(* Clearing a sector of the inode table takes files away.                  *)
LEMMA TableCleared ==
    ASSUME NEW dk \in Disk, NEW b \in Sectors, InTable(b)
    PROVE  /\ Entries(WriteSector(dk, b, ZeroSector)) \subseteq Entries(dk)
           /\ DataSame(dk, WriteSector(dk, b, ZeroSector))
           /\ SuperblockOf(WriteSector(dk, b, ZeroSector)) = SuperblockOf(dk)
           /\ \A p \in Entries(WriteSector(dk, b, ZeroSector)) :
                 /\ InodeAt(WriteSector(dk, b, ZeroSector), p) = InodeAt(dk, p)
                 /\ InodeSector(p) # b
<1> DEFINE dk2 == WriteSector(dk, b, ZeroSector)
<1>1. dk2[b] = ZeroSector /\ \A x \in Sectors : x # b => dk2[x] = dk[x]
    BY ReadWritten, WriteSectorElsewhere
<1>2. DataSame(dk, dk2)
    BY DataOutside, ReadOther DEF DataSame
<1>3. SuperblockBlock \in Sectors /\ SuperblockBlock # b
    BY DiskAssumption DEF InTable, Sectors
<1> HIDE DEF dk2
<1>4. SuperblockOf(dk2) = SuperblockOf(dk)
    BY <1>1, <1>3 DEF SuperblockOf
<1>5. ASSUME NEW p \in Entries(dk2)
      PROVE  p \in Entries(dk) /\ InodeAt(dk2, p) = InodeAt(dk, p) /\ InodeSector(p) # b
  <2>1. p \in Positions /\ IsInode(p) /\ InodeSector(p) <= TableEnd /\ ValidAt(dk2, p) = 1
      BY EntryFacts
  <2>2. InodeSector(p) # b
    <3>1. InodeCell(p) \in Cells
      <4>1. 0 \in 0 .. InodeWords - 1 /\ InodeCell(p) \in Nat
          BY <2>1, InodeWordsType, InodeCellType
      <4>2. InodeCell(p) + 0 \in Cells
          BY <2>1, <4>1, PositionPlace
      <4> QED
          BY <4>1, <4>2
    <3>2. InodeSector(p) = b => ValidAt(dk2, p) = 0
        BY <1>1, <3>1 DEF ValidAt, ZeroSector
    <3> QED
        BY <2>1, <3>2
  <2>3. dk2[InodeSector(p)] = dk[InodeSector(p)]
      BY <1>1, <2>1, <2>2, PositionPlace
  <2>4. ValidAt(dk, p) = 1 /\ InodeAt(dk2, p) = InodeAt(dk, p)
      BY <2>1, <2>3 DEF ValidAt, InodeAt
  <2> QED
      BY <2>1, <2>2, <2>4 DEF Entries, LiveEntries
<1> QED
    BY <1>2, <1>4, <1>5 DEF dk2

-----------------------------------------------------------------------------
(* Lookups.                                                                *)

(* Where the scan reaches the files and nothing else, a lookup finds the   *)
(* one file of that name.                                                  *)
LEMMA MatchesOne ==
    ASSUME NEW dk, Reached(dk, NullFiles) = Entries(dk), NamedOnce(dk, Entries(dk)), NEW name
    PROVE  \/ Matches(dk, name) = {} /\ NoneNamed(dk, Entries(dk), name)
           \/ \E p \in Entries(dk) : Matches(dk, name) = {p} /\ NameAt(dk, p) = name
<1>1. Matches(dk, name) = {p \in Entries(dk) : NameAt(dk, p) = name}
    BY DEF Matches, NameAt
<1>2. CASE \A p \in Entries(dk) : NameAt(dk, p) # name
  <2>1. Matches(dk, name) = {}
      BY <1>1, <1>2
  <2> QED
      BY <1>2, <2>1 DEF NoneNamed
<1>3. CASE \E p \in Entries(dk) : NameAt(dk, p) = name
  <2>1. PICK p \in Entries(dk) : NameAt(dk, p) = name
      BY <1>3
  <2>2. \A q \in Entries(dk) : NameAt(dk, q) = name => q = p
      BY <2>1 DEF NamedOnce
  <2>3. Matches(dk, name) = {p}
      BY <1>1, <2>1, <2>2
  <2> QED
      BY <2>1, <2>3
<1> QED
    BY <1>2, <1>3

(* Once a file's inode is cleared its blocks are no file's.                *)
LEMMA DeletedGhost ==
    ASSUME NEW dk, NEW set, Separate(dk, set), NEW p \in set
    PROVE  Ghost(dk, set \ {p}, NameAt(dk, p), InodeAt(dk, p))
<1> DEFINE ino == InodeAt(dk, p)
<1>1. WellFormed(dk, ino)
    BY DEF Separate
<1>2. ASSUME NEW i \in Pointers, NEW j \in Pointers, NEW c \in Cells, ino.ptrs[i] # 0,
             ino.ptrs[j] # 0, Claim(dk, ino, j, c) = ino.ptrs[i]
      PROVE  FALSE
  <2>1. Claim(dk, ino, i, -1) = ino.ptrs[i] /\ -1 \in Places /\ c \in Places /\ c # -1
      BY PointerClaimed, PlaceFacts
  <2>2. OnlyClaim(dk, set, p, i, -1)
      BY <1>2, <2>1 DEF Separate, ClaimedOnce
  <2> QED
      BY <1>2, <2>1, <2>2 DEF OnlyClaim
<1>3. ASSUME NEW i \in Pointers, NEW c \in Places, Claim(dk, ino, i, c) # 0
      PROVE  ~Claimed(dk, set \ {p}, Claim(dk, ino, i, c))
  <2>1. OnlyClaim(dk, set, p, i, c)
      BY <1>3 DEF Separate, ClaimedOnce
  <2> QED
      BY <2>1 DEF OnlyClaim, Claimed
<1>4. NoneNamed(dk, set \ {p}, NameAt(dk, p))
    BY DEF NoneNamed, Separate, NamedOnce
<1> HIDE DEF ino
<1>5. Ghost(dk, set \ {p}, NameAt(dk, p), ino)
    BY <1>1, <1>2, <1>3, <1>4 DEF Ghost
<1> QED
    BY <1>5 DEF ino

-----------------------------------------------------------------------------
(* Names in blocks.                                                        *)

LEMMA PrefixOfName ==
    ASSUME NEW name \in Seq(Nat), IsName(name)
    PROVE  Prefix(ToSector(name)) = name
<1> DEFINE n      == Len(name)
           sector == ToSector(name)
           S      == {c \in Cells : sector[c] = 0} \union {WordsPerSector}
<1>1. n \in Nat /\ n < WordsPerSector /\ WordsPerSector \in Nat
      /\ \A k \in 1 .. n : name[k] # 0
    BY LenProperties, DiskAssumption DEF IsName
<1> HIDE DEF n
<1>2. \A c \in Cells : sector[c] = IF c < n THEN name[c + 1] ELSE 0
    BY DEF ToSector, n
<1> HIDE DEF sector
<1>3. S \in SUBSET Nat /\ n \in S
    BY <1>1, <1>2 DEF Cells
<1>4. \A c \in S : c >= n
  <2> SUFFICES ASSUME NEW c \in S, c < n PROVE FALSE
      BY <1>1, <1>3
  <2>1. c \in Cells /\ sector[c] = 0
      BY <1>1
  <2>2. c + 1 \in 1 .. n
      BY <1>1, <1>3
  <2> QED
      BY <1>1, <1>2, <2>1, <2>2
<1> HIDE DEF S
<1>5. Min(S) = n
  <2>1. Min(S) \in S /\ Min(S) <= n
      BY <1>3, MinProperties
  <2>2. Min(S) \in Nat /\ Min(S) >= n
      BY <1>3, <1>4, <2>1
  <2> QED
      BY <1>1, <2>1, <2>2
<1>6. Prefix(sector) = [i \in 1 .. n |-> sector[i - 1]]
    BY <1>5 DEF Prefix, S
<1>7. ASSUME NEW i \in 1 .. n PROVE sector[i - 1] = name[i]
  <2>1. i - 1 \in Cells /\ i - 1 < n /\ (i - 1) + 1 = i
      BY <1>1 DEF Cells
  <2> QED
      BY <1>2, <2>1
<1>8. [i \in 1 .. n |-> sector[i - 1]] = [i \in 1 .. n |-> name[i]]
    BY <1>7
<1>9. name = [i \in 1 .. n |-> name[i]]
    BY DEF n
<1> QED
    BY <1>6, <1>8, <1>9 DEF sector

(* Filling a first block leaves the name.                                  *)
LEMMA FillKeepsName ==
    ASSUME NEW sector, NEW data, NEW from, NEW left
    PROVE  Prefix(Fill(sector, TRUE, data, from, left)) = Prefix(sector)
<1> DEFINE new     == Fill(sector, TRUE, data, from, left)
           nuls    == {c \in Cells : sector[c] = 0}
           newnuls == {c \in Cells : new[c] = 0}
<1>1. ASSUME NEW c \in Cells, c \notin Holes(sector, TRUE) PROVE new[c] = sector[c]
    BY <1>1 DEF Fill
<1>2. Holes(sector, TRUE) = IF nuls # {} THEN nuls \ {Min(nuls)} ELSE nuls
    BY DEF Holes
<1> HIDE DEF new
<1>3. nuls \in SUBSET Nat /\ newnuls \in SUBSET Nat /\ WordsPerSector \in Nat
    BY CellsFinite, DiskAssumption
<1>4. CASE nuls = {}
  <2>1. \A c \in Cells : new[c] = sector[c]
      BY <1>1, <1>2, <1>4
  <2>2. newnuls = nuls
      BY <2>1
  <2>3. Prefix(new) = [i \in 1 .. Min(nuls \union {WordsPerSector}) |-> new[i - 1]]
      BY <2>2 DEF Prefix
  <2>4. Prefix(sector) = [i \in 1 .. Min(nuls \union {WordsPerSector}) |-> sector[i - 1]]
      BY DEF Prefix
  <2>5. nuls \union {WordsPerSector} = {WordsPerSector}
      BY <1>4
  <2>6. Min({WordsPerSector}) = WordsPerSector
    <3>1. Min({WordsPerSector}) \in {WordsPerSector}
        BY <1>3, MinProperties
    <3> QED
        BY <3>1
  <2>7. ASSUME NEW i \in 1 .. WordsPerSector PROVE new[i - 1] = sector[i - 1]
    <3>1. i - 1 \in Cells
        BY <1>3 DEF Cells
    <3> QED
        BY <2>1, <3>1
  <2> HIDE DEF nuls, newnuls
  <2> QED
      BY <2>3, <2>4, <2>5, <2>6, <2>7 DEF new
<1>5. CASE nuls # {}
  <2> DEFINE m == Min(nuls)
  <2>1. m \in nuls /\ \A c \in nuls : m <= c
      BY <1>3, <1>5, MinProperties
  <2>2. m \in Cells /\ m \in Nat /\ sector[m] = 0
      BY <1>3, <2>1
  <2>3. m < WordsPerSector
      BY <1>3, <2>2 DEF Cells
  <2> HIDE DEF m
  <2>4. \A c \in Cells : c < m => c \notin nuls
      BY <1>3, <2>1, <2>2 DEF Cells
  <2>5. \A c \in Cells : c <= m => new[c] = sector[c]
    <3>1. ASSUME NEW c \in Cells, c <= m PROVE c \notin Holes(sector, TRUE)
      <4>1. c \in Nat
          BY CellsFinite
      <4>2. c = m \/ c < m
          BY <2>2, <3>1, <4>1
      <4> QED
          BY <1>2, <1>5, <2>4, <4>2 DEF m
    <3> QED
        BY <1>1, <3>1
  <2>6. m \in newnuls /\ \A c \in newnuls : m <= c
    <3>1. m \in newnuls
        BY <2>2, <2>5
    <3>2. ASSUME NEW c \in newnuls, c < m PROVE FALSE
      <4>1. c \in Cells /\ c \in Nat /\ new[c] = 0
          BY <1>3
      <4>2. sector[c] = 0
          BY <2>2, <2>5, <3>2, <4>1
      <4> QED
          BY <2>4, <3>2, <4>1, <4>2
    <3> QED
        BY <1>3, <2>2, <3>1, <3>2
  <2>7. ASSUME NEW S \in SUBSET Nat, m \in S, \A c \in S : m <= c
        PROVE  Min(S \union {WordsPerSector}) = m
    <3> DEFINE T == S \union {WordsPerSector}
    <3>1. T \in SUBSET Nat /\ m \in T /\ \A c \in T : m <= c
        BY <1>3, <2>2, <2>3, <2>7
    <3> HIDE DEF T
    <3>2. Min(T) \in T /\ Min(T) <= m
        BY <3>1, MinProperties
    <3>3. Min(T) \in Nat /\ m <= Min(T)
        BY <3>1, <3>2
    <3>4. Min(T) = m
        BY <2>2, <3>2, <3>3
    <3> QED
        BY <3>4 DEF T
  <2>8. Min(nuls \union {WordsPerSector}) = m
      BY <1>3, <2>1, <2>7
  <2>9. Min(newnuls \union {WordsPerSector}) = m
      BY <1>3, <2>6, <2>7
  <2>10. Prefix(new) = [i \in 1 .. m |-> new[i - 1]]
      BY <2>9 DEF Prefix
  <2>11. Prefix(sector) = [i \in 1 .. m |-> sector[i - 1]]
      BY <2>8 DEF Prefix
  <2>12. ASSUME NEW i \in 1 .. m PROVE new[i - 1] = sector[i - 1]
    <3>1. i - 1 \in Cells /\ i - 1 <= m
        BY <1>3, <2>2, <2>3 DEF Cells
    <3> QED
        BY <2>5, <3>1
  <2> HIDE DEF nuls, newnuls
  <2> QED
      BY <2>10, <2>11, <2>12 DEF new
<1> QED
    BY <1>4, <1>5 DEF new

-----------------------------------------------------------------------------
(* A file more.                                                            *)

(* What a new inode claims: its pointer block and its one data block.      *)
LEMMA NewClaim ==
    ASSUME NEW dk \in Disk, NEW ino, NEW b \in DataArea, NEW b2 \in DataArea,
           ino.ptrs = [NoInode.ptrs EXCEPT ![0] = b], dk[b] = ToSector(<<b2>>),
           NEW i \in Pointers, NEW c \in Places
    PROVE  Claim(dk, ino, i, c) = IF i # 0 THEN 0 ELSE IF c = -1 THEN b
                                  ELSE IF c = 0 THEN b2 ELSE 0
<1>1. 0 \in Pointers /\ b # 0 /\ ReadSector(dk, b) = dk[b] /\ b2 \in Nat
    BY PlaceFacts, DataOutside, AreaFacts DEF ReadSector
<1>2. ino.ptrs[i] = IF i = 0 THEN b ELSE 0
    BY <1>1 DEF NoInode, Pointers
<1>3. \A x \in Cells : dk[b][x] = IF x = 0 THEN b2 ELSE 0
  <2> TAKE x \in Cells
  <2>1. x \in Nat /\ dk[b][x] = IF x < 1 THEN <<b2>>[x + 1] ELSE 0
      BY CellsFinite DEF ToSector
  <2>2. CASE x = 0
      BY <2>1, <2>2
  <2>3. CASE x # 0
      BY <2>1, <2>3
  <2> QED
      BY <2>2, <2>3
<1>4. c = -1 \/ c \in Cells
    BY PlaceFacts
<1>5. -1 # 0
    OBVIOUS
<1> QED
    BY <1>1, <1>2, <1>3, <1>4, <1>5 DEF Claim

LEMMA NewFile ==
    ASSUME NEW dk \in Disk, NEW set, Separate(dk, set), NEW e, e \notin set,
           NEW b \in DataArea, NEW b2 \in DataArea, b # b2,
           InodeAt(dk, e).ptrs = [NoInode.ptrs EXCEPT ![0] = b], dk[b] = ToSector(<<b2>>),
           ~Claimed(dk, set, b), ~Claimed(dk, set, b2), NoneNamed(dk, set, Prefix(dk[b2]))
    PROVE  Separate(dk, set \union {e}) /\ NameAt(dk, e) = Prefix(dk[b2])
<1> DEFINE ino == InodeAt(dk, e)
           all == set \union {e}
<1>1. /\ \A i \in Pointers, c \in Places :
            Claim(dk, ino, i, c) = IF i # 0 THEN 0 ELSE IF c = -1 THEN b
                                   ELSE IF c = 0 THEN b2 ELSE 0
      /\ ino.ptrs[0] # 0
  <2>1. ASSUME NEW i \in Pointers, NEW c \in Places
        PROVE  Claim(dk, ino, i, c) = IF i # 0 THEN 0 ELSE IF c = -1 THEN b
                                      ELSE IF c = 0 THEN b2 ELSE 0
      BY NewClaim
  <2>2. ino.ptrs[0] = Claim(dk, ino, 0, -1)
      BY DEF Claim
  <2>3. -1 \in Places /\ 0 \in Pointers /\ b # 0
      BY PlaceFacts, DataOutside
  <2>4. Claim(dk, ino, 0, -1) = b
      BY <2>1, <2>3
  <2> QED
      BY <2>1, <2>2, <2>3, <2>4
<1>2. b # 0 /\ b2 # 0 /\ -1 # 0 /\ -1 \in Places /\ 0 \in Places /\ 0 \in Pointers
    BY DataOutside, PlaceFacts
<1>3. ReadSector(dk, b2) = dk[b2]
    BY DataOutside DEF ReadSector
<1>4. ASSUME NEW q \in set, NEW j \in Pointers, NEW x \in Places
      PROVE  Claim(dk, InodeAt(dk, q), j, x) # b /\ Claim(dk, InodeAt(dk, q), j, x) # b2
    BY DEF Claimed
<1> HIDE DEF ino
<1>5. NameAt(dk, e) = Prefix(dk[b2])
  <2>1. Claim(dk, ino, 0, 0) = b2
      BY <1>1, <1>2
  <2>2. NameOf(dk, ino) = Prefix(ReadSector(dk, b2))
      BY <1>1, <2>1, NameIs
  <2> QED
      BY <1>3, <2>2 DEF NameAt, ino
<1>6. WellFormed(dk, ino)
  <2>1. \A i \in Pointers : ino.ptrs[i] # 0 => i = 0
    <3> SUFFICES ASSUME NEW i \in Pointers, i # 0 PROVE ino.ptrs[i] = 0
        OBVIOUS
    <3>1. Claim(dk, ino, i, -1) = 0
        BY <1>1, <1>2
    <3> QED
        BY <3>1, PointerClaimed
  <2>2. Claim(dk, ino, 0, 0) # 0
      BY <1>1, <1>2
  <2>3. \A i \in Pointers, c \in Places : Claim(dk, ino, i, c) \in DataArea \union {0}
      BY <1>1
  <2> QED
      BY <1>1, <2>1, <2>2, <2>3 DEF WellFormed
<1>7. \A p \in all : WellFormed(dk, InodeAt(dk, p))
    BY <1>6 DEF Separate, ino
<1>8. ClaimedOnce(dk, all)
  <2> SUFFICES ASSUME NEW p \in all, NEW i \in Pointers, NEW c \in Places,
                      Claim(dk, InodeAt(dk, p), i, c) # 0,
                      NEW q \in all, NEW j \in Pointers, NEW x \in Places,
                      Claim(dk, InodeAt(dk, q), j, x) = Claim(dk, InodeAt(dk, p), i, c)
               PROVE  q = p /\ j = i /\ x = c
      BY DEF ClaimedOnce, OnlyClaim
  <2>1. CASE p = e /\ q = e
    <3>1. InodeAt(dk, p) = ino /\ InodeAt(dk, q) = ino
        BY <2>1 DEF ino
    <3>2. Claim(dk, ino, i, c) # 0 /\ Claim(dk, ino, j, x) = Claim(dk, ino, i, c)
        BY <3>1
    <3>3. i = 0 /\ j = 0
        BY <1>1, <3>2
    <3>4. c = x
        BY <1>1, <1>2, <3>2, <3>3
    <3> QED
        BY <2>1, <3>3, <3>4
  <2>2. CASE p = e /\ q # e
    <3>1. Claim(dk, ino, i, c) # 0 /\ q \in set /\ InodeAt(dk, p) = ino
        BY <2>2 DEF ino
    <3>2. Claim(dk, ino, i, c) \in {b, b2}
        BY <1>1, <3>1
    <3> QED
        BY <1>4, <3>1, <3>2
  <2>3. CASE p # e /\ q = e
    <3>1. Claim(dk, ino, j, x) # 0 /\ p \in set /\ InodeAt(dk, q) = ino
        BY <2>3 DEF ino
    <3>2. Claim(dk, ino, j, x) \in {b, b2}
        BY <1>1, <3>1
    <3> QED
        BY <1>4, <3>1, <3>2
  <2>4. CASE p # e /\ q # e
      BY <2>4 DEF Separate, ClaimedOnce, OnlyClaim
  <2> QED
      BY <2>1, <2>2, <2>3, <2>4
<1>9. NamedOnce(dk, all)
    BY <1>5 DEF NamedOnce, Separate, NoneNamed
<1> QED
    BY <1>5, <1>7, <1>8, <1>9 DEF Separate

=============================================================================
