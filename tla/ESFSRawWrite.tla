---------------------------- MODULE ESFSRawWrite ----------------------------
(***************************************************************************)
(* ESFS_raw_write.c, the tool of the host that fills the image of the      *)
(* machine's drive: it formats the image if need be, creates the file and  *)
(* writes it.  Its lookups, its search for a free block and its formatting *)
(* are those of fs.c, so they are the operators of ESFSDisk; what differs  *)
(* is the superblock, which has no size and no cursor, the cursor, which   *)
(* starts afresh in every run, and the size on record, which is that of    *)
(* the data alone.  A run of the tool is one step: nobody else works on    *)
(* the image.  It is taken in the module Machine.                          *)
(***************************************************************************)
EXTENDS ESFSDisk, SequencesExt

CONSTANT ImageBlocks  \* 204630: the blocks of a disk_size of 104770560

Superblock0 ==
    [Geometry(ImageBlocks * WordsPerSector, 0) EXCEPT !.disk_size = 0]
FirstBlock_Zero == 0  \* a mistake: the search starts at the image's first block
FirstBlock == SuperblockBlock + Superblock0.inode_blocks

(* The tool's own get_file_info, set_file_info and allocate_data_block,    *)
(* copies of those of fs.c; the last is given a block and has no cursor.   *)
Found(dk, name)         == Matches(dk, name)
UpdateOn(dk, name, ino) == SetFileInfo(dk, name, ino)
NextFree(dk, from)      == Allocate(dk, Superblock0, from)

FormatImage(dk) ==
    [b \in Sectors |->
        CASE b = SuperblockBlock -> SuperblockSector(Superblock0)
          [] b \in SuperblockBlock + 1 .. FirstBlock -> ZeroSector
          [] OTHER -> dk[b]]

(* file_create.  The new inode's sector is also written to the pointer     *)
(* block, so that the search for the second block passes over it.          *)
Entered(dk, name, e, ptr) ==
    LET ino   == [valid |-> 1, size |-> Len(name) + 1,
                  ptrs |-> [NoInode.ptrs EXCEPT ![0] = ptr]]
        entry == WithInode(dk[InodeSector(e)], e, ino)
    IN  WriteSector(WriteSector(dk, InodeSector(e), entry), ptr, entry)

Named(dk, name, ptr, first) ==
    WriteSector(WriteSector(dk, ptr, ToSector(<<first>>)), first, ToSector(name))

CreateOn_Unmarked(dk, name) ==  \* a mistake: the second block sought too early
    LET e   == CHOOSE p \in FreeEntry(dk, Superblock0) : TRUE
        ptr == NextFree(dk, FirstBlock)
    IN  Named(Entered(dk, name, e, ptr), name, ptr, NextFree(dk, FirstBlock))

CreateOn(dk, name) ==
    LET e      == CHOOSE p \in FreeEntry(dk, Superblock0) : TRUE
        ptr    == NextFree(dk, FirstBlock)
        marked == Entered(dk, name, e, ptr)
    IN  IF FreeEntry(dk, Superblock0) = {} THEN dk
        ELSE Named(marked, name, ptr, NextFree(marked, FirstBlock))

-----------------------------------------------------------------------------
(* file_write.  w holds its arguments and locals: the disk, the name and   *)
(* data, the inode, the pointer number i, the pointer block buf,           *)
(* last_allocated_block (lab), total_write_size, and done, set by a break. *)

(* Block b for word j of the pointer block.                                *)
PutBlock(w, j, b) ==
    [w EXCEPT !.lab = b, !.buf[j] = b,
              !.dk = WriteSector(@, w.info.ptrs[w.i], [w.buf EXCEPT ![j] = b])]

(* The code searches twice, the second time from the block that the first  *)
(* search has found and that nothing has been written to: it is found      *)
(* again.                                                                  *)
WithBlock(w, j) == PutBlock(w, j, NextFree(w.dk, w.lab))

(* The last word's block is full: the inode's pointer goes to block b.     *)
PutPointer(w, b) ==
    LET info == [w.info EXCEPT !.ptrs[w.i] = b]
    IN  [w EXCEPT !.lab = b, !.info = info, !.dk = UpdateOn(@, w.name, info)]

WithPointer(w) == PutPointer(w, NextFree(w.dk, w.lab))

(* n bytes of the data are in the copy new of word j's block.              *)
PutData(w, j, n, new) ==
    LET info == [w.info EXCEPT !.size = @ + n]
    IN  [w EXCEPT !.info = info, !.total = @ + n,
                  !.done = w.total + n >= Len(w.data),
                  !.dk = WriteSector(UpdateOn(@, w.name, info), w.buf[j], new)]

WithData(w, j) ==
    LET block == ReadSector(w.dk, w.buf[j])
        first == w.i = 0 /\ j = 0
        n     == FillCount(block, first, Len(w.data) - w.total)
        new   == Fill(block, first, w.data, w.total, n)
    IN  IF j = WordsPerSector - 1 /\ new[j] # 0
        THEN WithPointer(PutData(w, j, n, new)) ELSE PutData(w, j, n, new)

(* Data goes into a block with room; behind a full one the next word gets  *)
(* its block.  After the last word the code looks at ptr_block_read[128]:  *)
(* in gcc's build file_info follows, so it is file_info.valid, which is    *)
(* set.                                                                    *)
AtWord(w, j) ==
    IF ReadSector(w.dk, w.buf[j])[WordsPerSector - 1] = 0 THEN WithData(w, j)
    ELSE IF j + 1 < WordsPerSector /\ w.buf[j + 1] = 0 THEN WithBlock(w, j + 1)
    ELSE w

(* One word of a pointer block; a word without a block gets one first.     *)
WordLoop(w, j) ==
    IF w.done THEN w ELSE AtWord(IF w.buf[j] = 0 THEN WithBlock(w, j) ELSE w, j)

(* One pointer of the inode.                                               *)
EndPointer(w) == [w EXCEPT !.done = w.total >= Len(w.data)]
PointerLoop(w, i) ==
    LET ptr   == w.info.ptrs[i]
        start == [w EXCEPT !.i = i, !.buf = ReadSector(w.dk, ptr)]
    IN  IF w.done THEN w
        ELSE EndPointer(IF ptr = 0 THEN w
                        ELSE FoldLeft(WordLoop, start,
                                      [k \in 1 .. WordsPerSector |-> k - 1]))

EndWrite(w) == UpdateOn(w.dk, w.name, [w.info EXCEPT !.size = w.total])
WriteOn(dk, name, data) ==
    LET ino   == InodeAt(dk, Min(Found(dk, name)))
        start == [dk |-> dk, name |-> name, data |-> data, info |-> ino,
                  i |-> 0, buf |-> ZeroSector, lab |-> FirstBlock,
                  total |-> 0, done |-> FALSE]
    IN  IF Found(dk, name) = {} THEN dk
        ELSE EndWrite(FoldLeft(PointerLoop, start,
                               [k \in 1 .. PtrsPerInode |-> k - 1]))

-----------------------------------------------------------------------------
(* main                                                                    *)
Formatted(dk)    == IF dk[SuperblockBlock][0] = Magic THEN dk ELSE FormatImage(dk)
WithFile(dk, nm) == IF Found(dk, nm) # {} THEN dk ELSE CreateOn(dk, nm)
RawWrite(dk, file) ==
    WriteOn(WithFile(Formatted(dk), file.name), file.name, file.data)
=============================================================================
