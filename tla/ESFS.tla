-------------------------------- MODULE ESFS --------------------------------
(***************************************************************************)
(* SystemZero's file system at work: the kernel shell runs one program at  *)
(* a time, every program calls file_create, file_write and file_delete of  *)
(* kernel/drivers/disk/fs.c, and these write the disk one sector at a      *)
(* time.  One action is the code from one sector write to the next, so the *)
(* states in between are those a power loss can leave behind.              *)
(*                                                                         *)
(* A program is linked with its own copy of fs.c, hence its own superblock *)
(* (sb); what the programs share is the disk and the environment variables *)
(* of the kernel: the selected drive and last_allocated_block (lab), the   *)
(* cursor where the search for a free block starts.                        *)
(***************************************************************************)
EXTENDS ESFSDisk

CONSTANTS
    Drives,       \* the drives that are present
    BootDrive,    \* the drive the loader found the kernel on
    Commands,     \* what the user may type: a set of jobs (below)
    InitDisks,    \* what the drives may hold when the machine is built
    StaleCalls,   \* calls whose failed lookup can return an earlier inode
    StackLabs,    \* values of a last_allocated_block nobody has assigned
    ProbeErrors,  \* may the uninitialised ATA_err skip the probing loop?
    MaxCommands,  \* bound: commands and power losses in a behaviour
    MaxCrashes    \* bound: power losses in a behaviour

Programs == {"touch", "del", "hexedit", "edit", "copy", "drive", "format"}

(* The arguments of a command.  name and drv are the file worked on, src   *)
(* and srcdrv the source of a copy; cut and add are what the user of an    *)
(* editor does to the text: delete cut characters at its front, insert add *)
(* at its end.                                                             *)
Jobs == [prog : Programs, name : Seq(Nat), drv : Nat,
         src : Seq(Nat), srcdrv : Nat, cut : Nat, add : Seq(Nat)]

ASSUME ESFSAssumption ==
    /\ Drives \subseteq Nat /\ BootDrive \in Drives
    /\ Commands \subseteq Jobs
    /\ \A j \in Commands : /\ j.srcdrv \in Drives
                           /\ j.prog # "drive" => j.drv \in Drives
    /\ InitDisks \subseteq [Drives -> Disk]
    /\ StaleCalls \subseteq {"create", "write", "delete"}
    /\ StackLabs \subseteq Nat
    /\ ProbeErrors \subseteq BOOLEAN
    /\ MaxCommands \in Nat /\ MaxCrashes \in Nat

VARIABLES
    disk,      \* disk[d]: the sectors of drive d
    lab,       \* env_vars.last_allocated_block
    selected,  \* env_vars.selected_drive
    drive,     \* the drive select_drive() last chose (io_base, slavebit)
    sb,        \* the running program's superblock
    stale,     \* the inode_t an earlier call left in the stack slot
    pc,        \* where the processor is
    job,       \* the command being executed
    todo,      \* the calls the program has still to make
    payload,   \* the bytes the program will write: its file buffer
    wsize,     \* and how many of them: write_size
    fr,        \* the locals of the running call
    ret,       \* what the last call, then the program, returned
    commands, crashes

env     == <<lab, selected>>
program == <<job, payload, wsize>>
bounds  == <<commands, crashes>>
vars == <<disk, lab, selected, drive, sb, stale, pc, job, todo, payload,
          wsize, fr, ret, commands, crashes>>

NoJob == [prog |-> "drive", name |-> <<>>, drv |-> BootDrive,
          src |-> <<>>, srcdrv |-> BootDrive, cut |-> 0, add |-> <<>>]

(* The locals of file_create (entry, block, block2, image), of file_delete *)
(* (info, i, buf, rest, least), of file_write (info, i = ptr_i,            *)
(* j = ptr_block_i, buf = ptr_block_read, data, left, total) and of        *)
(* format_disk (i).                                                        *)
NoFrame == [info |-> NoInode, entry |-> 0, block |-> 0, block2 |-> 0,
            image |-> ZeroSector, i |-> 0, j |-> 0, buf |-> ZeroSector,
            data |-> ZeroSector, left |-> 0, total |-> 0,
            rest |-> {}, least |-> 0]

Frame == [info : Inode, entry : Positions, block : Nat, block2 : Nat,
          image : Sector, i : Nat, j : Nat, buf : Sector,
          data : Sector, left : Int, total : Nat,
          rest : SUBSET Cells, least : Nat]

NoSuperblock == [magic |-> Magic, blocks |-> 0, inode_blocks |-> 0, inodes |-> 0,
                 disk_size |-> 0, last_allocated_block |-> 0]

Calls == {"create", "delete", "write", "fetch", "retry", "drive", "format"}

Script(prog) ==
    CASE prog = "touch"   -> <<"create">>
      [] prog = "del"     -> <<"delete">>
      [] prog = "hexedit" -> <<"delete", "create", "write">>
      [] prog = "edit"    -> <<"delete", "create", "write", "retry">>
      [] prog = "copy"    -> <<"create", "fetch", "write">>
      [] prog = "drive"   -> <<"drive">>
      [] OTHER            -> <<"format">>

Init ==
    /\ disk \in InitDisks
    /\ lab = 0 /\ selected = BootDrive /\ drive = BootDrive
    /\ sb = NoSuperblock /\ stale = NoInode
    /\ pc = "off" /\ job = NoJob /\ todo = <<>>
    /\ payload = <<>> /\ wsize = 0 /\ fr = NoFrame /\ ret = 0
    /\ commands = 0 /\ crashes = 0

-----------------------------------------------------------------------------
(* Helpers.                                                                *)

Write(b, data) == disk' = [disk EXCEPT ![drive] = WriteSector(@, b, data)]

(* What a call finds under name on the drive in use.                       *)
Lookup(call, name) ==
    GetFileInfo(disk[drive], name,
                IF call \in StaleCalls THEN {NoInode, stale} ELSE {NoInode})

(* What a program finds: its own stack holds no earlier inode.             *)
ProgramLookup(d, name) ==
    LET found == Matches(disk[d], name)
    IN  IF found = {} THEN NoInode ELSE InodeAt(disk[d], Min(found))

(* The cursor a call starts from: 0 means "never set" to it.               *)
StartLab == IF lab = 0 THEN SuperblockBlock + sb.inode_blocks ELSE lab

(* save_superblock                                                         *)
SaveSuperblock_Stale ==  \* a mistake: the cursor not copied into it first
    sb' = sb /\ Write(SuperblockBlock, SuperblockSector(sb))

SaveSuperblock ==
    LET saved == [sb EXCEPT !.last_allocated_block = lab']
    IN  /\ sb' = saved
        /\ Write(SuperblockBlock, SuperblockSector(saved))

(* The cursor init_fs finds.                                               *)
FirstCursor_Forgotten(old, known, unset) == unset  \* a mistake: the disk's not taken
FirstCursor(old, known, unset) == IF known THEN old.last_allocated_block ELSE unset

(* init_fs: the superblock it writes, whose last_allocated_block is the    *)
(* cursor it leaves.  unset is the cursor it finds when the disk gives     *)
(* none.                                                                   *)
InitFs(dk, skipped, unset) ==
    LET old   == SuperblockOf(dk)
        known == old.magic = Magic /\ old.disk_size # 0
        size  == IF known THEN old.disk_size
                 ELSE IF old.disk_size = 0 THEN ProbedSize(skipped) ELSE 0
        start == FirstCursor(old, known, unset)
        geo   == Geometry(size, start)
    IN  [geo EXCEPT !.last_allocated_block =
            IF start = 0 THEN Cursor(dk, geo, 0) ELSE start]

CheckDiskFs(dk) == SuperblockOf(dk).magic = Magic

Return(value) ==
    /\ ret' = value
    /\ todo' = Tail(todo) /\ pc' = "run" /\ fr' = NoFrame

Calling(call) == pc = "run" /\ todo # <<>> /\ Head(todo) = call

(* The drive a program calls file_create on.                               *)
WorkDrive_Selected(j) == selected  \* a mistake: copy does not select its second
WorkDrive(j) == IF j.prog = "copy" THEN j.drv ELSE selected

(* The bytes file_read copies into a buffer of that many sectors: the body *)
(* up to the buffer's end, counted from the start of the name.             *)
ReadBody(dk, ino, sectors) ==
    LET body == Body(dk, ino)
        room == sectors * WordsPerSector - Len(NameOf(dk, ino))
    IN  SubSeq(body, 1, Min({Len(body), Max({room, 0})}))

(* The first n bytes of a zeroed buffer that holds s.                      *)
Buffer(s, n) == [k \in 1 .. Max({n, 0}) |-> IF k <= Len(s) THEN s[k] ELSE 0]

(* What an editor has in its buffer when the user saves, and the size it   *)
(* then passes to file_write: the size of the file on disk, its name       *)
(* included, changed by the editing, less the length of the name.          *)
Editor(j) ==
    LET info  == ProgramLookup(selected, j.name)
        bytes == Signed(info.size)
        text  == UpToNul(ReadBody(disk[selected], info, SectorsToRead(bytes)))
        cut   == Min({j.cut, Len(text)})
    IN  [text |-> SubSeq(text, cut + 1, Len(text)) \o j.add,
         size |-> bytes - cut + Len(j.add) - Len(j.name)]

-----------------------------------------------------------------------------
(* Power, the shell and the programs.                                      *)

(* kmain up to the shell.  env_vars is not initialised by the loader: when *)
(* the disk gives no cursor, unset is the one that is left in the stack.   *)
Boot ==
    /\ pc = "off"
    /\ \E skipped \in ProbeErrors, unset \in StackLabs :
          LET new == InitFs(disk[BootDrive], skipped, unset)
          IN  /\ sb' = new /\ lab' = new.last_allocated_block
              /\ disk' = [disk EXCEPT ![BootDrive] =
                             WriteSector(@, SuperblockBlock, SuperblockSector(new))]
    /\ selected' = BootDrive /\ drive' = BootDrive
    /\ IF CheckDiskFs(disk'[BootDrive])
       THEN pc' = "shell" /\ UNCHANGED todo
       ELSE pc' = "super" /\ todo' = <<"format">>
    /\ UNCHANGED <<stale, fr, ret, program, bounds>>

(* execute() and the program up to its first call: it selects its drive    *)
(* and loads the superblock of the selected one; an editor reads the file  *)
(* into its buffer and lets the user change it.  What the kernel's own two *)
(* lookups of the program (kernel.c:26-36) leave on the stack is not a     *)
(* leftover here: a program file is none of the files of the model.        *)
Execute(j) ==
    /\ pc = "shell" /\ commands + crashes < MaxCommands
    /\ commands' = commands + 1
    /\ job' = j /\ todo' = Script(j.prog) /\ pc' = "run"
    /\ stale' = NoInode /\ ret' = 0
    /\ drive' = WorkDrive(j)
    /\ sb' = SuperblockOf(disk[selected])
    /\ IF j.prog \in {"edit", "hexedit"}
       THEN LET buffer == Editor(j)
            IN  wsize' = buffer.size /\ payload' = Buffer(buffer.text, buffer.size)
       ELSE wsize' = 0 /\ payload' = <<>>
    /\ UNCHANGED <<disk, env, fr, crashes>>

(* list, read, view, drives and the other programs that only look.         *)
Look == pc = "shell" /\ UNCHANGED vars

(* del tests `!file_delete(...), env_vars_ptr', a comma expression that is *)
(* always true, and returns 0 whatever file_delete said.                   *)
Exit ==
    /\ pc = "run" /\ todo = <<>>
    /\ pc' = "shell" /\ drive' = selected
    /\ ret' = IF job.prog \in {"touch", "drive"} THEN ret ELSE 0
    /\ job' = NoJob /\ payload' = <<>> /\ wsize' = 0 /\ stale' = NoInode
    /\ sb' = NoSuperblock
    /\ UNCHANGED <<disk, env, todo, fr, bounds>>

(* The drive program: a drive that identifies itself is selected.          *)
SelectDrive ==
    /\ Calling("drive")
    /\ selected' = IF job.drv \in Drives THEN job.drv ELSE selected
    /\ Return(IF job.drv \in Drives THEN 0 ELSE 1)
    /\ UNCHANGED <<disk, lab, drive, sb, stale, program, bounds>>

(* copy reads its source between creating the destination and writing it.  *)
Fetch ==
    /\ Calling("fetch")
    /\ LET info  == ProgramLookup(job.srcdrv, job.src)
           bytes == Signed(info.size)
           size  == bytes - (Len(job.src) + 1)
       IN  /\ wsize' = size
           /\ payload' = Buffer(ReadBody(disk[job.srcdrv], info,
                                         SectorsToRead(bytes)), size)
    /\ Return(ret)
    /\ UNCHANGED <<disk, env, drive, sb, stale, job, bounds>>

(* edit: if(!wrote) goto SAVE.                                             *)
Retry ==
    /\ Calling("retry")
    /\ todo' = IF ret = 0 THEN Script("edit") ELSE Tail(todo)
    /\ UNCHANGED <<disk, env, drive, sb, stale, pc, program, fr, ret, bounds>>

-----------------------------------------------------------------------------
(* file_create                                                             *)

(* The size of an empty file: its name and the NUL behind it.              *)
InitialSize_NoNul(name) == Len(name)  \* a mistake
InitialSize(name) == Len(name) + 1

(* Up to the write of the sector of the inode table.                       *)
Create ==
    /\ Calling("create")
    /\ \E info \in Lookup("create", job.name) :
          /\ stale' = info
          /\ \/ /\ info.valid = 1
                /\ Return(1)
                /\ UNCHANGED <<disk, lab>>
             \/ /\ info.valid # 1
                /\ FreeEntry(disk[drive], sb) = {}
                /\ lab' = StartLab
                /\ \E value \in {0, 1} : Return(value)
                /\ UNCHANGED disk
             \/ /\ info.valid # 1
                /\ \E e \in FreeEntry(disk[drive], sb) :
                      LET block == Allocate(disk[drive], sb, StartLab)
                          ino   == [valid |-> 1, size |-> InitialSize(job.name),
                                    ptrs |-> [NoInode.ptrs EXCEPT ![0] = block]]
                          image == WithInode(disk[drive][InodeSector(e)], e, ino)
                      IN  /\ Write(InodeSector(e), image)
                          /\ lab' = Cursor(disk[drive], sb, StartLab)
                          /\ fr' = [NoFrame EXCEPT !.entry = e, !.block = block,
                                                   !.image = image]
                /\ pc' = "image" /\ UNCHANGED <<ret, todo>>
    /\ UNCHANGED <<selected, drive, sb, program, bounds>>

(* The inode sector also goes to the new pointer block, so that the search *)
(* for the second block passes over it.                                    *)
CreateImage_Unmarked ==  \* a mistake: the second block sought before the write
    /\ pc = "image"
    /\ Write(fr.block, fr.image)
    /\ fr' = [fr EXCEPT !.block2 = Allocate(disk[drive], sb, lab)]
    /\ lab' = Cursor(disk[drive], sb, lab)
    /\ pc' = "zero"
    /\ UNCHANGED <<selected, drive, sb, stale, todo, ret, program, bounds>>

CreateImage ==
    /\ pc = "image"
    /\ Write(fr.block, fr.image)
    /\ LET dk == disk'[drive]
       IN  /\ fr' = [fr EXCEPT !.block2 = Allocate(dk, sb, lab)]
           /\ lab' = Cursor(dk, sb, lab)
    /\ pc' = "zero"
    /\ UNCHANGED <<selected, drive, sb, stale, todo, ret, program, bounds>>

CreateZero ==
    /\ pc = "zero"
    /\ Write(fr.block, ZeroSector)
    /\ pc' = "pointer"
    /\ UNCHANGED <<env, drive, sb, stale, todo, fr, ret, program, bounds>>

CreatePointer ==
    /\ pc = "pointer"
    /\ Write(fr.block, ToSector(<<fr.block2>>))
    /\ pc' = "name"
    /\ UNCHANGED <<env, drive, sb, stale, todo, fr, ret, program, bounds>>

CreateName ==
    /\ pc = "name"
    /\ Write(fr.block2, ToSector(job.name))
    /\ pc' = "created"
    /\ UNCHANGED <<env, drive, sb, stale, todo, fr, ret, program, bounds>>

CreateSave ==
    /\ pc = "created"
    /\ UNCHANGED lab
    /\ SaveSuperblock
    /\ Return(0)
    /\ UNCHANGED <<selected, drive, stale, program, bounds>>

-----------------------------------------------------------------------------
(* file_delete                                                             *)

(* The inode is cleared first; the pointer blocks are read one by one and  *)
(* the data blocks they name overwritten with zeros.                       *)
Delete ==
    /\ Calling("delete")
    /\ \E info \in Lookup("delete", job.name) :
          /\ stale' = info
          /\ \/ /\ info.valid # 1
                /\ Return(1)
                /\ UNCHANGED disk
             \/ /\ info.valid = 1
                /\ disk' = [disk EXCEPT ![drive] = SetFileInfo(@, job.name, NoInode)]
                /\ fr' = [NoFrame EXCEPT !.info = info]
                /\ pc' = "load" /\ UNCHANGED <<ret, todo>>
    /\ UNCHANGED <<env, drive, sb, program, bounds>>

(* The smallest block freed so far; 0 is none.                             *)
Least_Greatest(least, b) == IF least = 0 \/ b > least THEN b ELSE least  \* a mistake
Least(least, b) == IF least = 0 \/ b < least THEN b ELSE least

DeleteLoad ==
    /\ pc = "load" /\ fr.i < PtrsPerInode
    /\ LET ptr == fr.info.ptrs[fr.i]
           buf == ReadSector(disk[drive], ptr)
       IN  fr' = [fr EXCEPT !.i = @ + 1, !.buf = buf,
                            !.rest = IF ptr = 0 THEN {} ELSE PointersIn(buf)]
    /\ pc' = "wipe"
    /\ UNCHANGED <<disk, env, drive, sb, stale, todo, ret, program, bounds>>

DeleteWipe ==
    /\ pc = "wipe"
    /\ \/ /\ fr.rest = {}
          /\ pc' = "load" /\ UNCHANGED <<disk, fr>>
       \/ /\ \E c \in fr.rest :
                /\ \A x \in fr.rest : c <= x
                /\ Write(fr.buf[c], ZeroSector)
                /\ fr' = [fr EXCEPT !.rest = @ \ {c},
                                    !.least = Least(@, fr.buf[c])]
          /\ UNCHANGED pc
    /\ UNCHANGED <<env, drive, sb, stale, todo, ret, program, bounds>>

(* The cursor goes to the smallest block that was freed.                   *)
DeleteSave ==
    /\ pc = "load" /\ fr.i = PtrsPerInode
    /\ lab' = fr.least
    /\ SaveSuperblock
    /\ Return(0)
    /\ UNCHANGED <<selected, drive, stale, program, bounds>>

-----------------------------------------------------------------------------
(* file_write: two nested loops over the pointers of the inode (fr.i) and  *)
(* the words of the pointer block (fr.j).                                  *)

WriteCall ==
    /\ Calling("write")
    /\ \E info \in Lookup("write", job.name) :
          \/ /\ info.valid # 1
             /\ Return(0)
             /\ UNCHANGED lab
          \/ /\ info.valid = 1
             /\ lab' = StartLab
             /\ fr' = [NoFrame EXCEPT !.info = info, !.left = wsize]
             /\ pc' = "pointers" /\ UNCHANGED <<ret, todo>>
    /\ UNCHANGED <<disk, selected, drive, sb, stale, program, bounds>>

(* if(write_size <= 0) break                                               *)
Done_Always == TRUE  \* a mistake: the break without its condition
Done == fr.left <= 0

(* The outer loop: the next pointer of the inode.                          *)
WritePointer ==
    /\ pc = "pointers"
    /\ IF fr.i = PtrsPerInode
       THEN pc' = "size" /\ UNCHANGED fr
       ELSE IF fr.info.ptrs[fr.i] # 0
       THEN /\ pc' = "blocks"
            /\ fr' = [fr EXCEPT !.j = 0,
                        !.buf = ReadSector(disk[drive], fr.info.ptrs[fr.i])]
       ELSE IF Done
       THEN pc' = "size" /\ UNCHANGED fr
       ELSE fr' = [fr EXCEPT !.i = @ + 1] /\ UNCHANGED pc
    /\ UNCHANGED <<disk, env, drive, sb, stale, todo, ret, program, bounds>>

(* The inner loop has run out of words.                                    *)
WriteNextPointer_Same ==  \* a mistake: the pointer not advanced
    /\ pc = "blocks" /\ fr.j = WordsPerSector
    /\ pc' = IF Done THEN "size" ELSE "pointers"
    /\ UNCHANGED <<disk, env, drive, sb, stale, todo, fr, ret, program, bounds>>

WriteNextPointer ==
    /\ pc = "blocks" /\ fr.j = WordsPerSector
    /\ IF Done
       THEN pc' = "size" /\ UNCHANGED fr
       ELSE pc' = "pointers" /\ fr' = [fr EXCEPT !.i = @ + 1]
    /\ UNCHANGED <<disk, env, drive, sb, stale, todo, ret, program, bounds>>

AtBlock == pc = "blocks" /\ fr.j < WordsPerSector
Block   == ReadSector(disk[drive], fr.buf[fr.j])
LastCell    == WordsPerSector - 1

(* No block yet at this word: one is allocated and the word tried again.   *)
WriteAllocate ==
    /\ AtBlock /\ fr.buf[fr.j] = 0
    /\ LET buf == [fr.buf EXCEPT ![fr.j] = Allocate(disk[drive], sb, lab)]
       IN  Write(fr.info.ptrs[fr.i], buf) /\ fr' = [fr EXCEPT !.buf = buf]
    /\ lab' = Cursor(disk[drive], sb, lab)
    /\ UNCHANGED <<selected, drive, sb, stale, pc, todo, ret, program, bounds>>

(* A full block: on to the next word, which gets a block if it has none.   *)
(* After the last word the code reads, and may fill, the word past the end *)
(* of its buffer, which is never written to disk: beyond is what it reads. *)
WriteFull ==
    /\ AtBlock /\ fr.buf[fr.j] # 0 /\ Block[LastCell] # 0
    /\ \E beyond \in {0, 1} :
          LET next == IF fr.j = LastCell THEN beyond ELSE fr.buf[fr.j + 1]
              buf  == IF fr.j = LastCell THEN fr.buf
                      ELSE [fr.buf EXCEPT ![fr.j + 1] = Allocate(disk[drive], sb, lab)]
          IN  IF next # 0
              THEN fr' = [fr EXCEPT !.j = @ + 1] /\ UNCHANGED <<disk, lab>>
              ELSE /\ Write(fr.info.ptrs[fr.i], buf)
                   /\ lab' = Cursor(disk[drive], sb, lab)
                   /\ fr' = [fr EXCEPT !.j = @ + 1, !.buf = buf]
    /\ UNCHANGED <<selected, drive, sb, stale, pc, todo, ret, program, bounds>>

(* A block with room: the data goes into its NULs and the new size into    *)
(* the inode.                                                              *)
WriteFill ==
    /\ AtBlock /\ fr.buf[fr.j] # 0 /\ Block[LastCell] = 0
    /\ LET first == fr.i = 0 /\ fr.j = 0
           n     == FillCount(Block, first, fr.left)
           info  == [fr.info EXCEPT !.size = (@ + n) % WordRange]
       IN  /\ fr' = [fr EXCEPT !.info = info, !.left = @ - n, !.total = @ + n,
                        !.data = Fill(Block, first, payload, fr.total, n)]
           /\ disk' = [disk EXCEPT ![drive] = SetFileInfo(@, job.name, info)]
    /\ pc' = "data"
    /\ UNCHANGED <<env, drive, sb, stale, todo, ret, program, bounds>>

(* The data block itself.  If it is full and the last of its pointer block *)
(* the pointer in the inode is replaced by a new block.                    *)
WriteData ==
    /\ pc = "data"
    /\ Write(fr.buf[fr.j], fr.data)
    /\ IF fr.data[LastCell] # 0 /\ fr.j = LastCell
       THEN /\ fr' = [fr EXCEPT !.info.ptrs[fr.i] = Allocate(disk'[drive], sb, lab)]
            /\ lab' = Cursor(disk'[drive], sb, lab)
            /\ pc' = "chain"
       ELSE /\ IF Done THEN pc' = "size" /\ UNCHANGED fr
               ELSE pc' = "blocks" /\ fr' = [fr EXCEPT !.j = @ + 1]
            /\ UNCHANGED lab
    /\ UNCHANGED <<selected, drive, sb, stale, todo, ret, program, bounds>>

WriteChain ==
    /\ pc = "chain"
    /\ disk' = [disk EXCEPT ![drive] = SetFileInfo(@, job.name, fr.info)]
    /\ IF Done THEN pc' = "size" /\ UNCHANGED fr
       ELSE pc' = "blocks" /\ fr' = [fr EXCEPT !.j = @ + 1]
    /\ UNCHANGED <<env, drive, sb, stale, todo, ret, program, bounds>>

(* What could not be written still counts in the size.                     *)
WriteSize ==
    /\ pc = "size"
    /\ LET info == [fr.info EXCEPT !.size = (@ + fr.left) % WordRange]
       IN  disk' = [disk EXCEPT ![drive] = SetFileInfo(@, job.name, info)]
    /\ pc' = "written"
    /\ UNCHANGED <<env, drive, sb, stale, todo, fr, ret, program, bounds>>

WriteSave ==
    /\ pc = "written"
    /\ UNCHANGED lab
    /\ SaveSuperblock
    /\ Return(fr.total)
    /\ UNCHANGED <<selected, drive, stale, program, bounds>>

-----------------------------------------------------------------------------
(* format: init_fs on the selected drive, with the size of the drive in    *)
(* place of the address of the environment, then format_disk.              *)

Format ==
    /\ Calling("format")
    /\ \E skipped \in ProbeErrors, unset \in StackLabs :
          LET new == InitFs(disk[drive], skipped, unset)
          IN  sb' = new /\ Write(SuperblockBlock, SuperblockSector(new))
    /\ pc' = "super" /\ fr' = NoFrame
    /\ UNCHANGED <<env, drive, stale, todo, ret, program, bounds>>

FormatSuperblock_FromTwo ==  \* a mistake: the first inode block left out
    /\ pc = "super"
    /\ Write(SuperblockBlock, SuperblockSector(sb))
    /\ pc' = "inodes" /\ fr' = [fr EXCEPT !.i = 2]
    /\ UNCHANGED <<env, drive, sb, stale, todo, ret, program, bounds>>

FormatSuperblock ==
    /\ pc = "super"
    /\ Write(SuperblockBlock, SuperblockSector(sb))
    /\ pc' = "inodes" /\ fr' = [fr EXCEPT !.i = 1]
    /\ UNCHANGED <<env, drive, sb, stale, todo, ret, program, bounds>>

FormatInodes ==
    /\ pc = "inodes"
    /\ IF fr.i <= sb.inode_blocks
       THEN /\ Write(InodeTableSector(fr.i), ZeroSector)
            /\ fr' = [fr EXCEPT !.i = @ + 1]
            /\ UNCHANGED <<pc, todo, ret>>
       ELSE Return(0) /\ UNCHANGED disk
    /\ UNCHANGED <<env, drive, sb, stale, program, bounds>>

-----------------------------------------------------------------------------
(* The power may fail between any two sector writes; memory is lost.       *)
Crash ==
    /\ pc # "off" /\ crashes < MaxCrashes /\ commands + crashes < MaxCommands
    /\ crashes' = crashes + 1
    /\ pc' = "off" /\ lab' = 0 /\ selected' = BootDrive /\ drive' = BootDrive
    /\ sb' = NoSuperblock /\ stale' = NoInode /\ job' = NoJob /\ todo' = <<>>
    /\ payload' = <<>> /\ wsize' = 0 /\ fr' = NoFrame /\ ret' = 0
    /\ UNCHANGED <<disk, commands>>

FileCreate == \/ Create \/ CreateImage \/ CreateZero \/ CreatePointer
              \/ CreateName \/ CreateSave
FileDelete == Delete \/ DeleteLoad \/ DeleteWipe \/ DeleteSave
FileWrite  == \/ WriteCall \/ WritePointer \/ WriteNextPointer
              \/ WriteAllocate \/ WriteFull \/ WriteFill \/ WriteData
              \/ WriteChain \/ WriteSize \/ WriteSave
FormatDisk == Format \/ FormatSuperblock \/ FormatInodes

(* What the processor does on its own once a command has been typed.       *)
Step == Boot \/ Exit \/ SelectDrive \/ Fetch \/ Retry
        \/ FileCreate \/ FileDelete \/ FileWrite \/ FormatDisk

Next == Step \/ Look \/ Crash \/ \E j \in Commands : Execute(j)

Spec == Init /\ [][Next]_vars

(* One processor runs one program: once a command is typed its next step   *)
(* is always taken.  The user need not type anything.                      *)
FairSpec == Spec /\ WF_vars(Step)
=============================================================================
