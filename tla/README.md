# A verification development of SystemZero

SystemZero is a small operating system for one x86 processor: a boot loader, a
kernel with a shell, a file system of its own (ESFS), and programs that are
loaded from the drive and linked with the kernel's drivers. There is no memory
protection, no list of free memory and no process but the one that runs; what
can go wrong beyond a single function is what happens over many steps, on the
drives, in memory, and between the keys of the user. This development models
these three.

Paths below are relative to the repository's `src/`.

## 1. The system

| Component | State | Operations | Module |
|---|---|---|---|
| ESFS, `kernel/drivers/disk/fs.c` | on each drive: superblock, inode table, pointer blocks, data blocks; in memory: `superblock`, `inode` | `init_fs`, `format_disk`, `file_create`, `file_write`, `file_read`, `file_delete`, `file_list` and their helpers | `ESFSDisk`, `ESFS` |
| File programs, `external_programs/{touch,del,hexedit,edit,copy,drive,format}.c`, their calls | arguments, file buffer, `file_size` | a fixed order of calls to ESFS | `ESFS` |
| The editors' and view's keys, `external_programs/{edit,hexedit,view}.c` | the buffer, `file_size`, the cursor, the first row shown, the held key | insert, erase, move, scroll, save | `FileBuffer`, `Edit`, `HexEdit`, `Editors` |
| Host tool, `ESFS_raw_write.c` | the drive's image | format, create and write one file | `ESFSRawWrite`, `Machine` |
| Kernel, `kernel/kernel.c` | `env_vars` (selected drive, cursor, free memory pointer) | boot, shell loop, `execute` | `ESFS`, `Execution` |
| Loader, `boot/loader.c` | the environment it builds | choose the boot drive, place and load the kernel | `ESFS`, `Execution`, in part |
| Memory, `kernel/drivers/utils/mem.c` | `free_mem_addr`, one in each program | `malloc`, `get_free_ptr`, `set_free_ptr` | `Execution` |
| `external_programs/chain.c` | line, statement, statement number, exit status, four buffers | a second `execute` and a small script language | `Execution`, `ExecutionChain` |
| Line editor, `kernel/drivers/io/keyboard.c` | buffer, `buffer_i`, shift, held key | `kbd_readline` | `Keys`, `LineEditor` |
| Text screen, `kernel/drivers/io/screen.c` | cells, cursor | `clear`, `print_char`, `print_newline`, `scroll_terminal`, `set_cursor_position` | `Screen` |
| ATA driver, `kernel/drivers/disk/ata.c` | `io_base`, `slavebit` | `select_drive`, read and write sectors, `identify_drive` | `ReadSector`, `WriteSector`, `drive` |
| Strings, `kernel/libc/strings.c` | none | `splice`, `atoi`; `htoi`, `strcmp`, `strlen` | `CommandLine`, in part |
| Graphics, interrupt tables, timer, boot sector, build scripts | output, set up once, or none | | not modelled (section 8) |

How they interact. The loader leaves `env_vars` in memory and calls `kmain`;
the kernel starts programs by calling their `main` with a pointer to
`env_vars`, and `chain`, a program itself, does the same for the programs its
script names. A program selects its drive, loads the superblock of that drive
(`set_superblock`) and calls ESFS, which keeps the place where the next search
for a free block starts in `env_vars.last_allocated_block`, *the cursor* below.
So the cursor outlives the program, is one for all drives, and is also saved
in a superblock by every call that changes it; the program's superblock dies
with the program. The free memory pointer is handed on the same way, in
`env_vars.free_mem_ptr`. The keyboard is polled, by `kbd_readline` and by each
editor with a loop of its own; nothing tells a key held down from a new press
but counters. The host tool works on the image before the machine is ever
switched on, and again whenever it is off, with its own copy of the file
system's code and another idea of where the data area starts.

What is hard here.

* A call writes up to nine sectors, and the power may fail between any two.
* A block is in use if it holds something or if a pointer block names it. A
  pointer block is safe only because it is not empty; a data block only
  because a scan of the inode table reaches its file.
* Scans of the inode table end after 100 unused entries in a row, which
  depends on what was created and deleted before.
* Lookups that find nothing return nothing, and the caller goes on with what
  an earlier call left on the stack.
* Limits: the last byte of a block, the last word of a pointer block, the full
  disk, the full inode table, sizes that are computed with the name or without.
* `edit` loops over three calls until one of them reports success.
* `execute` gives back the memory of a program by subtracting a number that
  must equal what `malloc` added, rounding included, and clears four times as
  much; in `chain` the pointer it lowers then lies below `chain`'s own buffers.
* `kbd_readline` and the editors keep text, length, cursor and screen as
  separate numbers and move each by hand.
* A key event is the value of a port at the moment of a poll: the ENTER that
  ended one line is still there when the next begins.

What makes each component correct.

* ESFS: files do not share blocks; blocks lie in the data area; the kernel's
  sectors are never written; each file in use is found and listed; sizes cover
  the text; the saved cursor is the one in use; a delete gives the blocks back;
  a write has written all it was given when it returns; and, as a whole, every
  drive behaves as a map from names to texts.
* The programs: a copy has all of its source; a formatted drive has no file and
  still has its kernel; what an editor saves is the text, all of it; every
  command returns to the shell.
* The host tool: what it puts on the image stays there whole, whatever else is
  put, and whatever the machine does with other files.
* Execution: nothing in use is overlapped or cleared, memory does not creep
  towards the stack, a script is done in the manual's order.
* Keyboard: the screen shows the line, keys edit as a user expects, a press
  counts once.

## 2. Modules

| Module | What it is |
|---|---|
| `ESFSDisk` | Pure operators: sectors, superblocks, the inode table as its scans see it, the search for a free block, where data goes in a block. Constants of the geometry and their assumption. |
| `ESFS` | The state machine: power, shell, programs and ESFS calls; one action is the code from one sector write to the next. |
| `ESFSProperties` | The properties of `ESFS`. |
| `Ownership` | Which blocks belong to which file at every moment of every call: drives in use, the behaviours that are spared what takes the separation of files away, and the inductive invariant `Owned`. |
| `FileStore` | The abstract specification: each drive is a map from names to texts. |
| `ESFSStore` | `ESFS` with its refinement mapping to `FileStore`. |
| `ESFSRawWrite` | A run of the host tool, as an operator from image to image over the same disk operators. |
| `Machine` | The composition: the machine of `ESFS` and the host tool, in turn on the boot drive's image. |
| `CommandLine` | `splice` and `atoi`, as functions of a text. |
| `Execution` | Loader, shell, `execute`, `malloc` and `chain`: which memory is in use, which drive is selected, which program runs. |
| `ChainScript`, `ExecutionChain` | The script language as `manual.txt` describes it; how a script is written on a line, and the mapping under which `Execution`, given that line, does what the script says. |
| `Keys` | The counters by which a held key repeats, shared by `kbd_readline`, `edit` and `view`. |
| `Screen` | The text screen: cells, cursor, wrapping and scrolling. |
| `TextLine` | The abstract editor: a text and a position in it. |
| `LineEditor` | `kbd_readline`, polling; it implements `TextLine`. |
| `FileBuffer`, `Edit`, `HexEdit` | What the file programs do to the buffer: the shared part, `edit` with `view`, `hexedit`. |
| `Editors` | The three programs under the user's keys, and their properties. |
| `SequenceFacts` | What the folds, splices and recursive functions used by the models compute, for any operation folded: induction over numbers and sequences, done once. |
| `ESFS_proofs`, `Machine_proofs`, `Sectors_proofs`, `ESFSStore_proofs`, `Execution_proofs`, `LineEditor_proofs`, `Editors_proofs` | Lemmas and theorems (section 6). |
| `MCESFS`, `MCOwnership`, `MCESFSStore`, `MCMachine`, `MCExecution`, `MCLineEditor`, `MCEditors` | Small instances for TLC. |

`Machine` and `Ownership` extend `ESFSProperties` extends `ESFS` extends `ESFSDisk`;
`LineEditor` extends `Keys` and `Screen`; `Edit` extends `FileBuffer` and
`Keys`, and `Editors` extends `Edit` and `HexEdit`. `Execution` and `ESFS` meet
in `execute`: the one models the memory a program takes, the other the calls it
makes. `Editors` and `ESFS` meet in a save: what the one calls `Saved` is the
text the other passes to `file_write`.

### `ESFS` and `Machine`

`disk[d]` are the sectors of drive `d`. `lab` and `selected` are the fields
`last_allocated_block` and `selected_drive` of `env_vars`; `drive` is the drive
the driver is set to; `sb` is the running program's `superblock`; `stale` the
inode in the stack slot that a failed lookup leaves to its caller. `pc` names
the point between two sector writes, `todo` the calls the program has still to
make, `fr` the locals of the running call, `payload` and `wsize` the buffer and
size a program passes to `file_write`, `ret` the last result. `Machine` adds
`put`, the files given to the tool, and `sound`, which turns false where one of
the exclusions below applies.

| Code | Actions |
|---|---|
| `kmain`, loader | `Boot` |
| `execute`, the start and end of a program | `Execute`, `Exit` |
| `file_create` | `Create` `CreateImage` `CreateZero` `CreatePointer` `CreateName` `CreateSave` |
| `file_delete` | `Delete` `DeleteLoad` `DeleteWipe` `DeleteSave` |
| `file_write` | `WriteCall` `WritePointer` `WriteNextPointer` `WriteAllocate` `WriteFull` `WriteFill` `WriteData` `WriteChain` `WriteSize` `WriteSave` |
| `init_fs` + `format_disk` | `Format` `FormatSuperblock` `FormatInodes` |
| `drive.c`, `copy.c`'s reading, `edit.c`'s `goto SAVE` | `SelectDrive` `Fetch` `Retry` |
| list, read, view, drives | `Look` |
| loss of power | `Crash` |
| a run of `ESFS_raw_write` | `Machine!Put` |

Reads are part of the action whose write or decision they feed: nobody else
writes the drives between them. `set_file_info` may in principle write more
than one sector (it does not stop at its first match); it is one write as long
as a name occurs once, which is how the model takes the crash points.

* A *cell* stands for a word and for a byte: sectors are `WordsPerSector`
  cells, and so are the characters of a block. Numbers of blocks and characters
  are different values in the instances, so one is never mistaken for the other
  where the code would not.
* Names and texts are sequences of cells; 0 is the NUL byte. The text of a file
  is what is in its blocks behind the name, NULs left out, because ESFS writes
  data into NULs and nothing else.
* Reading a block the drive does not have gives zeros; writing one does
  nothing.
* A value the code never assigns is any of a set: the cursor (`StackLabs`), the
  error byte of the probing loop (`ProbeErrors`), the inode of a failed lookup
  (the call's own leftover or an invalid one, for the calls in `StaleCalls`;
  in the host tool, which makes one lookup of each kind, an invalid one),
  the word behind a pointer block, and the result of `file_create` without a
  free inode. The runs take 0 for the cursor; the theorem `BootSectorSafe` is
  about any number. What the kernel's own lookups of a program (`kernel.c:26-36`)
  leave on the stack is not among the leftovers. `allocate_data_block` without a free block returns its loop
  variable, which is what the unoptimised build leaves in `eax`.
* An editor saves once per command; what the user did to the text is `cut` and
  `add`.
* The host tool runs to its end: `Put` is one step. Nothing observes the image
  while it runs, and the make scripts stop when it fails.

### `Execution`

`depth` is the level that runs: 0 the kernel, 1 a program, 2 a program of
`chain`. Every level has its `free[l]`, its copy of `free_mem_addr`, and its
`drive[l]`; `envfree` is the pointer handed over in `env_vars`. `areas` are the
pieces of memory in use, with the level they belong to.

| Code | Actions |
|---|---|
| loader | `Load`, `Halt` |
| `kmain`'s loop | `Type` |
| `execute`, in `kernel.c` and its copy in `chain.c` | `Missing`, `Execute`, and `ReleaseTo` in the actions that end a program |
| the start of a program's `main`, its `malloc`s | `Start`, `Malloc` |
| the rest of a program | `Work`, `DriveProgram` |
| `chain` | `ChainStart` `Take` `PrintText` `JumpIf` `Jump` `Run` `Next1` `ChainEnd` |

Addresses are the code's: page size 4096, free memory from 0x10000. In the
instance, as in the present build, the kernel lies at 0x12000, the shell's
programs at 0x1C000, those of a chain at 0x2D000; an editor run by a chain has
its buffer up to 0x72000, 0x1E000 below the stack. A line is a
sequence of tokens: a character, or the name of a program as a whole. The shell,
`chain` and `drive` take it apart with `Splice` and `Atoi`, so that a blank
behind a command, a number beyond 255 or a `$` at the end has the effect it has
in the code. Statements are counted in `chain`'s whole line and taken from what
is behind its first blank. What a program returns is 0 or 1;
a program that is missing counts as 2, which is what `file_read` has left in
the register when `execute` falls off its end; that `file_read` notices that it
is missing, and does not take an earlier inode for it (`fs.c:180`), is `ESFS`'s
matter and assumed here. `Start` selects the drive for the programs that have
files; `drive` and those that only draw (`Driveless`) select none. A chain in a chain finds an
empty script, because arguments hold no `$`.

### `LineEditor`

`port` is the scan code the keyboard holds; `key` are `prev_keycode`,
`cached_prev_keycode` and `hold_iterations`; `buffer` reaches from two bytes
before the buffer to `Size`, beyond its `Bytes`; `scr` is the screen.
`before`, `last` and `run` are history: the byte before the buffer, the last
code read, and how many polls have read it. One poll is one action, named for
its branch (`Hold`, `Append1`, `Insert`, `Left`, `Right`, `Backspace`, `Enter`,
`Ignore`); `Press` changes the port at any moment; `Call` is the next call.

### `Editors`

`file` is the buffer from the byte before it on; `file_size`, `selected`,
`offset` and `actual` are the programs' own numbers; `origin` says whether the
machine or the host tool wrote the file, which decides whether its recorded
size counts the name. `strayed` is history: it becomes true when an edit is
made where the program does something else than edit at its cursor
(`InsertsRight`, `ErasesRight`; the hazard list gives the lines). Turns of
the loop of `edit` and `view` are the actions of `Edit`, those of `hexedit`
the actions of `HexEdit`. What `hexedit` reads with `kbd_readline` is one
action, `Entered`; the line itself is `LineEditor`'s. `c`, `i` and `d` wait for
the key's release first (`AskChange`, `AskInsert`, `AskDelete`), so that a key
held down acts once. The picture is no variable but `Draw`, a function of the
buffer and the first row shown: `RowsShown` says what is drawn, not that it is
drawn after every key.

## 3. Runs

`ESFS_<run>.cfg`, `Execution.cfg`, `Line.cfg`, `Editors.cfg` and
`Editors_hexinsert.cfg` are the configurations.

| Run | Question | What it checks |
|---|---|---|
| `files` | One drive, four commands (touch, del, hexedit with short, long and empty texts) on two names, lookups returning leftovers, one loss of power between any two sector writes | `TypeOK` `FilesApart` `NamedFilesApart` `FilesInDataArea` `SizeCoversText` `CursorPersisted` `LeakBounded` `KernelKept` `WriteComplete` `DeleteReclaims` `CreatedFileThere` `ImplementsFileStore` |
| `finish` | Does every command return: `edit`'s loop over three calls, a text that outgrows a pointer block, a copy, formatting, an absent drive, after one loss of power too? | `CommandsFinish` |
| `machine` | Machine and host tool in turn, a second drive, copies, formatting, first boots with the probe of the drive's size done or skipped, `file_write` with a leftover inode, texts up to and beyond a pointer block, one loss of power | `NamedFilesApart` `GeometryFits` `HostFilesIntact` `CopyArrives` `FormatWipes` `FormatKeepsKernel` `BootSectorKept` `HostKernelKept` |
| `execution` | Loader, shell, programs, chains, with the code's numbers | `TypeOK` `AreasApart` `SamePlace` `BelowStack` `ClearsOnlyDead` `ImplementsChainScript` `CommandReturns` |
| `line` | `kbd_readline` under five scan codes at any point between its polls | `MirrorsLine` `ImplementsTextLine` `OneEnterOneLine` `RepeatsSpaced` `EnterEnds` |
| `editors` | `edit`, `view`, `hexedit` under three scan codes | `SaveCovers` `RowsShown` `EditsText` `HexExact` `UpThenDown` `EscEnds` |
| `resave` | Does `file_create` refuse only what exists? | `RefusalTruthful` is violated |
| `spill` | Does `file_write` write an arbitrary amount? | `WriteComplete` is violated |
| `firstboot` | Are the blocks of the first file data blocks? | `FilesInDataArea` is violated |
| `hidden` | Is every file listed? | `NoFileHidden` is violated |
| `copyhost` | Does all of a file from the host arrive in a copy? | `HostFileCopied` is violated |
| `hexinsert` | Does `hexedit` insert? | `HexInserts` is violated |

Bounds, and why they are enough.

* `files`, `finish`, `machine`: sectors have 8 cells, an inode has 2 pointers
  (two inodes per sector), a scan ends after 4 unused entries, a drive has 22 or
  36 sectors of which 2 lie before the superblock. So a text of a few cells
  needs two blocks, one of 64 fills a pointer block, and two or three files
  reach every limit of the real geometry. The words and cells of a sector only
  have to be more than the entries of a superblock (6); what the code does at
  the last one is the same for 8 as for 128. Four commands (`files`) are the
  shortest histories in which the hazards of one or two names meet: create,
  write, delete and create again, with the cursor moved back by the delete; a
  third name adds nothing the search can tell apart. One loss of power reaches
  every prefix of every call, followed by a boot and by every command that is
  left; `finish` has two commands, or one and a loss of power. In `machine`, three events in all, commands, losses of power and runs of
  the tool, from drives of which each is blank, in use, or as `make` leaves it:
  put, copy and copy again; put, format and put; put, write and lose power.
  Only `machine` boots a drive whose size is not known, so only there do both
  values of `ProbeErrors` make a difference. With at most four commands on two
  names no gap of unused entries can arise in the inode table that is as long as
  a scan's limit: `NoFileHidden` is checked in `hidden` alone, where one can.
  `MaxCommands`, `MaxCrashes` and `MaxPuts` bound behaviours, not values: no
  cursor, size or block number is capped.
* `execution`: no number is scaled down. Three commands, from every set of
  bootable drives, let a pointer creep if it creeps; scripts are the manual's
  two examples, one with a jump back and a missing program, one with a chain in
  it, and one of ten statements, whose numbers have two digits; other lines have
  blanks or `$` where they are not expected. Two levels are all there are.
* `line`: two rows of four cells, of which the prompt takes one, lines of two
  characters, three if one is inserted inside; repetition after two polls and
  then one. Five scan codes suffice for two characters, an arrow, a character
  inside and a BACKSPACE or ENTER, on a line that wraps and scrolls.
* `editors`: a screen of three rows of three cells, texts that are empty, begin
  with a newline, or have two lines; three scan codes, repeated as long as they
  are held, so that the cursor goes to any byte and beyond the text. `hexedit`'s
  picture is five bytes in rows of two, of a buffer of seven, so that PGDN and
  PGUP scroll it.

`CHECK_DEADLOCK FALSE` is set where the bounds or the code stop the system:
`machine` and `copyhost` after their events, `execution` when no drive boots or
no command is left, the keyboard runs when the program has ended or no code is
left. In `files` and `finish` the shell can always `Look`.

Preconditions, each of them a place where the code does not do what the
property says, and is shown not to by a violated run or by section 5:

* `FilesInDataArea`, `FilesApart` and `SizeCoversText` are about files made on
  the machine from a superblock completed by an earlier boot (`UsedDisk`);
  `firstboot` shows what the first boot itself does.
* `SizeCoversText` is about names of one inode. A `file_create` that a loss of
  power cuts short can leave two of one name, of which `file_write` then takes
  size and text apart.
* `GeometryFits` exempts the size that a skipped probe leaves (section 5).
* `FilesApart` is about behaviours without a loss of power: `file_create` cut
  short leaves an inode behind whose pointer block is free again.
  `NamedFilesApart` is what remains true.
* `HostFilesIntact` asks for `sound`: no call cut short by the power, no cursor
  made up by a first boot of a drive without a size, no file that outgrew its
  pointer block (`spill`).
* `finish` takes failed lookups to return an invalid inode, drives to have room,
  and what `edit` is to write to be longer than 0: with a leftover inode, on a
  full drive, or with nothing to write, `edit` never comes back.
* `CopyArrives` asks for a right size of the source; `copyhost` has a wrong one.
* `MirrorsLine` and `ImplementsTextLine` ask for a 0 before the line's buffer
  (`Sound`), by which LEFT and BACKSPACE tell the start of the line. The line is
  taken to fit the screen (`LineAssumption`), and the bytes behind the buffer to
  be 0 at the call.
* `SaveCovers`, `EditsText` and what `HexExact` says of the bytes behind the
  selected one hold until `strayed`; that `hexedit` changes no byte before the
  selected one holds always. Inserting in `hexedit` is `strayed`: `hexinsert`.
* `EscEnds` counts a save that does not come back as an end.
* `RepeatsSpaced` allows the short delay to a key that has waited for the long
  one before, released since or not.
* A command line is taken to be shorter than `splice`'s 512 characters, and
  every quotation, `~` and `@` in it to be closed: `chain` reads on beyond the
  text otherwise.
* In `edit`, the byte before the buffer is taken to be 0 and the buffer to
  be followed by a newline at `LastByte`; an UP or DOWN that searches in front
  of the buffer is not modelled.
* `CommandReturns` is about scripts whose jumps go forward.

## 4. Fairness

Each is weak fairness of what the one processor does on its own: nothing
preempts it, so its next step is taken; that the drive answers is assumed with
it. What a user, the power or the host does is never fair.

* `ESFS!FairSpec`: `Step`, everything once a command has been typed.
  `CommandsFinish` says that loops over pointers, words and the retry of `edit`
  end.
* `Execution!FairSpec`: `Step`, everything but `Type`. `CommandReturns`.
* `LineEditor!FairSpec` and `Editors!FairSpec`: `Poll`, the loop. `EnterEnds`
  and `EscEnds` say that a key held down long enough is seen although the code
  skips polls while a key is held: the counters never get stuck.

## 5. What the runs show of the code

* `resave`. `get_file_info` (`fs.c:128-180`) has no return at its end. In the
  unoptimised 32-bit build the caller's result slot still holds the inode of
  `file_delete`'s lookup, so `hexedit` saving a file a second time deletes it,
  is refused by `file_create` (`fs.h:24` says: 1 if the file exists), and writes
  nothing. `edit` then repeats its three calls for ever (`edit.c:132-140`).
* `spill`. At the last word of a pointer block, `fs.c:489-493` replaces the
  inode's pointer where it should set the next. `fs.c:418` promises an
  arbitrary amount of data.
* `firstboot`. `init_fs` (`fs.c:52-55`) searches from block 0. `fs.c:227`
  speaks of all possible data blocks.
* `hidden`. Scans end at a gap of unused entries (`fs.c:150`, `247`, `369`);
  `manual.txt:211` says that `list` lists all the files.
* `copyhost`. The host tool records the size of the data alone
  (`ESFS_raw_write.c:417`), the machine takes it to include the name, and
  `file_read` counts the name among what it reads: the last characters of
  a file from the host do not arrive. `manual.txt:120` copies LICENSE, which
  the build puts there, as its example.
* `hexinsert`. The loop that makes room (`hexedit.c:162`) stops one byte early:
  the selected byte is overwritten. `hexedit.c:46` promises "i: insert byte".

Further behaviour that the models have and no run is kept for.

* On the drives: `del` reports success for a missing file (`del.c:11`); `copy`
  appends to an existing destination; if the probe of the drive's size is
  skipped because the unassigned `ATA_err` is not 0 (`fs.c:25`), the size is 0
  minus the reserved sectors and wraps, and the superblock counts millions of
  blocks that the drive does not have; on a full disk `file_create` returns 0
  without a file; formatting does not make old data blocks free; formatting over
  foreign data can leave a superblock without blocks; a pointer block is lost
  with each deleted file (that it is one at most is `LeakBounded`); every save
  of an editor adds a NUL to the recorded size.
* In `edit`: at byte 0 the first character is overwritten instead of pushed on
  (`edit.c:152`, an unsigned 0 minus 1); a newline in the last column shifts the
  rows below; UP in a file that begins with a newline does not come back to the
  line it left; a save with nothing to write, or on a full drive,
  repeats for ever.
* In `view`: the line in its arguments (`manual.txt:256`) is not looked at.
* In `hexedit`: `prev_keycode` and `status` are not initialised
  (`hexedit.c:76-77`), a `status` of 1 ends it at once; DOWN does nothing from the
  last two bytes of the row before the last (`hexedit.c:140`).
* Keys: `cached_prev_keycode` outlives the release of a key, so a second press
  of a key that had repeated repeats after the short delay; SHIFT held across
  the end of a line is forgotten.
* `chain`'s `main` is void: its exit status is what the last comparison left.
* `splice` keeps a delimiter with nothing behind it (`strings.c:56`): a blank
  behind the name of a program makes `execute` look for a program of that name,
  and `drive 1` with a blank behind it asks for drive 250. A `chain` line without
  a blank runs nothing.

## 6. Proofs

All theorems hold for every value of the constants under the modules' named
assumptions, which TLC evaluates in the runs. `DiskAssumption`: a sector
before the superblock and two from it on, a sector that holds a superblock and
a whole number of inodes, positive counts. `ESFSAssumption` and
`MachineAssumption` type the drives, commands, disks and host files.
`OwnershipAssumption`: the drives have the blocks that their superblocks count, and
the names typed are shorter than a sector and hold no NUL.
`ExecutionAssumption`: free memory starts at a page or above, `execute` takes
off the program's size and a page, `chain` allocates a buffer. `Fits` says that
kernel, programs and buffers, laid out from their places on, end below the
stack: no code ensures it, it is checked for the present build's sizes
(`SizesFit` in `MCExecution`), and it is a hypothesis of `StaysBelowStack` alone.
`ScriptAssumption`: statements are numbered from 1, as the manual says, no text
in them holds a `$`, and no program is called like a mark. `HoldAssumption`:
the short delay is the shorter. `LineAssumption`, `BufferAssumption` and
`HexAssumption`: names of the special keys are no characters', texts fit the
buffer. `LettersAssumption`: the scan codes of letters are not those of the
special keys.

| Module | Theorem | Statement |
|---|---|---|
| `ESFS_proofs` | `Invariance`, `TypeCorrect` | `Spec => []IInv`, `Spec => []TypeOK` |
| | `BootSectorSafe` | `Spec => BootSectorKept`: no step writes sector 0 of any drive, whatever the disks hold at the start |
| `Machine_proofs` | `FormatLeavesKernel` | `Spec => FormatKeepsKernel`: formatting writes nothing before the superblock |
| | `OwnershipKept` | `SparedSpec => []Owned`: at every point of every call, each block of each drive is claimed by one file at most, and all claims lie in the data area |
| | `FilesStayApart` | `SparedSpec => []FilesApart` |
| | `FilesStayInDataArea` | `SparedSpec => []FilesInDataArea` |
| | `WritesComplete` | `SparedSpec => WriteComplete`, if always `WordsSuffice` |
| `Sectors_proofs` | `KernelStays` | `SparedSpec => KernelKept` |
| | `CursorStaysPersisted` | `SparedSpec => []CursorPersisted`, with a single drive |
| | `FormatWipesAll` | `SparedSpec => FormatWipes` |
| | `DeletesReclaim` | `SparedSpec => DeleteReclaims`, if `BootNoData` and always `ScanEnds` |
| | `LeakStaysBounded` | `SparedSpec => []LeakBounded`, for `Unformatted` commands and no `write` in `StaleCalls`, from `NothingLost` and `OnePointer` on and if always `SavesOnce` |
| `ESFSStore_proofs` | `StoreRefinement` | `StoreSpec /\ SparedSpec => ImplementsFileStore`: `ESFS` refines the abstract store, for `TypedText`, `FilesPacked` and `BlocksClean`, if always `WordsSuffice` and `HalfMade` |
| | `SizesStayCovered` | `SparedSpec => []SizeCoversText`, under the same hypotheses, from `SizesCover` on and if always `SizesFit` |
| | `CreatedFilesThere` | `SparedSpec => CreatedFileThere`, under the hypotheses of `StoreRefinement` |
| `Execution_proofs` | `MemoryInvariance` | `Spec => []MemoryInv` |
| | `NothingOverlaps` | `Spec => []AreasApart` |
| | `ProgramsAtSamePlace` | `Spec => []SamePlace` |
| | `ClearedIsDead` | `Spec => ClearsOnlyDead` |
| | `TypeCorrect` | `Spec => []TypeOK` |
| | `StaysBelowStack` | `Spec => []BelowStack`, if `Fits` |
| | `ChainFollowsManual` | `Spec => ImplementsChainScript`: `chain` refines the manual's script language, for all scripts of any length |
| `LineEditor_proofs` | `HeldInvariance` | `Spec => []HeldInv` |
| | `HeldEnter` | `Spec => OneEnterOneLine` |
| | `RepetitionSpaced` | `Spec => RepeatsSpaced`: the long delay, or the short one for the key in `cached_prev_keycode` |
| | `LineInvariance` | `Spec => []LineInv` |
| | `ScreenMirrorsLine` | `Spec => []MirrorsLine` |
| | `LineImplementsText` | `Spec => ImplementsTextLine`: `kbd_readline` refines the abstract editor |
| `Editors_proofs` | `EditorsInvariance` | `Spec => []EditorInv` |
| | `SavesCover` | `Spec => []SaveCovers` |
| | `HexExactly` | `Spec => HexExact`: nothing before the selected byte changes, and but for inserting nothing behind it |
| | `EditFollowsText` | `Spec => EditsText`: as long as the cursor is in the text, `edit` is the abstract editor |
| | `UpLeadsAbove` | `Spec => UpThenDown` |
| | `ScreenShowsText` | `Spec => []RowsShown`: what `print_text_buffer` draws, for every screen, text and first row |

The arguments.

* `ESFS`. `TypeOK` is not inductive, because actions index arrays by locals set
  several steps before. `IInv` adds `CallPending` (inside a call, the program
  still has it on its list, whose head `Return` takes), `BufferLongEnough` (what
  `file_write` has still to write is in the program's buffer, so filling a block
  never reads beyond it) and `PlacesSet` (wherever a write takes its place from
  a local, that local is not 0). The last carries `BootSectorKept`: blocks come
  from `Allocate`, which never returns 0 (`AllocateNotZero`) although the
  search may start at block 0 and return its loop variable when it fails;
  deletes write only where a word of the pointer block is set; `file_write`
  follows only pointers that are set. `FormatKeepsKernel` follows from the same
  invariant: `FormatSuperblock` and `FormatInodes` write from the superblock on.
* `Ownership`. For arbitrary disks `FilesApart`, `FilesInDataArea` and `KernelKept` are
  false: they need that the pointers on the drives are good. `SparedSpec` is
  the specification restricted to behaviours that start with drives in use (`InUse`:
  a superblock that records the size and a cursor in the data area, no block
  claimed twice, no name used twice) and in which no step does one of
  the things that take the separation of files away (`Spared`):
  a loss of power in a call; inodes hidden behind a gap or taken for one behind
  the table (`EntriesShown`, the precondition `hidden` shows to be needed); a full
  drive (`BlockFound`: `allocate_data_block` has a block to return); a text that
  outgrows its pointer block (`pc' # "chain"`, what `spill` shows). The number and
  size of drives, inodes and pointer blocks, the commands, and the leftovers of
  failed lookups are arbitrary, and nothing bounds the length of a behaviour but
  `MaxCommands`, any number.
  `Owned` says at each `pc` which blocks are claimed, and by whom. An inode that
  `file_create` is making is no file yet (`Settled`): its pointer block holds the inode's sector, only for the second
  search to pass over it, then nothing, then the data block's number. `InCreate`
  follows the two blocks from the searches to the name (`fs.c:311-357`). `InHand` is
  about the inode a failed lookup leaves: it is the one of a file, or a `Ghost`,
  whose blocks are no file's any more, so that deleting it a second time, as `del` and
  `hexedit` can, hurts nobody. `InDelete` and `InWrite` tie the pointer
  block in the call's buffer to the one on the drive.
  The step that matters is `FreeUnclaimed`: what the search returns is claimed
  by no file. A data block is skipped because a pointer block names it. A pointer block
  is never compared with, and is skipped because it does not look
  empty: its first word is set (`WellFormed`). `FreeUnclaimed` needs the file's inode
  to be reached by the scan, hence `EntriesShown`.
  From `Owned` the properties follow: `SeparateApart` for files at the shell,
  `KernelStays` because every write goes to the superblock, the table or a claimed
  or free block of the data area. `FormatWipesAll` needs `Cleared`, the part of the
  table that is wiped so far. `CursorStaysPersisted` needs `CursorSaved` between
  calls. It asks for a single drive because the cursor is one for all of them.
  It would be false on a full drive, and where the cursor may be 0: there
  `file_create` without a free inode moves the cursor and does not save it.
  `DeletesReclaim` needs `Wiped`: what the words passed so far name is clear, and
  the cursor to be saved is not behind it (`Gone`). That the search then finds the
  blocks is `Owned` once more: the inode in hand is a `Ghost`, so no file names a
  block of it. Two things remain that `Owned` does not say. The search scans one
  null entry further than the lookups, and must not take an inode from behind the
  table there (`ScanEnds`). And it follows a pointer that is not set to sector 0, so no
  word of the boot sector may be the number of a data block (`BootNoData`, needed of the
  first state only, because no step changes that sector).
  `WritesComplete` needs `Counted`: written and left are together what was to be
  written, and the loops end when none is left. The first pointer is set because what
  `file_write` has in hand is well formed; the loops do not run out of words by
  hypothesis (`WordsSuffice`; `spill` is about the texts for which they do).
  `LeakStaysBounded` counts. A block is `Lost` if it looks used, no settled file claims
  it, and no running call owes it to anybody (`Owed`): `file_create` owes the
  pointer block of the file it makes, `file_delete` the blocks named by the pointer block
  it reads. Every step but one loses nothing (`NoMoreLost`): a block that gets full is
  claimed or owed by then, one that stops being claimed is owed, and one that stops
  being owed is claimed or empty, which for a deletion is `Wiped`. The step that ends a
  file in the table loses its pointer block: the words of it are owed, not the block
  that holds them, and an inode has one of those by `OnePointer`. As a delete comes first
  in a command (`Scripted`), a command loses one block at most. `edit` goes back to its
  delete when the save fails (`edit.c`, `goto SAVE`), which `SavesOnce` excludes;
  a file of two pointer blocks would lose both; formatting empties the table and leaves
  every block of every file behind; and a `file_write` into the file of another call
  could give that one a second pointer block (`NamedWrite`).
  Before the proof, the parts of this invariant were checked on the instance of
  `ESFS_owned.cfg` without `format` and with hypotheses as here, and hold there.
  TLC checks `Owned` under `SparedSpec` on an instance of `files` with `edit`, `copy`
  and `format` (`ESFS_owned.cfg`, 17,891 states), and was used so, on two drives and on
  a drive with gaps, before the proof; on the same instance `Wiped`, `Counted` and the
  three hypotheses of the last two theorems were checked, and all hold there.
* `ESFSStore`. A text is spread over the words of many sectors, reached over two
  levels of pointers. `Holds(dk, ino, m, n, t)` says that the first `m` words of an inode's first
  pointer block are set, and the others of its words and pointers are not, and that the
  blocks hold `Content(n, t, .)`: the name, a NUL, the text, and NULs to the end.
  `HeldText` shows once what the folds of `Text` make of that, and the proof goes on
  with `Holds` alone. `FilesPacked` and `BlocksClean` say that drives start
  so: every file holds a text, and a block that looks empty is (the search does not
  look at the last of the 128 words). `StoreInv` keeps it: `Intact` is both of these with
  the context of `Owned`, `CopyMade`, `FormatsShown` and `JobKnown` say what a
  half-made file, a half-wiped table and the running call look like, and
  `WritePlace` that `file_write` stands behind the text written so far. `Seeing`
  concludes that a lookup by name sees exactly the files that `Settled` has; so each
  step either leaves all of them alone (`SameFiles`: it writes a superblock, a
  part of the table that keeps its inodes, or blocks no file claims), or does to one what
  `FileStore` says: `CreateName` makes it, the write that ends a delete in the table
  removes it, `WriteHoles` and `WriteNew` lengthen it, `FormatInodes` forgets those of
  one sector. `StepMake`, `StepRemove`, `StepExtend`, `StepClose`,
  `StepFormat` and `StepShell` map the actions one by one.
  What it asks for: `TypedText`, texts hold no NUL; no `write` in `StaleCalls`, as a
  `file_write` that takes the inode of the call before writes into another file;
  `WordsSuffice`, as above; `HalfMade`, which says two things of a `file_create`
  in the middle of its writes. The name of the half-made file, read through blocks it
  has not filled yet, is none a program uses. And while its first block holds the
  inodes' sector, a scan that runs beyond the table finds such inodes in that block only.
  The first holds unless a sector that the bytes of an inode happen to number begins with
  such a name, the second on every drive whose data area does not begin with a copy of
  inodes. Neither is ensured by code.
  The sizes: `SizeInv` says of every settled file that the size on record covers its
  text, and of the file being written that the size in hand and the bytes `left` make
  room for the text on the drive and the text still to come (`SizeRoom`). It fails, as
  the code does, where a program passes a negative size, as `copy` of a
  missing file does, or where the size outgrows an `int`; `SizesFit` excludes the two.
  `CreatedFileThere` needs that the step that makes a file visible is the one before
  the superblock is saved (`MadeEmpty`). TLC checks the parts of `Intact` that speak of
  ownership under `ESFS_owned.cfg`; before the proofs, all of `StoreInv`, `SizeInv` and the
  hypotheses were checked on that instance, and hold there.
* `Execution`. That no two areas overlap is not inductive: after a program has
  returned, the caller's pointer has been lowered below the end of its own last
  buffer. `MemoryInv` says what holds instead. `Held(l)`: for a level that waits
  for a program, the program lies right below its pointer, at the page behind
  everything older. `Ready(l)`: every area ends at or below the *place* the next
  `malloc` would choose, although not below the pointer; it holds after the
  release because `Place(at - PageSize)` is `at` again for an aligned `at`, which
  is why 54096 must be 50000 and a page. `Owns` says when the running level has a
  pointer of its own, `Shell` where the kernel's stands, `Control` and `Types`
  where the processor is. `ProgramsAtSamePlace` is then exact for every size of
  kernel and program. `TypeOK` needs `Values` besides: what `Splice` and `Atoi` make
  of any line is a text and a number again, by the lemmas on folds. `BelowStack`
  needs `StackInv`: the pointer of a level that is allocating is `Ends` of the
  sizes it has asked for so far, and the last of them is what `Fits` bounds.
* `ExecutionChain`. The mapping reads a script off the line by which `Line` writes
  it, so the proof goes through the text. `LineLaid` gives, for a script of any
  length, the positions of the `$` in its line; `LinePieces` concludes that
  `Splice` at the k-th `$` yields statement k as it was written, and `ReadPrint`,
  `ReadGoto`, `ReadIf` and `ReadRun` that `chain` takes it for what it is;
  `DecimalRead` that `Atoi` reads back the number `Decimal` wrote, by induction on
  the number. `ChainInv` says of the state: the
  system drive is the first that boots (`Booted`); `i` is the number of the
  statement that is executed, `cmd` is that statement as written, and while a program of
  `chain` runs the statement is the `run` of that program and `i` stays (`Following`).
  `ManualStep` then maps each action to the manual's step or to
  a stutter.
* `LineEditor`. `HeldInv`: as long as the previous code is known,
  `hold_iterations` counts the polls since it was taken; once it has been
  forgotten, the polls of a first repetition have gone by, or those of a further
  one and the code is the one in `cached_prev_keycode`. And for the ENTER a line
  begins with, `cached_prev_keycode` is none, so that the short delay is not for
  it (`FirstEnter`). `HeldEnter` and `RepetitionSpaced` read off this. `MirrorsLine`
  needs `LineInv`: the line in the buffer has an end `e`, characters before it and
  NULs from it to the buffer's last byte (`LineTo`), and the same characters stand
  on the screen from the cell `i` before the cursor on, however often it has
  scrolled (`Shown`). `kbd_readline` redraws the rest of a line by printing it and
  stepping back; `PrintedRun` and `PrintedBackRun` say what a run of prints leaves,
  of any length and across wraps and a scroll. `ImplementsTextLine` needs no more
  than what each key does to `LineTo`.
* `Editors`. `EditorInv`: until `strayed`, there is nothing but 0 behind the text
  up to the modelled end of the buffer (`Covered`), so a byte moved in from behind
  is 0 and the size kept by hand stays right; and the byte `hexedit` has selected
  is in its picture (`Selected`). One lemma per way a text changes (`Removed`,
  `InsertCovers`, `EraseCovers`, ...), one per action.
  `EditsText` needs `CursorInv` besides: the cursor is `selected` characters from
  the start of the first row shown, and there is a newline behind the text for
  DOWN to find. `actual_selected_char` is found anew from the rows after each edit, so
  the proof needs that an edit does not move the row it is counted from:
  `RowStartSame` says that a row's start depends on nothing behind it, and an insertion
  or erasure that is not `strayed` is behind it (`RowKept`). `InsertKey`, `EraseKey`
  and `MoveKey` then give the step of `TextLine` for each key. `UpLeadsAbove` is
  about the two loops of UP and DOWN: `UpTargetIs` says which newline UP stops
  behind, `LineStartIs` and `BelowIs` that it begins the line above. `RowsShown`
  is a fold of folds: `Shot(p)` is the screen that is right up to cell `p` and blank from
  there on, `CellDrawn` goes from `Shot(p)` to `Shot(p + 1)`, `RowLeft` says where a
  newline leads, `RowDrawn` and `AllDrawn` do a row and all rows. It shows
  where the condition on `edit` is needed: the space it draws for a newline in
  the last column has already wrapped when the newline is printed.

Induction over data. The theorems of the library that take an operator as a
parameter cannot be instantiated here. `SequenceFacts` does without: its constant
`Op` is what is folded, an instance of the module per operation gives the
lemmas for it, and a set of numbers takes the place of the predicate (`UpTo`,
`LeastNatural`). `RecursionOnNat` unfolds a recursive function on the numbers.

Only model-checked. `NamedFilesApart`, which differs from `FilesApart` only after a
loss of power, and what `FilesInDataArea`, `KernelKept` and
`CursorPersisted` say of behaviours with a loss of power or a full drive, and of two
drives. What `SizeCoversText`, `CreatedFileThere` and the refinement of `FileStore` say
after a loss of power or on a full drive. `NoFileHidden`, false in general (`hidden`).
`LeakBounded` where a command formats or a save is repeated, and `CopyArrives`.
`GeometryFits`: the theorems start from superblocks that are right
(`OwnershipAssumption`), TLC from the probe, done or skipped. The host tool, with `HostFilesIntact`
and `HostKernelKept`.
Out of the prover's reach: the liveness properties `CommandsFinish`,
`CommandReturns`, `EnterEnds` and `EscEnds`.

## 7. Plan

1. Proofs: `CopyArrives` from `StoreInv`; what is left
   of `Owned` after a loss of power, for `NamedFilesApart`; the host tool.
2. The loader's search for the kernel, from every image the build and the
   programs can leave; how much of a program's file `execute` reads.
3. Drives of different size under `copy`; foreign data under `format`.
4. Lines beyond `splice`'s 512 characters, and statements whose second mark is
   missing; the arguments of the file programs taken apart by `Splice`.

## 8. Not modelled

Graphics and the printing of numbers: output, on which nothing else depends.
The timer: its tick only calibrates the terminal, and `sleep` has no caller.
Interrupt descriptor tables and assembly stubs, the boot sector: executed once,
no shared state. `htoi`, `strcmp` and `strlen`: the arguments of file programs come
taken apart, names are compared as wholes.
The ATA register protocol: its waits depend on the hardware alone. Build
scripts: what they leave on the image is an initial state of `Machine`. The
loader's search for the kernel's header: it reads sectors until it finds one.
`hexedit`'s picture, and what `list`, `read`, `drives`, `cls`, `color` and
`drawline` draw.
