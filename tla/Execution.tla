------------------------------ MODULE Execution ------------------------------
(***************************************************************************)
(* How SystemZero runs programs.  The loader puts the kernel into memory,  *)
(* the kernel's shell executes the programs the user names, and chain, a   *)
(* program itself, executes those its script names.  There is no memory    *)
(* protection and no list of free memory: whoever calls malloc has a free  *)
(* pointer of its own (every program is linked with its own copy of mem.c  *)
(* and of ata.c), and execute hands the caller's on in env_vars.  Level 0  *)
(* is the kernel, level 1 a program it runs, level 2 a program chain runs. *)
(***************************************************************************)
EXTENDS CommandLine

CONSTANTS
    FirstFree,    \* 0x10000, what mem.c starts with
    EnvSize,      \* the bytes of env_vars_t
    KernelSize,   \* 40000
    ProgramSize,  \* 50000
    Release,      \* 54096, what execute takes off its free pointer
    Cleared,      \* 200000, the bytes execute clears (50000 words)
    StackTop,     \* 0x90000: the stack grows down from here
    StackSize,    \* what is left to it
    Drives,       \* the drives that are present
    ProgramsOn,   \* ProgramsOn[d]: the programs on drive d
    Buffers,      \* Buffers[p]: the sizes program p allocates
    Commands,     \* the lines the user may type
    MaxCommands   \* bound: commands in a behaviour

Page == 4096

Programs == DOMAIN Buffers

ASSUME ExecutionAssumption ==
    /\ FirstFree \in Nat /\ FirstFree >= Page
    /\ EnvSize \in Nat /\ KernelSize \in Nat
    /\ ProgramSize \in Nat /\ Release = ProgramSize + Page
    /\ Cleared \in Nat /\ StackTop \in Nat /\ StackSize \in Nat
    /\ Drives \subseteq 0 .. 3
    /\ ProgramsOn \in [Drives -> SUBSET Programs]
    /\ Programs \subseteq STRING
    /\ \A p \in Programs : Buffers[p] \in Seq(Nat)
    /\ Buffers["chain"] # <<>>  \* it takes over the free pointer
    /\ Commands \subseteq Seq(STRING)
    /\ MaxCommands \in Nat

VARIABLES
    bootable,  \* the drives whose first sector ends in 0xAA55
    pc,        \* what the processor is at
    depth,     \* the level that is running
    free,      \* free[l]: free_mem_addr of level l
    envfree,   \* env_vars.free_mem_ptr
    areas,     \* the memory in use: who uses it, from where, to where
    got,       \* how many of its buffers the running program has
    system,    \* env_vars.system_drive
    selected,  \* env_vars.selected_drive
    drive,     \* drive[l]: the drive level l has selected
    call,      \* what is being executed: its name, its line
    name,      \* name[l]: the program of level l
    input, i,  \* chain's line and the number of its statement
    cmd,       \* the statement
    status,    \* status[l]: what the last program level l ran returned
    commands

memory == <<free, envfree, areas, got>>
drives == <<system, selected, drive>>
chain  == <<input, i, cmd>>
vars   == <<bootable, pc, depth, free, envfree, areas, got, system, selected, drive, call,
            name, input, i, cmd, status, commands>>

Levels == 0 .. 2
NoCall == [cmd |-> <<>>, args |-> <<>>]

Floor(address) == address - (address % Page)

(* malloc: where it places an aligned area.  A free pointer that is        *)
(* aligned moves a page up as well.                                        *)
Place_Down(address) == Floor(address)  \* a mistake: the page not added
Place(address) == IF address >= Page THEN Floor(address) + Page ELSE address

Area(l, from, size) == [level |-> l, from |-> from, to |-> from + size]

Init ==
    /\ bootable \in SUBSET Drives
    /\ pc = "loader" /\ depth = 0
    /\ free = [l \in Levels |-> FirstFree] /\ envfree = FirstFree
    /\ areas = {} /\ got = 0
    /\ system = 0 /\ selected = 0 /\ drive = [l \in Levels |-> 0]
    /\ call = NoCall /\ name = [l \in Levels |-> ""]
    /\ input = <<>> /\ i = 0 /\ cmd = <<>>
    /\ status = [l \in Levels |-> 0] /\ commands = 0

-----------------------------------------------------------------------------
(* The loader, which is its own program, and kmain up to the shell.        *)

EnvPlace    == Place(FirstFree)
KernelPlace == Place(EnvPlace + EnvSize)
KernelFree  == KernelPlace + KernelSize

Load ==
    /\ pc = "loader" /\ bootable # {}
    /\ areas' = {Area(0, EnvPlace, EnvSize), Area(0, KernelPlace, KernelSize)}
    /\ envfree' = KernelFree /\ free' = [free EXCEPT ![0] = KernelFree]
    /\ selected' = Min(bootable) /\ system' = Min(bootable)
    /\ drive' = [drive EXCEPT ![0] = Min(bootable)]
    /\ pc' = "prompt"
    /\ UNCHANGED <<bootable, depth, got, call, name, chain, status, commands>>

Halt ==
    /\ pc = "loader" /\ bootable = {}
    /\ pc' = "halted"
    /\ UNCHANGED <<bootable, depth, memory, drives, call, name, chain, status, commands>>

(* The shell selects the user's drive before it reads a line, and executes *)
(* what comes first in it.                                                 *)
Type(line) ==
    /\ pc = "prompt" /\ commands < MaxCommands
    /\ commands' = commands + 1
    /\ call' = [cmd |-> Splice(line, 0, " "), args |-> line] /\ pc' = "execute"
    /\ drive' = [drive EXCEPT ![0] = selected]
    /\ UNCHANGED <<bootable, depth, memory, system, selected, name, chain, status>>

-----------------------------------------------------------------------------
(* execute, in the kernel and in chain                                     *)

(* The drive execute looks for programs on.                                *)
SearchDrive == system
Found == call.cmd \in {<<p>> : p \in ProgramsOn[SearchDrive]}

Caller_Shell(l) == "prompt"  \* a mistake
Caller(l) == IF l = 0 THEN "prompt" ELSE "next"

(* No such file, or no ELF file.  In the first case execute falls off its  *)
(* end; the register still holds the 2 that file_read has returned.  That  *)
(* file_read says so is taken from the code's intent: a lookup that finds  *)
(* nothing may return an earlier inode (fs.c:180), as ESFS has it.         *)
Missing ==
    /\ pc = "execute" /\ ~Found
    /\ drive' = [drive EXCEPT ![depth] = SearchDrive]
    /\ status' = [status EXCEPT ![depth] = 2]
    /\ pc' = Caller(depth)
    /\ UNCHANGED <<bootable, depth, memory, system, selected, call, name, chain, commands>>

Execute ==
    /\ pc = "execute" /\ Found
    /\ LET at == Place(free[depth])
       IN  /\ free' = [free EXCEPT ![depth] = at + ProgramSize,
                                   ![depth + 1] = FirstFree]
           /\ envfree' = at + ProgramSize
           /\ areas' = areas \union {Area(depth + 1, at, ProgramSize)}
    /\ drive' = [drive EXCEPT ![depth] = SearchDrive]
    /\ depth' = depth + 1 /\ got' = 0
    /\ name' = [name EXCEPT ![depth + 1] = call.cmd[1]]
    /\ pc' = "start"
    /\ UNCHANGED <<bootable, system, selected, call, chain, status, commands>>

(* Programs without files select no drive, and drive only what it asks for.*)
Driveless == {"cls", "color", "drawline", "drive"}

(* A program with files selects its drive, and one that allocates takes    *)
(* over the free pointer.                                                  *)
Start ==
    /\ pc = "start"
    /\ drive' = IF name[depth] \in Driveless THEN drive
                ELSE [drive EXCEPT ![depth] = selected]
    /\ free' = IF Buffers[name[depth]] = <<>> THEN free
               ELSE [free EXCEPT ![depth] = envfree]
    /\ pc' = "alloc"
    /\ UNCHANGED <<bootable, depth, envfree, areas, got, system, selected, call, name, chain,
                   status, commands>>

Malloc ==
    /\ pc = "alloc" /\ got < Len(Buffers[name[depth]])
    /\ LET at   == Place(free[depth])
           size == Buffers[name[depth]][got + 1]
       IN  /\ areas' = areas \union {Area(depth, at, size)}
           /\ free' = [free EXCEPT ![depth] = at + size]
    /\ got' = got + 1
    /\ UNCHANGED <<bootable, pc, depth, envfree, drives, call, name, chain, status, commands>>

Allocated == pc = "alloc" /\ got = Len(Buffers[name[depth]])

(* What execute gets back when the program of level l returns.  It clears  *)
(* the program and more, and lowers its free pointer.                      *)
Lowered_Whole(address) == address - ProgramSize  \* a mistake: the page forgotten
Lowered_Never(address) == address  \* a mistake: nothing given back
Lowered(address) == address - Release

ReleaseTo(l, value) ==
    /\ free' = [free EXCEPT ![l] = Lowered(@)]
    /\ envfree' = Lowered(free[l])
    /\ areas' = {a \in areas : a.level <= l}
    /\ status' = [status EXCEPT ![l] = value]
    /\ depth' = l /\ pc' = Caller(l)

(* The programs but chain and drive: whatever they do, they return 0 or 1. *)
Work ==
    /\ Allocated /\ name[depth] \notin {"chain", "drive"}
    /\ \E value \in {0, 1} : ReleaseTo(depth - 1, value)
    /\ UNCHANGED <<bootable, got, drives, call, name, chain, commands>>

(* drive selects the drive it asks for also when there is none.            *)
Asked == Atoi(Splice(call.args, 1, " ")) % 256
DriveProgram ==
    /\ Allocated /\ name[depth] = "drive"
    /\ selected' = IF Asked \in Drives THEN Asked ELSE selected
    /\ ReleaseTo(depth - 1, IF Asked \in Drives THEN 0 ELSE 1)
    /\ drive' = IF Asked \in 0 .. 3 THEN [drive EXCEPT ![depth] = Asked] ELSE drive
    /\ UNCHANGED <<bootable, got, system, call, name, chain, commands>>

-----------------------------------------------------------------------------
(* chain.  There is a next statement if there is text behind the next $ of *)
(* its line; the statement is taken from what is behind the first blank.   *)

More == Splice(input, i, "$") # <<>>

ChainStart ==
    /\ Allocated /\ name[depth] = "chain" /\ depth = 1
    /\ input' = call.args /\ i' = 1 /\ cmd' = <<>>
    /\ status' = [status EXCEPT ![1] = 0] /\ pc' = "chain"
    /\ UNCHANGED <<bootable, depth, memory, drives, call, name, commands>>

Take ==
    /\ pc = "chain" /\ More
    /\ \E raw \in {SubSeq(input, From(input, 1, " "), Len(input))} :
       \E piece \in {Splice(raw, i, "$")} : cmd' = Before(piece, "$")
    /\ pc' = "statement"
    /\ UNCHANGED <<bootable, depth, memory, drives, call, name, input, i, status, commands>>

(* Texts and the numbers of jumps are between marks.  The second mark is   *)
(* taken to be there: it would be sought beyond the text.                  *)
Marks == {"\"", "~", "@"}
Marked(mark) == pc = "statement" /\ cmd # <<>> /\ cmd[1] = mark
buff == Before(Tail(cmd), cmd[1])

PrintText ==
    /\ Marked("\"") /\ pc' = "next"
    /\ UNCHANGED <<bootable, depth, memory, drives, call, name, chain, status, commands>>

(* A jump sets i one too low, for i++ is still to come.                    *)
Target_Exact(text) == Atoi(text)  \* a mistake
Target(text) == Atoi(text) - 1

JumpIf ==
    /\ Marked("~") /\ pc' = "next"
    /\ i' = IF status[1] = Atoi(Splice(buff, 0, ":")) THEN Target(Splice(buff, 1, ":")) ELSE i
    /\ UNCHANGED <<bootable, depth, memory, drives, call, name, input, cmd, status, commands>>

Jump ==
    /\ Marked("@") /\ pc' = "next"
    /\ i' = Target(buff)
    /\ UNCHANGED <<bootable, depth, memory, drives, call, name, input, cmd, status, commands>>

Run ==
    /\ pc = "statement" /\ (\A mark \in Marks : ~Marked(mark)) /\ pc' = "execute"
    /\ call' = [cmd |-> Splice(cmd, 0, " "), args |-> cmd]
    /\ UNCHANGED <<bootable, depth, memory, drives, name, chain, status, commands>>

Increment_Never(n) == n  \* a mistake
Increment(n) == n + 1
Next1 ==
    /\ pc = "next" /\ pc' = "chain" /\ i' = Increment(i)
    /\ UNCHANGED <<bootable, depth, memory, drives, call, name, input, cmd, status, commands>>

(* main is void: execute finds 0 in the register, the last strcmp's result.*)
(* What chain runs has no $ in its line, a chain in a chain no statement.  *)
ChainEnd ==
    /\ \/ pc = "chain" /\ ~More
       \/ /\ Allocated /\ name[depth] = "chain" /\ depth = 2
          /\ Splice(call.args, 1, "$") = <<>>
    /\ ReleaseTo(depth - 1, 0)
    /\ UNCHANGED <<bootable, got, drives, call, name, chain, commands>>

Chain == ChainStart \/ Take \/ PrintText \/ JumpIf \/ Jump \/ Run \/ Next1 \/ ChainEnd

Step == Load \/ Halt \/ Missing \/ Execute \/ Start \/ Malloc \/ Work \/ DriveProgram
        \/ Chain

Next == Step \/ \E line \in Commands : Type(line)
Spec == Init /\ [][Next]_vars

(* One processor: what it can do next it does.                             *)
FairSpec == Spec /\ WF_vars(Step)

-----------------------------------------------------------------------------
Names == Programs \union {""}  \* no program is loaded yet at that level

TypeOK ==
    /\ bootable \subseteq Drives
    /\ pc \in {"loader", "halted", "prompt", "execute", "start", "alloc", "chain", "statement",
                "next"}
    /\ depth \in Levels /\ (pc \in {"loader", "prompt"} => depth = 0)
    /\ free \in [Levels -> Int] /\ envfree \in Int
    /\ areas \subseteq [level : Levels, from : Nat, to : Nat]
    /\ got \in Nat
    /\ system \in Nat /\ selected \in Nat /\ drive \in [Levels -> Nat]
    /\ call \in [cmd : Seq(STRING), args : Seq(STRING)]
    /\ name \in [Levels -> Names]
    /\ input \in Seq(STRING) /\ i \in Int /\ cmd \in Seq(STRING)
    /\ status \in [Levels -> 0 .. 2] /\ commands \in 0 .. MaxCommands

Apart(a, b) == a.to <= b.from \/ b.to <= a.from

(* No two pieces of memory in use overlap: a program is never loaded over  *)
(* the kernel, over chain or over a buffer of chain, nor given a buffer    *)
(* there.  The caller's free pointer may lie below the end of its own last *)
(* buffer after execute has lowered it; malloc must never hand out the     *)
(* rest of that page.                                                      *)
AreasApart == \A a \in areas, b \in areas : a # b => Apart(a, b)

(* Lowering the free pointer takes back exactly what malloc took, the      *)
(* rounding included, so that the shell loads every program at the same    *)
(* address: memory does not creep towards the stack as commands are typed. *)
SamePlace ==
    depth > 0 => \E a \in areas : /\ a.level = 1 /\ a.from = Place(KernelFree)
                                  /\ a.to = a.from + ProgramSize

(* The buffer of an editor that chain runs, the deepest there can be, ends *)
(* below the stack, and so does what execute clears.                       *)
BelowStack ==
    /\ \A a \in areas : a.to + StackSize <= StackTop
    /\ depth > 0 => free[depth - 1] - ProgramSize + Cleared + StackSize <= StackTop

(* What the sizes must be for that, chain in the place of the shell        *)
(* included.  Reach: where buffers of these sizes end.                     *)
Reach(from, sizes) == FoldLeft(LAMBDA at, size : Place(at) + size, from, sizes)

ProgramPlace == Place(KernelFree)  \* of a program of the shell
ChainPlace   == Place(Reach(ProgramPlace + ProgramSize, Buffers["chain"]))  \* of one of chain

Fits ==
    /\ KernelFree + StackSize <= StackTop
    /\ \A at \in {ProgramPlace, ChainPlace} :
          /\ at + Cleared + StackSize <= StackTop
          /\ \A p \in Programs : Reach(at + ProgramSize, Buffers[p]) + StackSize <= StackTop

(* execute clears four times the memory it took, and none that is in use.  *)
ClearedArea ==
    Area(depth, free[depth - 1] - ProgramSize, Cleared)
ClearsOnlyDead ==
    [][depth' < depth => \A a \in areas' : Apart(a, ClearedArea)]_vars
=============================================================================
