------------------------------ MODULE MCMachine ------------------------------
(* A small instance of Machine: two drives of 36 sectors.                  *)
EXTENDS MCESFS, Machine

(* The image make leaves: a boot sector, a reserved sector of zeros before *)
(* the place of the superblock, and no file system.                        *)
MadeImage == [BlankDisk EXCEPT ![0] = BootSector]

(* The image with a blank drive, and drives in use.                        *)
MachineDisks == UsedAndBlank \union {[d \in Drives |-> IF d = BootDrive THEN MadeImage ELSE BlankDisk],
                 [d \in Drives |-> UsedDisk]}

(* Data of less than, about and more than a block, with NUL bytes at its   *)
(* end and across the border of two blocks.  File h is no command's.       *)
SomeFiles == {[name |-> f, data |-> <<51, 0>>],
              [name |-> h, data |-> <<61, 62, 63, 64, 65, 0, 0, 66>>],
              [name |-> h, data |-> [i \in 1 .. 15 |-> IF i \in 6 .. 14 THEN 0 ELSE 70 + i]]}

(* Texts of two blocks, of all the blocks of a pointer block and of more;  *)
(* copies within and between the drives; formatting either; drive 3 is     *)
(* absent.                                                                 *)
MachineCommands ==
    {Edit("hexedit", f, 0, text) : text \in {Long, Count(Room), Count(Room + 9)}}
    \union {Copy(0, f, 1, f), Copy(0, f, 0, g), Copy(1, f, 0, g),
            Cmd("del", f), Cmd("format", <<>>), Drive(1), Drive(3)}
=============================================================================
