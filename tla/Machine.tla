------------------------------- MODULE Machine -------------------------------
(***************************************************************************)
(* The machine and the tool of the host that fills the image of its drive: *)
(* before the machine is first switched on, and whenever it has been       *)
(* switched off at the shell, ESFS_raw_write may put files on the image of *)
(* the boot drive, as automake does with every program and the user with   *)
(* any file.  The machine then boots from the image.                       *)
(***************************************************************************)
EXTENDS ESFSProperties

CONSTANTS
    ImageBlocks,  \* as the tool formats an image
    HostFiles,    \* the files the tool may be given: their names and data
    MaxPuts       \* bound: runs of the tool

ASSUME MachineAssumption ==
    /\ ImageBlocks \in Nat /\ ImageBlocks < DiskSectors
    /\ HostFiles \subseteq [name : Seq(Nat), data : Seq(Nat)]
    /\ MaxPuts \in Nat

VARIABLES
    put,  \* the files given to the tool, until the boot drive is formatted
    sound \* no call was cut short, no cursor was made up for the boot drive,
          \* and no file has outgrown its pointer block (run spill)

Host == INSTANCE ESFSRawWrite

Put(file) ==
    /\ pc = "off" /\ sound /\ Len(put) < MaxPuts
    /\ disk' = [disk EXCEPT ![BootDrive] = Host!RawWrite(@, file)]
    /\ put' = Append(put, file)
    /\ UNCHANGED <<sound, env, drive, sb, stale, pc, todo, fr, ret, program, bounds>>

Putting == \E file \in HostFiles : Put(file)

(* The boot drive knows its size, and so the cursor of its last use.       *)
CursorKnown == SuperblockOf(disk[BootDrive]).disk_size # 0

(* What is done to the drives in a behaviour is bounded together.          *)
Bounded == Len(put') + commands' + crashes' <= MaxCommands

MachineInit == Init /\ put = <<>> /\ sound = TRUE
MachineNext ==
    /\ \/ Putting
       \/ /\ Next
          /\ put' = IF pc = "super" /\ drive = BootDrive THEN <<>> ELSE put
          /\ sound' = (sound /\ (pc = "off" => CursorKnown)
                             /\ (pc' = "off" => AtShell) /\ pc' # "chain")
    /\ Bounded
MachineSpec == MachineInit /\ [][MachineNext]_<<vars, put, sound>>

-----------------------------------------------------------------------------
PutOnce == {file \in ToSet(put) : \A k, l \in DOMAIN put :
               put[k].name = file.name /\ put[l].name = file.name => k = l}

(* A file given to the tool once is on the drive whole, NUL bytes and all, *)
(* and its size on record is that of its data, whatever the tool puts      *)
(* before and after it and whatever the machine does in between to files   *)
(* of other names, with its own cursor and its own superblock.             *)
HostFilesIntact ==
    \A file \in PutOnce :
        sound /\ file.name \notin Names =>
        /\ Cardinality(Matches(disk[BootDrive], file.name)) = 1
        /\ LET dk   == disk[BootDrive]
               ino  == InodeAt(dk, Min(Matches(dk, file.name)))
               body == Body(dk, ino)
           IN  /\ Len(body) >= Len(file.data)
               /\ SubSeq(body, 1, Len(file.data)) = file.data
               /\ ino.size = Len(file.data)

(* The tool writes nothing before the superblock, where make has put the   *)
(* boot loader and the kernel.                                             *)
ReservedKept(d) == \A b \in 0 .. SuperblockBlock - 1 : disk'[d][b] = disk[d][b]

HostKernelKept == [][Putting => ReservedKept(BootDrive)]_<<vars, put, sound>>

(* format does not remove the kernel from the drive it formats (manual),   *)
(* whatever superblock it makes for it.                                    *)
Formatting == pc \in {"super", "inodes"}
FormatKeepsKernel == [][Formatting => ReservedKept(drive)]_vars

(* All of the text of the source arrives, in order, at the end of the      *)
(* destination, whichever drives the two are on: copy selects the other    *)
(* drive between file_create and file_write and keeps one superblock.  The *)
(* size on record of the source must be right: it is wrong for a file onto *)
(* which a missing file was copied before (the size is then negative), and *)
(* for one that the host put there.                                        *)
CopyArrives ==
    [][Copied /\ sound /\ SizeCovers(job.srcdrv, job.src)
           => IsSuffix(CopyFrom, CopyTo)]_vars

(* A copied file is the same file under another name (manual): all the     *)
(* text of a source that the host put there arrives.                       *)
HostFileCopied ==
    [][Copied /\ (\E file \in ToSet(put) : file.name = job.src)
           => IsSuffix(CopyFrom, CopyTo)]_vars
=============================================================================
