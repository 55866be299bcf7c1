------------------------------ MODULE ESFSStore ------------------------------
(***************************************************************************)
(* ESFS implements FileStore.  The variable files, which no action reads,  *)
(* holds the texts a user of the drives can see after each step.           *)
(***************************************************************************)
EXTENDS ESFSProperties

VARIABLE files

FilesOf(disks) == [d \in Drives |-> [n \in Names |-> FileText(disks[d], n)]]

StoreSpec == /\ Init /\ files = FilesOf(disk)
             /\ [][Next /\ files' = FilesOf(disk')]_<<vars, files>>

Writing == pc \in {"pointers", "blocks", "data", "chain", "size"}

(* The text of the program's buffer that is not on the disk yet.  While    *)
(* pc = "data" the last piece has been put in the block's copy in memory   *)
(* and counted, but not written.                                           *)
PendingText ==
    LET text    == WithoutNuls(payload)
        counted == Min({fr.total, Len(text)})
        unsaved == IF pc = "data"
                   THEN Cardinality({c \in Cells : fr.data[c] # Block[c]}) ELSE 0
    IN  SubSeq(text, counted - unsaved + 1, Len(text))

Store == INSTANCE FileStore WITH
    mode   <- CASE pc = "off" -> "off"
                [] Writing -> "writing"
                [] pc \in {"super", "inodes"} -> "formatting"
                [] OTHER -> "ready",
    target <- IF Writing THEN <<drive, job.name>> ELSE <<>>,
    rest   <- IF Writing THEN PendingText ELSE <<>>

(* Programs see what FileStore promises: files are made empty, removed     *)
(* whole and extended in order by file_create, file_delete and file_write; *)
(* no file changes because of a call on another, whatever blocks the       *)
(* search hands out; a write that ends has written everything.             *)
ImplementsFileStore == Store!Spec
=============================================================================
