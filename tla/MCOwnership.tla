----------------------------- MODULE MCOwnership -----------------------------
(* The instance of MCESFS for the ownership of blocks: ESFS_owned.cfg.     *)
EXTENDS MCESFS, Ownership

OwnedCommands ==
    FileCommands \union {Edit("edit", f, 0, Short), Cmd("format", <<>>), Copy(0, f, 0, g)}
=============================================================================
