----------------------------- MODULE MCESFSStore -----------------------------
(* The instances of MCESFS for the refinement of FileStore.                *)
EXTENDS MCOwnership, ESFSStore
=============================================================================
