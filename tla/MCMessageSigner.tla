--------------------------- MODULE MCMessageSigner ---------------------------
(***************************************************************************)
(* The signer and the pool with one local and one remote address.          *)
(***************************************************************************)
EXTENDS MessageSigner
=============================================================================
