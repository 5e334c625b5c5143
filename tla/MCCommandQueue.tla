--------------------------- MODULE MCCommandQueue ---------------------------
(***************************************************************************)
(* Bounds for CommandQueue.  RetryDelay and Lease exceed the time a row    *)
(* has left near its end, so that both caps at expires_at are reached; a   *)
(* second row is there for the order of the claims.                        *)
(***************************************************************************)
EXTENDS CommandQueue
=============================================================================
