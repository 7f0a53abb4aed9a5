--------------------------- MODULE MCLinkEmulator ---------------------------
(* LinkEmulator for TLC: the cfg files give the constants their values, and *)
(* the claim below is what the code says of itself and does not keep.       *)
EXTENDS LinkEmulator

\* The assertion before pthread_cond_wait, assert(!buffer->size) (link.c:252):
\* the scheduler never reaches it with a frame in buffer.
BlocksOnEmptyBuffer == sPc # "aborted"

=============================================================================
