----------------------- MODULE MCOutboundIdempotency -----------------------
(***************************************************************************)
(* The instance of OutboundIdempotency across a reclaim and its expiry.    *)
(***************************************************************************)
EXTENDS OutboundIdempotency, TLC

CONSTANTS c1, c2, c3, q1, q2, absent, none

Interchangeable == Permutations(Calls) \cup Permutations(Requests)
=============================================================================
