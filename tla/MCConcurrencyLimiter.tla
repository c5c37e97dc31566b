------------------------ MODULE MCConcurrencyLimiter ------------------------
(***************************************************************************)
(* Small instances of ConcurrencyLimiter: more clients than permits.       *)
(***************************************************************************)
EXTENDS ConcurrencyLimiter

CONSTANTS c1, c2, c3, c4

MCClients == {c1, c2, c3, c4}

=============================================================================
