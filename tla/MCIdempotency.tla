---------------------------- MODULE MCIdempotency ----------------------------
(* Instances of Idempotency for TLC. *)
EXTENDS Idempotency, TLC

CONSTANTS c1, c2, c3, p1, p2

\* Two senders of one request, and a third that uses the key for another.
MCPayloadOf == c1 :> p1 @@ c2 :> p1 @@ c3 :> p2

=============================================================================
