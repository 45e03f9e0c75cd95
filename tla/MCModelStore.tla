----------------------------- MODULE MCModelStore -----------------------------
(* A four-chunk slot of two erase blocks, and two blobs of different length: *)
(* one fills both blocks, the other one block and half of the next.         *)
EXTENDS ModelStore

CONSTANTS ai, pump, long, short

MCClients == {ai, pump}
MCBlobs == {long, short}
MCChunks == [b \in MCBlobs |-> IF b = long THEN 4 ELSE 3]
=============================================================================
