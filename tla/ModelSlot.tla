------------------------------- MODULE ModelSlot -------------------------------
(***************************************************************************)
(* What the OSPI model slot promises its callers, with the flash commands  *)
(* abstracted away: the slot holds one complete blob or nothing.  A save   *)
(* empties it first and fills it later; nobody ever sees one blob turn     *)
(* into another without the empty slot in between, a load returns exactly  *)
(* what is stored, and a reset forgets the callers but not the slot.       *)
(***************************************************************************)
EXTENDS Integers

CONSTANTS Clients, Blobs, NoBlob

VARIABLES
  stored,  \* the blob a load would return, NoBlob if none
  reply    \* reply[c]: what the last call of c returned

vars == <<stored, reply>>

Answer(c, op, rc, b) ==
  reply' = [reply EXCEPT ![c] = [op |-> op, rc |-> rc, blob |-> b]]

SilentReply == [op |-> "none", rc |-> 0, blob |-> NoBlob]

Init ==
  /\ stored = NoBlob
  /\ reply = [c \in Clients |-> SilentReply]

(* A save or an erase under way has destroyed the stored blob. *)
Clear == stored' = NoBlob /\ UNCHANGED reply

(* The last chunk of a save has reached the empty slot. *)
Fill == stored = NoBlob /\ stored' \in Blobs /\ UNCHANGED reply

(* A save answers 0 only for the blob that is stored. *)
SaveOk(c) == stored # NoBlob /\ Answer(c, "save", 0, stored) /\ UNCHANGED stored

(* A refused or failed call may have destroyed the blob, never stored one. *)
Fails(c) ==
  /\ \E op \in {"save", "erase"}, rc \in {-5, -22, -84, -110} :
       Answer(c, op, rc, NoBlob)
  /\ stored' \in {stored, NoBlob}

EraseOk(c) == Answer(c, "erase", 0, NoBlob) /\ stored' = NoBlob

LoadAnswers(c) ==
  /\ IF stored # NoBlob THEN Answer(c, "load", 0, stored)
     ELSE \E rc \in {-2, -12} : Answer(c, "load", rc, NoBlob)
  /\ UNCHANGED stored

Reset ==
  /\ reply' = [c \in Clients |-> SilentReply]
  /\ stored' \in {stored, NoBlob}

Next ==
  \/ Clear \/ Fill \/ Reset
  \/ \E c \in Clients : SaveOk(c) \/ Fails(c) \/ EraseOk(c) \/ LoadAnswers(c)

Spec == Init /\ [][Next]_vars
=============================================================================
