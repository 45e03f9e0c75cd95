------------------------------ MODULE ConfigStore ------------------------------
(***************************************************************************)
(* What the device configuration promises to the serial console            *)
(* (src/src/iotc/iotc_config.h): a field has one value or none; a write    *)
(* that answered ok has taken effect, at once and as a whole, and what it  *)
(* wrote survives a reset; a write that did not answer ok changed the      *)
(* field at once or not at all.  An erase removes the fields one by one.   *)
(***************************************************************************)
CONSTANTS Fields, Values, Unset

VARIABLES
  field,  \* field[f]: a value, or Unset
  call,   \* the call of the console that is under way
  reply   \* the answer to the last call: "none" until there is one

vars == <<field, call, reply>>

NoCall == [op |-> "none"]
SetOf(f, v) == [op |-> "set", f |-> f, v |-> v]
Erase == [op |-> "erase"]

Init ==
  /\ field \in [Fields -> Values \cup {Unset}]
  /\ call = NoCall /\ reply = "none"

(* An empty value can be written; it counts as none. *)
Set(f, v) ==
  /\ call = NoCall
  /\ call' = SetOf(f, v) /\ reply' = "none"
  /\ UNCHANGED field

StartErase ==
  /\ call = NoCall
  /\ call' = Erase /\ reply' = "none"
  /\ UNCHANGED field

TakeEffectAndAnswer ==
  /\ call.op = "set"
  /\ field' = [field EXCEPT ![call.f] = call.v]
  /\ call' = NoCall /\ reply' = "ok"

Refuse ==
  /\ call.op = "set"
  /\ call' = NoCall /\ reply' = "error"
  /\ UNCHANGED field

Remove ==
  /\ call.op = "erase"
  /\ \E f \in Fields : field' = [field EXCEPT ![f] = Unset]
  /\ \/ UNCHANGED <<call, reply>>
     \/ call' = NoCall /\ reply' = "ok"

(* An erase answers ok even when a file could not be removed. *)
Erased ==
  /\ call.op = "erase"
  /\ call' = NoCall /\ reply' = "ok"
  /\ UNCHANGED field

Reset ==
  /\ call' = NoCall /\ reply' = "none"
  /\ UNCHANGED field

Next ==
  \/ \E f \in Fields, v \in Values \cup {Unset} : Set(f, v)
  \/ StartErase \/ TakeEffectAndAnswer \/ Refuse \/ Remove \/ Erased \/ Reset

Spec == Init /\ [][Next]_vars
=============================================================================
