------------------------------ MODULE MCHotSwap ------------------------------
(* Supported models; one shorter, whose tensor shape is rejected; one too   *)
(* big for the arena; one whose inference fails.  One erase block.          *)
EXTENDS HotSwap

CONSTANTS face, person, odd, big, dud, stock

MCModels == {face, person, odd, big, dud}
MCChunks == [b \in MCModels \cup {stock} |-> IF b = odd THEN 1 ELSE 2]
MCKind == [b \in MCModels \cup {stock} |->
             CASE b = odd -> "wrongShape" [] b = big -> "tooBig"
               [] b = dud -> "failsInvoke" [] OTHER -> "good"]

InTurn == [builtin : BOOLEAN, serial : {TRUE},
           models : {{face, person}, {face, odd, big}, {face, dud}}]
Overlapping == [builtin : {FALSE}, serial : {FALSE}, models : {{face, odd}}]
MCScenes == InTurn \cup Overlapping

(* Where pushes and reverts overlap, of what follows a fault only the boot   *)
(* after a reset is looked at.                                               *)
OverlapBound == scene.serial \/ faults = 0 \/ ai.pc \in BootPcs
=============================================================================
