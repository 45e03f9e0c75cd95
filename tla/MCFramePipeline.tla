--------------------------- MODULE MCFramePipeline ---------------------------
(* Each control in a scene of its own: no two of them share a variable.     *)
EXTENDS FramePipeline

MCScenes == {{c} : c \in Controls}

(* The second box is looked at with the snapshot, the reader of boxes that  *)
(* the other scenes do not have.                                            *)
SecondBox == "snapshot" \in scene \/ \A i \in 2..MaxBoxes : boxes[i] = "old"
=============================================================================
