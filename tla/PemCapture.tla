------------------------------ MODULE PemCapture ------------------------------
(***************************************************************************)
(* The serial console's input: the receive interrupt and its ring          *)
(* (console_output.c), the line reader and the capture of a pasted PEM     *)
(* block (iotc_cli.c).  What the commands do is in module DeviceConfig.    *)
(*                                                                         *)
(* A token stands for the text of a line or for a character that ends one: *)
(* "BEGIN" is a BEGIN line with the wanted label, "OTHER" one with another *)
(* label, "END" an END line, "set" the command set cert or set key.  Any   *)
(* other text is the body of a block, "cancel", or a command that starts   *)
(* no capture.  Text runs together when the end of a line between is lost. *)
(* Echo, backspace and what is printed are left out.                       *)
(*                                                                         *)
(* The operator waits for the console before sending the next thing; a     *)
(* script may send set and the block in one go.                            *)
(***************************************************************************)
EXTENDS Naturals, SequencesExt

CONSTANTS
  Eols,      \* how terminals end a line: "cr", "lf" or both
  Blocks,    \* the complete blocks pasted, as sequences of lines
  Bodies,    \* the texts in them between BEGIN and END
  RingRoom,  \* tokens the ring holds (8192 characters)
  LineRoom,  \* tokens a line holds (95 characters)
  PemRoom,   \* lines s_pem holds (4 KB)
  MaxSends,  \* bound: things sent
  MaxLost    \* bound: tokens the ring drops

Frame == {"BEGIN", "OTHER", "END"}

ASSUME CaptureAssumption ==
  /\ RingRoom \in Nat \ {0} /\ LineRoom \in Nat \ {0} /\ PemRoom \in Nat \ {0}
  /\ MaxSends \in Nat /\ MaxLost \in Nat
  /\ Eols \subseteq {<<"cr">>, <<"lf">>, <<"cr", "lf">>}
  /\ Bodies \cap (Frame \cup {"set", "cancel", "show", "cr", "lf"}) = {}
  /\ \A b \in Blocks : /\ b \in Seq(Frame \cup Bodies) /\ Len(b) > 1
                       /\ b[1] \in {"BEGIN", "OTHER"} /\ b[Len(b)] = "END"
                       /\ \A i \in 2..(Len(b) - 1) : b[i] \in Bodies

VARIABLES
  eol,     \* the terminal's, never changed
  wire,    \* tokens on their way
  ring,    \* s_rx_ring between s_rx_tail and s_rx_head
  lastCr,  \* s_last_was_cr
  line,    \* the line being read
  mode,    \* "prompt", or in prv_read_pem: "open" before a block, "block" inside
           \* one, "wrong" (wrong_type) and "large" (too_large)
  seen,    \* seen_input
  pem,     \* the lines in s_pem
  stored,  \* the PEM handed to iotc_config_write last
  lost,    \* history: tokens dropped because the ring was full
  stray,   \* history: a line of a paste was run as a command
  sent,    \* history: the last thing sent, "block" or "other"
  sends

capture == <<mode, seen, pem, stored>>
reader == <<lastCr, line>>
vars == <<eol, wire, ring, reader, capture, lost, stray, sent, sends>>

Init ==
  /\ eol \in Eols /\ wire = <<>> /\ ring = <<>>
  /\ lastCr = FALSE /\ line = <<>>
  /\ mode = "prompt" /\ seen = FALSE /\ pem = <<>> /\ stored = <<>>
  /\ lost = 0 /\ stray = FALSE /\ sent = "other" /\ sends = 0

-----------------------------------------------------------------------------
(* The operator *)

Send(tokens, what) ==
  /\ wire = <<>> /\ ring = <<>> /\ sends < MaxSends
  /\ wire' = tokens /\ sent' = what /\ sends' = sends + 1
  /\ UNCHANGED <<eol, ring, reader, capture, lost, stray>>

(* The texts, each with the end of its line. *)
Lines(texts) ==
  LET n == 1 + Len(eol)
  IN  [i \in 1..(n * Len(texts)) |->
         IF i % n = 1 THEN texts[1 + i \div n] ELSE eol[(i - 1) % n]]

(* Enter, cancel, or a command that captures nothing. *)
TypeLine(text) == Send(text \o eol, "other")

(* The command, or a script with the block in it. *)
StartSet(b) ==
  /\ mode = "prompt"
  /\ \/ Send(<<"set">> \o eol, "other")
     \/ Send(Lines(<<"set">> \o b), "block")

(* A block with or without the end of its last line. *)
PasteBlock(b) ==
  /\ mode # "prompt" /\ line = <<>>
  /\ Send(Lines(b), "block") \/ Send(Lines(Front(b)) \o <<Last(b)>>, "block")

(* A selection that ends inside a block, at the end of a line, or one that  *)
(* starts inside it and is not the rest of a block cut off before.          *)
PastePart(b) ==
  \/ mode # "prompt" /\ \E n \in 1..(Len(b) - 1) : Send(Lines(SubSeq(b, 1, n)), "other")
  \/ mode = "open" /\ Send(Lines(Tail(b)), "other")

-----------------------------------------------------------------------------
(* console_output_uart_callback: push into the ring, drop on overflow. *)
Receive ==
  /\ wire # <<>> /\ wire' = Tail(wire)
  /\ IF Len(ring) < RingRoom
     THEN ring' = Append(ring, Head(wire)) /\ UNCHANGED lost
     ELSE lost < MaxLost /\ lost' = lost + 1 /\ UNCHANGED ring
  /\ UNCHANGED <<eol, reader, capture, stray, sent, sends>>

-----------------------------------------------------------------------------
(* prv_read_pem, for one line l *)

EndCapture(result) ==
  /\ mode' = "prompt" /\ stored' = result
  /\ seen' = FALSE /\ pem' = <<>>

IsBegin(l) == l # <<>> /\ Head(l) \in {"BEGIN", "OTHER"}
HasLabel(l) == \E i \in DOMAIN l : l[i] = "BEGIN"
IsEnd(l) == l # <<>> /\ Head(l) = "END"

EmptyLine(l) ==
  /\ l = <<>>
  /\ IF seen THEN UNCHANGED capture ELSE EndCapture(stored)

CancelLine(l) ==
  /\ l = <<"cancel">> /\ mode \in {"open", "wrong"}
  /\ EndCapture(stored)

(* Mutant: a second BEGIN is appended to what the first began. *)
BeginAppends(l) ==
  /\ IsBegin(l)
  /\ seen' = TRUE /\ UNCHANGED stored
  /\ IF HasLabel(l) THEN mode' = "block" /\ pem' = Append(pem, l)
     ELSE mode' = "wrong" /\ pem' = <<>>

(* Mutant: the label is not looked at. *)
LabelUnchecked(l) ==
  /\ IsBegin(l)
  /\ seen' = TRUE /\ mode' = "block" /\ pem' = <<l>> /\ UNCHANGED stored

(* A second BEGIN restarts the capture. *)
BeginLine(l) ==
  /\ IsBegin(l)
  /\ seen' = TRUE /\ UNCHANGED stored
  /\ IF HasLabel(l) THEN mode' = "block" /\ pem' = <<l>>
     ELSE mode' = "wrong" /\ pem' = <<>>

Inside(l) == l # <<>> /\ ~ IsBegin(l) /\ (l = <<"cancel">> => mode \in {"block", "large"})

(* Not in a block yet: ignored, an END line too. *)
JunkLine(l) ==
  /\ Inside(l) /\ mode = "open"
  /\ seen' = TRUE /\ UNCHANGED <<mode, pem, stored>>

Fits == Len(pem) < PemRoom

BlockLine(l) ==
  /\ Inside(l) /\ mode = "block" /\ Fits
  /\ IF IsEnd(l) THEN EndCapture(Append(pem, l))
     ELSE pem' = Append(pem, l) /\ UNCHANGED <<mode, seen, stored>>

(* Mutant: a block that does not fit ends the capture at once. *)
LargeReturns(l) ==
  /\ Inside(l)
  /\ mode \in {"wrong", "large"} \/ (mode = "block" /\ ~ Fits)
  /\ IF IsEnd(l) \/ mode = "block" THEN EndCapture(stored)
     ELSE UNCHANGED capture

(* Mutant: the END line of a block that does not fit is swallowed too. *)
SwallowEnd(l) ==
  /\ Inside(l)
  /\ mode \in {"wrong", "large"} \/ (mode = "block" /\ ~ Fits)
  /\ IF IsEnd(l) /\ mode = "wrong" THEN EndCapture(stored)
     ELSE mode' = (IF mode = "wrong" THEN "wrong" ELSE "large")
          /\ UNCHANGED <<seen, pem, stored>>

(* The rest of a block that is not wanted or does not fit. *)
Swallow(l) ==
  /\ Inside(l)
  /\ mode \in {"wrong", "large"} \/ (mode = "block" /\ ~ Fits)
  /\ IF IsEnd(l) THEN EndCapture(stored)
     ELSE mode' = (IF mode = "wrong" THEN "wrong" ELSE "large")
          /\ UNCHANGED <<seen, pem, stored>>

PemLine(l) ==
  EmptyLine(l) \/ CancelLine(l) \/ BeginLine(l) \/ JunkLine(l) \/ BlockLine(l)
    \/ Swallow(l)

(* prv_handle *)
PromptLine(l) ==
  /\ IF l = <<"set">> THEN mode' = "open" /\ UNCHANGED <<seen, pem, stored>>
     ELSE UNCHANGED capture
  /\ stray' = (stray \/ \E i \in DOMAIN l : l[i] \in Frame \cup Bodies)

LineDone(l) ==
  /\ line' = <<>>
  /\ IF mode = "prompt" THEN PromptLine(l) ELSE PemLine(l) /\ UNCHANGED stray

-----------------------------------------------------------------------------
(* prv_read_line, for one token *)

ReadToken ==
  /\ ring # <<>> /\ ring' = Tail(ring) /\ lastCr' = (Head(ring) = "cr")
  /\ UNCHANGED <<eol, wire, lost, sent, sends>>

(* The LF of a CR+LF. *)
DropLf ==
  /\ ReadToken /\ Head(ring) = "lf" /\ lastCr
  /\ UNCHANGED <<line, capture, stray>>

EndLine ==
  /\ ReadToken /\ Head(ring) \in {"cr", "lf"} /\ ~ (Head(ring) = "lf" /\ lastCr)
  /\ LineDone(line)

(* With echo off a complete END line ends the read. *)
AddText ==
  /\ ReadToken /\ Head(ring) \notin {"cr", "lf"}
  /\ LET l == IF Len(line) < LineRoom THEN Append(line, Head(ring)) ELSE line
     IN  IF mode # "prompt" /\ IsEnd(l) /\ Last(l) \in Frame THEN LineDone(l)
         ELSE line' = l /\ UNCHANGED <<capture, stray>>

-----------------------------------------------------------------------------
Operator ==
  \/ \E text \in {<<>>, <<"cancel">>, <<"show">>} : TypeLine(text)
  \/ \E b \in Blocks : StartSet(b) \/ PasteBlock(b) \/ PastePart(b)

CliStep == DropLf \/ EndLine \/ AddText

Next == Operator \/ Receive \/ CliStep

Spec == Init /\ [][Next]_vars

(* Characters arrive, and the console task runs on. *)
LiveSpec == Spec /\ WF_vars(Receive) /\ WF_vars(CliStep)

-----------------------------------------------------------------------------
Texts == Frame \cup Bodies \cup {"set", "cancel", "show"}
Tokens == Texts \cup {"cr", "lf"}

(* Type correctness; the buffers keep to their sizes, and s_pem holds lines *)
(* inside a block only.                                                     *)
TypeOK ==
  /\ eol \in Eols /\ lastCr \in BOOLEAN /\ seen \in BOOLEAN
  /\ wire \in Seq(Tokens) /\ ring \in Seq(Tokens) /\ line \in Seq(Texts)
  /\ pem \in Seq(Seq(Texts)) /\ stored \in Seq(Seq(Texts))
  /\ Len(ring) <= RingRoom /\ Len(line) <= LineRoom /\ Len(pem) <= PemRoom
  /\ mode \in {"prompt", "open", "block", "wrong", "large"}
  /\ pem # <<>> <=> mode \in {"block", "large"}
  /\ mode \in {"block", "wrong", "large"} => seen
  /\ lost \in 0..MaxLost /\ stray \in BOOLEAN /\ sent \in {"block", "other"}
  /\ sends \in Nat

(* What is stored was framed by a BEGIN line with the wanted label and an   *)
(* END line, whatever the ring dropped.                                     *)
StoredFramed ==
  stored # <<>> => /\ IsBegin(Head(stored)) /\ HasLabel(Head(stored))
                   /\ IsEnd(Last(stored))

(* If nothing was dropped it is one whole block as it was pasted, whatever  *)
(* was typed, pasted by mistake or pasted in part before.                   *)
StoredWhole ==
  stored # <<>> /\ lost = 0 => \E b \in Blocks : stored = [i \in DOMAIN b |-> <<b[i]>>]

(* No line of a paste is run as a command: not after a wrong or too large   *)
(* block, and not for a CR+LF.                                              *)
PasteNotRun == stray => lost > 0

(* A whole block ends the capture, good or not, if nothing was dropped.     *)
BlockEndsCapture == sent = "block" ~> (mode = "prompt" \/ lost > 0 \/ sent # "block")
=============================================================================
